------------------------- MODULE KVCacheTokensProof -------------------------
(***************************************************************************)
(* Proofs about KVCache, for any sizes: what the cells hold and what       *)
(* attention reads. NothingExtra: a sequence holds a position once, and    *)
(* none its caller removed. NoGaps: the positions of a sequence are an     *)
(* interval. Intact: every token the next one can see is in a cell, at its *)
(* position, with its data.                                                *)
(*                                                                         *)
(* Five inductive invariants, each relative to those before it: BooksInv   *)
(* (KVCacheProof); ExtraInv, what a sequence may hold; WholeInv, that      *)
(* without a window every token has its cell and the slots of a pending    *)
(* plan are free; RightInv, that the data in the cells, after the pending  *)
(* copies and shifts, is right; and WindowInv, that with a window the      *)
(* tokens inside it have their cells. NoGaps and Intact with a window are  *)
(* about batches that are one micro batch (~ Lookahead): prepare() of      *)
(* several loses tokens, as run kv_prepare shows.                          *)
(***************************************************************************)
EXTENDS KVCacheProof

-----------------------------------------------------------------------------
(* What a sequence may hold: the inductive invariant behind NothingExtra.  *)

\* The cells of q have positions below l, no two of them the same.
Held(c, q, l) ==
    \A i \in Idx : q \in c.seq[i] =>
        /\ c.pos[i] < l
        /\ \A j \in Idx : q \in c.seq[j] /\ c.pos[j] = c.pos[i] => j = i

\* What d has of q it has from c.
Shrinks(c, d, q) == \A i \in Idx : q \in d.seq[i] => q \in c.seq[i] /\ d.pos[i] = c.pos[i]

\* A sequence that loses cells holds no more than before.
LEMMA HeldShrinks ==
    ASSUME NEW c, NEW d, NEW q, NEW l, Held(c, q, l), Shrinks(c, d, q)
    PROVE  Held(d, q, l)
  BY DEF Held, Shrinks

\* A sequence may hold more than it does.
LEMMA HeldHigher ==
    ASSUME NEW c \in Good, NEW q, NEW l \in Nat, NEW k \in Nat, Held(c, q, l), l <= k
    PROVE  Held(c, q, k)
  <1>1. \A i \in Idx : c.pos[i] \in Int
    BY GoodType
  <1> QED BY <1>1 DEF Held

\* What a removal leaves.
LEMMA RemovedShrinks ==
    ASSUME NEW c \in Good, NEW d, NEW q, NEW p0 \in Int, NEW p1 \in Int, RangeRemoved(c, d, q, p0, p1)
    PROVE  /\ d \in Good /\ \A r : Shrinks(c, d, r)
           /\ \A i \in Idx : q \in d.seq[i] => ~ (c.pos[i] >= p0 /\ c.pos[i] < p1)
  <1>1. d \in Good
    BY DEF RangeRemoved
  <1>2. ASSUME NEW r, NEW i \in Idx, r \in d.seq[i] PROVE r \in c.seq[i] /\ d.pos[i] = c.pos[i]
    BY <1>2 DEF RangeRemoved
  <1>3. ASSUME NEW i \in Idx, q \in d.seq[i] PROVE ~ (c.pos[i] >= p0 /\ c.pos[i] < p1)
    BY <1>2, <1>3 DEF RangeRemoved
  <1> QED BY <1>1, <1>2, <1>3 DEF Shrinks

\* A removal up to the end leaves the positions below p.
LEMMA CutOff ==
    ASSUME NEW c \in Good, NEW d, NEW q, NEW p \in Int, RangeRemoved(c, d, q, p, Infinite),
           NEW l, Held(c, q, l)
    PROVE  Held(d, q, p)
  <1>0. Infinite \in Int
    BY Consts DEF Infinite
  <1>1. Shrinks(c, d, q) /\ \A i \in Idx : q \in d.seq[i] => ~ (c.pos[i] >= p /\ c.pos[i] < Infinite)
    BY <1>0, RemovedShrinks
  <1>2. Held(d, q, l)
    BY <1>1, HeldShrinks
  <1>3. ASSUME NEW i \in Idx, q \in d.seq[i] PROVE d.pos[i] < p
    <2>1. d.pos[i] = c.pos[i] /\ ~ (c.pos[i] >= p /\ c.pos[i] < Infinite)
      BY <1>1, <1>3 DEF Shrinks
    <2>2. c.pos[i] \in -1 .. MaxLen - 1
      BY GoodType
    <2> QED BY <2>1, <2>2, Consts DEF Infinite
  <1> QED BY <1>2, <1>3 DEF Held

\* What a slot's tokens add to q: positions from l up to k, each once.
Fits(toks, n, q, l, k) ==
    /\ l <= k
    /\ \A j \in 1 .. n : toks[j].seq = q => l <= toks[j].pos /\ toks[j].pos < k
    /\ \A j, x \in 1 .. n : toks[j].seq = q /\ toks[x].seq = q /\ toks[j].pos = toks[x].pos => j = x

\* Tokens that go on where a sequence ends are held once.
LEMMA RefillHeld ==
    ASSUME NEW c \in Good, NEW n \in Nat, NEW idxs, SlotOf(idxs, n), NEW toks \in [1 .. n -> Token],
           NEW d, RefilledSome(c, d, idxs, toks, n), NEW q, NEW l \in Nat, NEW k \in Nat,
           Held(c, q, l), Fits(toks, n, q, l, k)
    PROVE  Held(d, q, k)
  <1>1. PICK rm : Refilled(c, d, idxs, toks, n, rm)
    BY DEF RefilledSome
  <1>2. ASSUME NEW i \in Idx, q \in d.seq[i]
        PROVE  \/ \E j \in 1 .. n : idxs[j] = i /\ toks[j].seq = q /\ d.pos[i] = toks[j].pos
               \/ q \in c.seq[i] /\ d.pos[i] = c.pos[i]
    <2>1. CASE \E j \in 1 .. n : idxs[j] = i
      <3>1. PICK j \in 1 .. n : idxs[j] = i
        BY <2>1
      <3>2. LeftAt(d, i, toks[j].pos, {toks[j].seq}, rm)
        BY <1>1, <3>1 DEF Refilled
      <3> QED BY <1>2, <3>1, <3>2 DEF LeftAt
    <2>2. CASE \A j \in 1 .. n : idxs[j] # i
      <3>1. LeftAt(d, i, c.pos[i], c.seq[i], rm)
        BY <1>1, <2>2 DEF Refilled
      <3> QED BY <1>2, <3>1 DEF LeftAt
    <2> QED BY <2>1, <2>2
  <1>3. \A j \in 1 .. n : toks[j].pos \in Int
    <2> TAKE j \in 1 .. n
    <2>1. toks[j] \in Token
      OBVIOUS
    <2> QED BY <2>1 DEF Token
  <1>4. \A i \in Idx : c.pos[i] \in Int /\ (q \in c.seq[i] => c.pos[i] < l)
    BY GoodType DEF Held
  <1>5. \A j \in 1 .. n : toks[j].seq = q => l <= toks[j].pos /\ toks[j].pos < k
    BY DEF Fits
  <1>6. ASSUME NEW i \in Idx, q \in d.seq[i] PROVE d.pos[i] < k
    <2>1. l <= k
      BY DEF Fits
    <2> QED BY <1>2, <1>4, <1>5, <1>6, <2>1
  <1>7. ASSUME NEW i \in Idx, q \in d.seq[i], NEW x \in Idx, q \in d.seq[x], d.pos[x] = d.pos[i]
        PROVE  x = i
    <2>1. CASE \E j \in 1 .. n : idxs[j] = i /\ toks[j].seq = q /\ d.pos[i] = toks[j].pos
      <3>1. PICK j \in 1 .. n : idxs[j] = i /\ toks[j].seq = q /\ d.pos[i] = toks[j].pos
        BY <2>1
      <3>2. d.pos[x] >= l
        BY <1>3, <1>5, <1>7, <3>1
      <3>3. ~ (q \in c.seq[x] /\ d.pos[x] = c.pos[x])
        BY <1>4, <3>2
      <3>4. PICK y \in 1 .. n : idxs[y] = x /\ toks[y].seq = q /\ d.pos[x] = toks[y].pos
        BY <1>2, <1>7, <3>3
      <3> QED BY <1>7, <3>1, <3>4 DEF Fits
    <2>2. CASE q \in c.seq[i] /\ d.pos[i] = c.pos[i]
      <3>1. d.pos[x] < l
        BY <1>4, <1>7, <2>2
      <3>2. ~ \E j \in 1 .. n : idxs[j] = x /\ toks[j].seq = q /\ d.pos[x] = toks[j].pos
        BY <1>3, <1>5, <3>1
      <3>3. q \in c.seq[x] /\ d.pos[x] = c.pos[x]
        BY <1>2, <1>7, <3>2
      <3> QED BY <1>7, <2>2, <3>3 DEF Held
    <2> QED BY <1>2, <1>7, <2>1, <2>2
  <1> QED BY <1>6, <1>7 DEF Held

\* The inductive invariant behind NothingExtra.
ExtraOf(cs, mm) == \A q \in Seqs : Held(cs[StreamOf(q)], q, Len(mm[q]))
ImageOnce(img) ==
    \A j \in 1 .. Len(img.cells) :
        /\ img.cells[j].pos < Len(img.mem)
        /\ \A k \in 1 .. Len(img.cells) : img.cells[k].pos = img.cells[j].pos => k = j
ExtraInv == ExtraOf(cells, mem) /\ \A img \in saved : ImageOnce(img)
ExtraNext == ExtraOf(cells', mem') /\ \A img \in saved' : ImageOnce(img)

\* A stream is replaced: its own sequences are to be looked at, and q, whose
\* tokens may have changed.
LEMMA OneStream ==
    ASSUME BooksInv, ExtraInv, NEW s \in Streams, NEW d, cells' = [cells EXCEPT ![s] = d],
           NEW q \in Seqs, StreamOf(q) = s, \A r \in Seqs \ {q} : mem'[r] = mem[r],
           Held(d, q, Len(mem'[q])), \A r \in Seqs \ {q} : Shrinks(cells[s], d, r)
    PROVE  ExtraOf(cells', mem')
  <1> SUFFICES ASSUME NEW r \in Seqs PROVE Held(cells'[StreamOf(r)], r, Len(mem'[r]))
    BY DEF ExtraOf
  <1>1. DOMAIN cells = Streams /\ StreamOf(r) \in Streams
    BY BooksAre, StreamsAre DEF Caches
  <1>2. Held(cells[StreamOf(r)], r, Len(mem[r]))
    BY DEF ExtraInv, ExtraOf
  <1>3. CASE r = q
    BY <1>1, <1>3
  <1>4. CASE r # q /\ StreamOf(r) # s
    BY <1>1, <1>2, <1>4
  <1>5. CASE r # q /\ StreamOf(r) = s
    <2>1. Shrinks(cells[s], d, r) /\ Held(cells[s], r, Len(mem[r]))
      BY <1>2, <1>5
    <2>2. Held(d, r, Len(mem[r]))
      BY <2>1, HeldShrinks
    <2> QED BY <1>1, <1>5, <2>2
  <1> QED BY <1>3, <1>4, <1>5

\* A truncated sequence holds nothing behind its end.
LEMMA TruncateExtra ==
    ASSUME BooksInv, ExtraInv, NEW q \in Seqs, NEW p \in 0 .. MaxLen, Truncate(q, p)
    PROVE  ExtraNext
  <1> DEFINE s == StreamOf(q)
             k == Kept(q, p)
             d == SeqRmRange(cells[s], q, k, Infinite)
             t == SubSeq(mem[q], 1, k)
  <1>1. s \in Streams /\ cells[s] \in Good /\ mem[q] \in Seq(Seqs \X Nat) /\ Len(mem[q]) \in 0 .. MaxLen
    BY BooksAre, StreamsAre
  <1>2. k \in {0, p} /\ p < Len(mem[q]) /\ k \in Int
    BY DEF Kept, Truncate
  <1>3. Infinite \in Int
    BY Consts DEF Infinite
  <1>4. cells' = [cells EXCEPT ![s] = d] /\ mem' = [mem EXCEPT ![q] = t] /\ saved' = saved
    BY DEF Truncate, Becomes
  <1>5. Held(cells[s], q, Len(mem[q]))
    BY DEF ExtraInv, ExtraOf
  <1>0. StreamOf(q) = s
    OBVIOUS
  <1> HIDE DEF s, k
  <1>6. RangeRemoved(cells[s], d, q, k, Infinite)
    BY <1>1, <1>2, <1>3, SeqRmRangeIs
  <1>7. Len(t) = k
    <2>1. k \in 0 .. Len(mem[q])
      BY <1>1, <1>2
    <2>2. PICK m : m = mem[q]
      OBVIOUS
    <2>3. Len(SubSeq(m, 1, k)) = k
      BY <1>1, <2>1, <2>2
    <2> QED BY <2>2, <2>3
  <1> HIDE DEF d, t
  <1>8. mem'[q] = t /\ \A r \in Seqs \ {q} : mem'[r] = mem[r]
    <2>1. DOMAIN mem = Seqs
      BY BooksAre DEF Mems
    <2> QED BY <1>4, <2>1
  <1>9. Held(d, q, Len(mem'[q]))
    BY <1>1, <1>2, <1>5, <1>6, <1>7, <1>8, CutOff
  <1>10. \A r : Shrinks(cells[s], d, r)
    BY <1>1, <1>2, <1>3, <1>6, RemovedShrinks
  <1>11. ExtraOf(cells', mem')
    BY <1>0, <1>1, <1>4, <1>8, <1>9, <1>10, OneStream
  <1> QED BY <1>4, <1>11 DEF ExtraNext, ExtraInv

\* What a cut and a shift do to a cell of the sequence q.
Shifts(c, d, q, to, from, n) ==
    /\ \A i \in Idx : q \in d.seq[i] =>
          /\ q \in c.seq[i] /\ d.pos[i] \in Int /\ d.pos[i] < to + n
          /\ c.pos[i] = IF d.pos[i] < to THEN d.pos[i] ELSE d.pos[i] + (from - to)
    /\ \A r \in Seqs \ {q} : Shrinks(c, d, r)

\* A cut and a shift: what is before the cut stays, n tokens behind it move up, and
\* what is behind them goes.
LEMMA ShiftsIs ==
    ASSUME NEW c \in Good, NEW q \in Seqs, NEW to \in Nat, NEW from \in Nat, NEW n \in Nat,
           to < from, n > 0,
           \A i \in Idx : q \in c.seq[i] /\ c.pos[i] >= to => c.seq[i] = {q},
           NEW cut, RangeRemoved(c, cut, q, to, from),
           NEW add, RangeMoved(cut, add, q, from, from + n, to - from),
           NEW d, RangeRemoved(add, d, q, to + n, Infinite)
    PROVE  Shifts(c, d, q, to, from, n)
  <1>0. Infinite \in Int /\ to + n \in Int /\ add \in Good /\ cut \in Good
    BY Consts DEF Infinite, RangeMoved, RangeRemoved
  <1>1. /\ \A r : Shrinks(c, cut, r)
        /\ \A i \in Idx : q \in cut.seq[i] => ~ (c.pos[i] >= to /\ c.pos[i] < from)
    BY RemovedShrinks
  <1>2. /\ \A r : Shrinks(add, d, r)
        /\ \A i \in Idx : q \in d.seq[i] => ~ (add.pos[i] >= to + n /\ add.pos[i] < Infinite)
    BY <1>0, RemovedShrinks
  <1>3. \A i \in Idx : /\ c.pos[i] \in Int /\ cut.pos[i] \in Int /\ add.pos[i] \in -1 .. MaxLen - 1
    BY <1>0, GoodType
  <1>4. \A i \in Idx :
          IF q \in cut.seq[i] /\ cut.pos[i] >= from /\ cut.pos[i] < from + n
          THEN add.seq[i] = cut.seq[i] /\ add.pos[i] = cut.pos[i] + (to - from)
          ELSE add.seq[i] = cut.seq[i] /\ add.pos[i] = cut.pos[i]
    BY DEF RangeMoved
  <1>5. ASSUME NEW i \in Idx, q \in d.seq[i]
        PROVE  /\ q \in c.seq[i] /\ d.pos[i] \in Int /\ d.pos[i] < to + n
               /\ c.pos[i] = IF d.pos[i] < to THEN d.pos[i] ELSE d.pos[i] + (from - to)
    <2>1. q \in add.seq[i] /\ d.pos[i] = add.pos[i]
      BY <1>2, <1>5 DEF Shrinks
    <2>2. q \in cut.seq[i]
      BY <1>4, <2>1
    <2>3. q \in c.seq[i] /\ cut.pos[i] = c.pos[i] /\ ~ (c.pos[i] >= to /\ c.pos[i] < from)
      BY <1>1, <2>2 DEF Shrinks
    <2>4. PICK x \in Int, y \in Int : x = c.pos[i] /\ y = add.pos[i]
      BY <1>3
    <2>5. y < to + n
      <3>1. ~ (y >= to + n /\ y < Infinite) /\ y < MaxLen
        BY <1>2, <1>3, <1>5, <2>4, Consts
      <3> QED BY <3>1, Consts DEF Infinite
    <2>6. IF x >= from /\ x < from + n THEN y = x + (to - from) ELSE y = x
      BY <1>4, <2>2, <2>3, <2>4
    <2>7. x = IF y < to THEN y ELSE y + (from - to)
      BY <2>3, <2>4, <2>5, <2>6
    <2> QED BY <2>1, <2>3, <2>4, <2>5, <2>7
  <1>6. ASSUME NEW r \in Seqs \ {q}, NEW i \in Idx, r \in d.seq[i]
        PROVE  r \in c.seq[i] /\ d.pos[i] = c.pos[i]
    <2>1. r \in add.seq[i] /\ d.pos[i] = add.pos[i]
      BY <1>2, <1>6 DEF Shrinks
    <2>2. r \in cut.seq[i]
      BY <1>4, <2>1
    <2>3. r \in c.seq[i] /\ cut.pos[i] = c.pos[i]
      BY <1>1, <2>2 DEF Shrinks
    <2>4. q \in cut.seq[i] => q \in c.seq[i]
      BY <1>1 DEF Shrinks
    <2>5. q \in cut.seq[i] => ~ (c.pos[i] >= to)
      BY <2>3, <2>4
    <2>6. ~ (q \in cut.seq[i] /\ cut.pos[i] >= from)
      BY <1>3, <2>3, <2>5
    <2> QED BY <1>4, <2>1, <2>3, <2>6
  <1> QED BY <1>5, <1>6 DEF Shifts, Shrinks

\* After the cut and the shift q still has every position once.
LEMMA ShiftsHeld ==
    ASSUME NEW c, NEW d, NEW q, NEW to \in Nat, NEW from \in Nat, NEW n \in Nat,
           Shifts(c, d, q, to, from, n), NEW l, Held(c, q, l)
    PROVE  Held(d, q, to + n)
  <1>1. \A i \in Idx : q \in d.seq[i] =>
          /\ q \in c.seq[i] /\ d.pos[i] < to + n
          /\ c.pos[i] = IF d.pos[i] < to THEN d.pos[i] ELSE d.pos[i] + (from - to)
    BY DEF Shifts
  <1>2. ASSUME NEW i \in Idx, q \in d.seq[i], NEW j \in Idx, q \in d.seq[j], d.pos[j] = d.pos[i]
        PROVE  j = i
    <2>1. c.pos[j] = c.pos[i] /\ q \in c.seq[i] /\ q \in c.seq[j]
      BY <1>1, <1>2
    <2> QED BY <2>1 DEF Held
  <1> QED BY <1>1, <1>2 DEF Held

\* After a cut and a shift no position is held twice.
LEMMA CutExtra ==
    ASSUME BooksInv, ExtraInv, NEW q \in Seqs, NEW to \in 0 .. MaxLen, NEW from \in 0 .. MaxLen,
           NEW n \in 0 .. MaxLen, CutAndShift(q, to, from, n)
    PROVE  ExtraNext
  <1> DEFINE s == StreamOf(q)
             c == cells[s]
             t == SubSeq(mem[q], 1, to) \o SubSeq(mem[q], from + 1, from + n)
  <1>0. to \in Nat /\ from \in Nat /\ n \in Nat
    OBVIOUS
  <1>1. s \in Streams /\ c \in Good /\ mem[q] \in Seq(Seqs \X Nat)
    BY BooksAre, StreamsAre
  <1>2. /\ to < from /\ n > 0 /\ from + n <= Len(mem[q]) /\ MayShift(q, to)
        /\ mem' = [mem EXCEPT ![q] = t] /\ saved' = saved
    BY DEF CutAndShift
  <1>3. \A i \in Idx : q \in c.seq[i] /\ c.pos[i] >= to => c.seq[i] = {q}
    BY <1>2 DEF MayShift
  <1>4. Held(c, q, Len(mem[q]))
    BY DEF ExtraInv, ExtraOf
  <1>5. PICK cut, add, d : /\ RangeRemoved(c, cut, q, to, from)
                           /\ RangeMoved(cut, add, q, from, from + n, to - from)
                           /\ RangeRemoved(add, d, q, to + n, Infinite)
                           /\ cells' = [cells EXCEPT ![s] = d]
    BY CutDoes
  <1>6. Len(t) = to + n
    <2> DEFINE m == mem[q]
    <2>1. m \in Seq(Seqs \X Nat) /\ from + n <= Len(m)
      BY <1>1, <1>2
    <2>2. t = SubSeq(m, 1, to) \o SubSeq(m, from + 1, from + n)
      OBVIOUS
    <2> HIDE DEF m, t
    <2>3. IsCut(t, m, to, from, n)
      BY <1>0, <1>2, <2>1, <2>2, CutMem
    <2> QED BY <2>3 DEF IsCut
  <1> HIDE DEF t
  <1>s. StreamOf(q) = s
    OBVIOUS
  <1>c. cells[s] = c
    OBVIOUS
  <1> HIDE DEF c, s
  <1>7. Shifts(c, d, q, to, from, n)
    BY <1>0, <1>1, <1>2, <1>3, <1>5, ShiftsIs
  <1>8. Held(d, q, to + n)
    BY <1>0, <1>4, <1>7, ShiftsHeld
  <1>9. mem'[q] = t /\ \A r \in Seqs \ {q} : mem'[r] = mem[r]
    <2>1. DOMAIN mem = Seqs
      BY BooksAre DEF Mems
    <2> QED BY <1>2, <2>1
  <1>10. Held(d, q, Len(mem'[q]))
    BY <1>6, <1>8, <1>9
  <1>11. \A r \in Seqs \ {q} : Shrinks(cells[s], d, r)
    BY <1>c, <1>7 DEF Shifts
  <1>12. ExtraOf(cells', mem')
    BY <1>s, <1>1, <1>5, <1>9, <1>10, <1>11, OneStream
  <1> QED BY <1>2, <1>12 DEF ExtraNext, ExtraInv

\* A copy holds what the original holds.
LEMMA CopyExtra ==
    ASSUME BooksInv, ExtraInv, NEW q \in Seqs, NEW r \in Seqs, CopySequence(q, r)
    PROVE  ExtraNext
  <1>1. mem' = [mem EXCEPT ![r] = mem[q]] /\ saved' = saved /\ q # r
    BY DEF CopySequence
  <1>2. mem'[r] = mem[q] /\ \A x \in Seqs \ {r} : mem'[x] = mem[x]
    <2>1. DOMAIN mem = Seqs
      BY BooksAre DEF Mems
    <2> QED BY <1>1, <2>1
  <1>3. Held(cells[StreamOf(q)], q, Len(mem[q]))
    BY DEF ExtraInv, ExtraOf
  <1>4. \A s \in Streams : cells[s] \in Good
    BY BooksAre
  <1>5. CASE mode = "streams"
    <2>1. Streams = Seqs /\ \A x \in Seqs : StreamOf(x) = x
      BY <1>5, StreamsAre DEF StreamOf
    <2> DEFINE d == StreamCopy(cells[q], q, r)
    <2>2. cells' = [cells EXCEPT ![r] = d]
      BY <1>5 DEF CopySequence
    <2>3. CopiedFrom(cells[q], d, q, r)
      BY <1>4, <2>1, StreamCopyIs
    <2> HIDE DEF d
    <2>4. Held(cells[q], q, Len(mem[q]))
      BY <1>3, <2>1
    <2>5. Held(d, r, Len(mem'[r]))
      <3>1. \A i \in Idx : r \in d.seq[i] => q \in cells[q].seq[i] /\ d.pos[i] = cells[q].pos[i]
        BY <2>3 DEF CopiedFrom
      <3>2. Held(d, r, Len(mem[q]))
        BY <2>4, <3>1 DEF Held
      <3> QED BY <1>2, <3>2
    <2>6. \A x \in Seqs \ {r} : Shrinks(cells[r], d, x)
      BY <2>3 DEF CopiedFrom, Shrinks
    <2>7. ExtraOf(cells', mem')
      BY <1>2, <2>1, <2>2, <2>5, <2>6, OneStream
    <2> QED BY <1>1, <2>7 DEF ExtraNext, ExtraInv
  <1>6. CASE mode # "streams"
    <2>1. 0 \in Streams /\ \A x \in Seqs : StreamOf(x) = 0
      BY <1>6, StreamsAre DEF StreamOf
    <2> DEFINE c == SeqRmRange(cells[0], r, 0, Infinite)
               d == SeqCpCells(c, q, r)
    <2>2. cells' = [cells EXCEPT ![0] = d]
      BY <1>6 DEF CopySequence
    <2>0. Infinite \in Int /\ 0 \in Int
      BY Consts DEF Infinite
    <2>3. RangeRemoved(cells[0], c, r, 0, Infinite)
      BY <1>4, <2>0, <2>1, SeqRmRangeIs
    <2> HIDE DEF c
    <2>4. c \in Good /\ \A i \in Idx : r \notin c.seq[i]
      BY <1>4, <2>1, <2>3, RangeAll
    <2>5. SharedWith(c, d, q, r)
      BY <2>4, ShareIs
    <2> HIDE DEF d
    <2>6. \A x : Shrinks(cells[0], c, x)
      BY <1>4, <2>0, <2>1, <2>3, RemovedShrinks
    <2>7. Held(c, q, Len(mem[q]))
      BY <1>3, <2>1, <2>6, HeldShrinks
    <2>8. Held(d, r, Len(mem'[r]))
      <3>1. \A i \in Idx : r \in d.seq[i] => q \in c.seq[i] /\ d.pos[i] = c.pos[i]
        BY <2>4, <2>5 DEF SharedWith
      <3>2. Held(d, r, Len(mem[q]))
        BY <2>7, <3>1 DEF Held
      <3> QED BY <1>2, <3>2
    <2>9. \A x \in Seqs \ {r} : Shrinks(cells[0], d, x)
      BY <2>5, <2>6 DEF SharedWith, Shrinks
    <2>10. ExtraOf(cells', mem')
      BY <1>2, <2>1, <2>2, <2>8, <2>9, OneStream
    <2> QED BY <1>1, <2>10 DEF ExtraNext, ExtraInv
  <1> QED BY <1>5, <1>6

\* The sequences that are not kept hold nothing.
LEMMA KeepExtra ==
    ASSUME BooksInv, ExtraInv, NEW q \in Seqs, KeepSequence(q)
    PROVE  ExtraNext
  <1> DEFINE s == StreamOf(q)
             d == SeqKeepCells(cells[s], q)
  <1>1. s \in Streams /\ cells[s] \in Good /\ DOMAIN cells = Streams
    BY BooksAre, StreamsAre DEF Caches
  <1>2. cells' = [cells EXCEPT ![s] = d] /\ saved' = saved
    BY DEF KeepSequence, Becomes
  <1>3. mem' = [r \in Seqs |-> IF r # q /\ StreamOf(r) = s THEN <<>> ELSE mem[r]]
    BY DEF KeepSequence
  <1>s. StreamOf(q) = s
    OBVIOUS
  <1> HIDE DEF s
  <1>4. KeptOnly(cells[s], d, q)
    BY <1>1, KeepIs
  <1> HIDE DEF d
  <1>5. ASSUME NEW r \in Seqs PROVE Held(cells'[StreamOf(r)], r, Len(mem'[r]))
    <2>1. Held(cells[StreamOf(r)], r, Len(mem[r]))
      BY DEF ExtraInv, ExtraOf
    <2>2. StreamOf(r) \in Streams
      BY StreamsAre
    <2>3. CASE StreamOf(r) # s
      BY <1>1, <1>2, <1>3, <2>1, <2>2, <2>3
    <2>4. CASE r = q
      <3>1. mem'[r] = mem[r] /\ cells'[StreamOf(r)] = d
        BY <1>s, <1>1, <1>2, <1>3, <2>4
      <3>2. Shrinks(cells[s], d, r)
        BY <1>4, <2>4 DEF KeptOnly, Shrinks
      <3> QED BY <1>s, <2>1, <2>4, <3>1, <3>2, HeldShrinks
    <2>5. CASE StreamOf(r) = s /\ r # q
      <3>1. cells'[StreamOf(r)] = d /\ \A i \in Idx : r \notin d.seq[i]
        BY <1>1, <1>2, <1>4, <2>5 DEF KeptOnly
      <3> QED BY <3>1 DEF Held
    <2> QED BY <2>3, <2>4, <2>5
  <1> QED BY <1>2, <1>5 DEF ExtraNext, ExtraInv, ExtraOf

\* An empty stream holds nothing.
LEMMA EmptyHeld ==
    ASSUME NEW q, NEW l
    PROVE  Held(EmptyCells, q, l)
  BY DEF Held, EmptyCells

\* A cleared cache holds nothing.
LEMMA ClearExtra ==
    ASSUME BooksInv, ExtraInv, Clear
    PROVE  ExtraNext
  <1>1. cells' = [s \in Streams |-> EmptyCells] /\ saved' = saved
    BY DEF Clear
  <1>2. \A q \in Seqs : cells'[StreamOf(q)] = EmptyCells
    BY <1>1, StreamsAre
  <1> QED BY <1>1, <1>2, EmptyHeld DEF ExtraNext, ExtraInv, ExtraOf

\* An image has every position once.
LEMMA SaveExtra ==
    ASSUME BooksInv, ExtraInv, NEW q \in Seqs, SaveSequence(q)
    PROVE  ExtraNext
  <1> DEFINE s == StreamOf(q)
             K == {i \in Idx : q \in cells[s].seq[i]}
             own == Ordered(K)
             img == [mem |-> mem[q],
                     cells |-> [j \in DOMAIN own |->
                         [pos |-> cells[s].pos[own[j]], kv |-> data[s][own[j]]]]]
  <1>1. saved' = {img} /\ UNCHANGED <<cells, mem>>
    BY DEF SaveSequence
  <1>2. Held(cells[s], q, Len(mem[q]))
    BY DEF ExtraInv, ExtraOf
  <1> HIDE DEF s
  <1>3. Lists(own, K)
    BY OwnCells
  <1>4. \A i \in K : /\ cells[s].pos[i] < Len(mem[q])
                     /\ \A j \in K : cells[s].pos[j] = cells[s].pos[i] => j = i
    BY <1>2 DEF Held
  <1> HIDE DEF own, K
  <1> DEFINE n == Cardinality(K)
  <1>5. /\ n \in Nat /\ DOMAIN own = 1 .. n /\ \A j \in 1 .. n : own[j] \in K
        /\ \A j, k \in 1 .. n : own[j] = own[k] => j = k
    BY <1>3 DEF Lists
  <1> HIDE DEF n
  <1>6. ImageOnce(img)
    <2> DEFINE ic == [j \in 1 .. n |-> [pos |-> cells[s].pos[own[j]], kv |-> data[s][own[j]]]]
    <2>1. img.mem = mem[q] /\ img.cells = ic
      BY <1>5
    <2>2. Len(ic) = n /\ \A j \in 1 .. n : ic[j].pos = cells[s].pos[own[j]]
      BY <1>5
    <2> HIDE DEF img, ic
    <2>3. \A j \in 1 .. n : ic[j].pos < Len(mem[q])
      BY <1>4, <1>5, <2>2
    <2>4. ASSUME NEW j \in 1 .. n, NEW k \in 1 .. n, ic[k].pos = ic[j].pos PROVE k = j
      <3>1. own[k] = own[j]
        BY <1>4, <1>5, <2>2, <2>4
      <3> QED BY <1>5, <3>1
    <2> QED BY <2>1, <2>2, <2>3, <2>4 DEF ImageOnce
  <1> HIDE DEF img
  <1> QED BY <1>1, <1>6 DEF ExtraNext, ExtraInv, ExtraOf

\* A slot that gets no token of q takes what it has of q from before.
LEMMA RefillShrinks ==
    ASSUME NEW c \in Good, NEW n \in Nat, NEW idxs, NEW toks,
           NEW d, RefilledSome(c, d, idxs, toks, n), NEW q, \A j \in 1 .. n : toks[j].seq # q
    PROVE  Shrinks(c, d, q)
  <1>1. PICK rm : Refilled(c, d, idxs, toks, n, rm)
    BY DEF RefilledSome
  <1>2. ASSUME NEW i \in Idx, q \in d.seq[i] PROVE q \in c.seq[i] /\ d.pos[i] = c.pos[i]
    <2>1. CASE \E j \in 1 .. n : idxs[j] = i
      <3>1. PICK j \in 1 .. n : idxs[j] = i
        BY <2>1
      <3>2. LeftAt(d, i, toks[j].pos, {toks[j].seq}, rm)
        BY <1>1, <3>1 DEF Refilled
      <3>3. q = toks[j].seq
        BY <1>2, <3>2 DEF LeftAt
      <3> QED BY <3>3
    <2>2. CASE \A j \in 1 .. n : idxs[j] # i
      <3>1. LeftAt(d, i, c.pos[i], c.seq[i], rm)
        BY <1>1, <2>2 DEF Refilled
      <3> QED BY <1>2, <3>1 DEF LeftAt
    <2> QED BY <2>1, <2>2
  <1> QED BY <1>2 DEF Shrinks

\* A restored sequence holds what the image holds, and nothing from before.
LEMMA RestoreExtra ==
    ASSUME BooksInv, ExtraInv, NEW r \in Seqs, RestoreSequence(r)
    PROVE  ExtraNext
  <1>1. PICK c, n, idxs : Restores(r, c, n, idxs)
    BY RestoreDoes
  <1>2. saved' = saved /\ saved # {}
    BY DEF RestoreSequence
  <1> DEFINE s == StreamOf(r)
             toks == ImageToks(r)
             img == ImageOf
  <1>3. s \in Streams /\ cells[s] \in Good /\ DOMAIN mem = Seqs
    BY BooksAre, StreamsAre DEF Mems
  <1>0. Infinite \in Int /\ 0 \in Int
    BY Consts DEF Infinite
  <1>4. RangeRemoved(cells[s], c, r, 0, Infinite) /\ n = Len(img.cells)
    BY <1>1 DEF Restores
  <1>5. /\ img \in saved /\ IsImage(img) /\ n \in Nat /\ toks \in [1 .. n -> Token]
        /\ \A j \in 1 .. n : toks[j].seq = r /\ toks[j].pos = img.cells[j].pos
    BY <1>2, <1>4, ImageIs
  <1>6. \/ /\ SlotOf(idxs, n)
           /\ \E d : RefilledSome(c, d, idxs, toks, n) /\ cells' = [cells EXCEPT ![s] = d]
           /\ mem' = [mem EXCEPT ![r] = img.mem]
        \/ /\ cells' = [cells EXCEPT ![s] = c]
           /\ mem' = [mem EXCEPT ![r] = <<>>]
    BY <1>1 DEF Restores
  <1>s. StreamOf(r) = s
    OBVIOUS
  <1> HIDE DEF s, toks, img
  <1>7. c \in Good /\ \A i \in Idx : r \notin c.seq[i]
    BY <1>3, <1>4, RangeAll
  <1>8. \A x : Shrinks(cells[s], c, x)
    BY <1>0, <1>3, <1>4, RemovedShrinks
  <1>9. Held(c, r, 0)
    BY <1>7 DEF Held
  <1>10. CASE /\ SlotOf(idxs, n)
              /\ \E d : RefilledSome(c, d, idxs, toks, n) /\ cells' = [cells EXCEPT ![s] = d]
              /\ mem' = [mem EXCEPT ![r] = img.mem]
    <2>1. PICK d : RefilledSome(c, d, idxs, toks, n) /\ cells' = [cells EXCEPT ![s] = d]
      BY <1>10
    <2>2. mem'[r] = img.mem /\ \A x \in Seqs \ {r} : mem'[x] = mem[x]
      BY <1>3, <1>10
    <2>3. ImageOnce(img) /\ Len(img.mem) \in Nat
      BY <1>5 DEF ExtraInv, IsImage
    <2>4. Fits(toks, n, r, 0, Len(img.mem))
      <3>1. \A j \in 1 .. n : img.cells[j].pos \in 0 .. MaxLen - 1
        BY <1>4, <1>5 DEF IsImage
      <3>2. /\ \A j \in 1 .. n : img.cells[j].pos < Len(img.mem)
            /\ \A j, k \in 1 .. n : img.cells[k].pos = img.cells[j].pos => k = j
        BY <1>4, <2>3 DEF ImageOnce
      <3>3. \A j \in 1 .. n : 0 <= toks[j].pos /\ toks[j].pos < Len(img.mem)
        BY <1>5, <3>1, <3>2
      <3>4. \A j, x \in 1 .. n : toks[j].pos = toks[x].pos => j = x
        BY <1>5, <3>2
      <3> QED BY <2>3, <3>3, <3>4 DEF Fits
    <2>5. Held(d, r, Len(mem'[r]))
      <3>1. Held(d, r, Len(img.mem))
        BY <1>5, <1>7, <1>9, <1>10, <2>1, <2>3, <2>4, RefillHeld
      <3> QED BY <2>2, <3>1
    <2>6. ASSUME NEW x \in Seqs \ {r} PROVE Shrinks(cells[s], d, x)
      <3>1. Shrinks(c, d, x)
        BY <1>5, <1>7, <2>1, RefillShrinks
      <3> QED BY <1>8, <3>1 DEF Shrinks
    <2>7. ExtraOf(cells', mem')
      BY <1>s, <1>3, <2>1, <2>2, <2>5, <2>6, OneStream
    <2> QED BY <1>2, <2>7 DEF ExtraNext, ExtraInv
  <1>11. CASE cells' = [cells EXCEPT ![s] = c] /\ mem' = [mem EXCEPT ![r] = <<>>]
    <2>1. mem'[r] = <<>> /\ \A x \in Seqs \ {r} : mem'[x] = mem[x]
      BY <1>3, <1>11
    <2>2. Held(c, r, Len(mem'[r]))
      BY <1>9, <2>1
    <2>3. ExtraOf(cells', mem')
      BY <1>s, <1>3, <1>8, <1>11, <2>1, <2>2, OneStream
    <2> QED BY <1>2, <2>3 DEF ExtraNext, ExtraInv
  <1> QED BY <1>6, <1>10, <1>11

\* A plan puts no token anywhere.
LEMMA DecodeExtra ==
    ASSUME BooksInv, ExtraInv, NEW batch \in Batches, Decode(batch)
    PROVE  ExtraNext
  <1>1. UNCHANGED <<mode, saved, mem>>
    BY DEF Decode
  <1>2. CASE \E a : Plans(a)
    <2>1. PICK a : Plans(a)
      BY <1>2
    <2>2. cells' = a.cells /\ \A s \in Streams : Back(a.cells[s], Unpended[s])
      BY <2>1 DEF Plans, Answered
    <2>3. ASSUME NEW q \in Seqs PROVE Held(cells'[StreamOf(q)], q, Len(mem'[q]))
      <3> DEFINE s == StreamOf(q)
      <3>1. s \in Streams /\ cells[s] \in Good
        BY BooksAre, StreamsAre
      <3>2. Held(cells[s], q, Len(mem[q]))
        BY DEF ExtraInv, ExtraOf
      <3> HIDE DEF s
      <3>3. Unshifted(cells[s], Unpended[s])
        BY <3>1, ResetShiftIs DEF Unpended
      <3>4. Within(cells'[s], Unpended[s])
        BY <2>2, <3>1 DEF Back
      <3>5. Shrinks(cells[s], cells'[s], q)
        BY <3>3, <3>4 DEF Unshifted, Within, Shrinks
      <3>6. Held(cells'[s], q, Len(mem[q]))
        BY <3>2, <3>5, HeldShrinks
      <3> QED BY <1>1, <3>6 DEF s
    <2> QED BY <1>1, <2>3 DEF ExtraNext, ExtraInv, ExtraOf
  <1>3. CASE ret' = "invalid" /\ UNCHANGED <<data, sc_info, cells, heads, plan>>
    BY <1>1, <1>3 DEF ExtraNext, ExtraInv, ExtraOf
  <1> QED BY <1>2, <1>3, DecodeDoes

\* The tokens of q in a micro batch that takes it from b to c.
LEMMA TakesFits ==
    ASSUME NEW ub, IsUBatch(ub), NEW b \in Lens, NEW c \in Lens, Takes(ub, b, c), NEW q \in Seqs,
           NEW s \in DOMAIN ub
    PROVE  Fits(ub[s], Len(ub[s]), q, b[q], c[q])
  <1> DEFINE t == ub[s]
             n == Len(t)
  <1>1. n \in Nat \ {0} /\ t \in [1 .. n -> Token]
    BY UBatchType
  <1>2. /\ b[q] <= c[q] /\ \A j, k \in 1 .. n : t[j] = t[k] => j = k
        /\ \A j \in 1 .. n : b[t[j].seq] <= t[j].pos /\ t[j].pos < c[t[j].seq]
    BY DEF Takes, Distinct
  <1> HIDE DEF n, t
  <1>3. ASSUME NEW j \in 1 .. n, NEW x \in 1 .. n, t[j].seq = t[x].seq, t[j].pos = t[x].pos
        PROVE  j = x
    <2>1. t[j] \in Token /\ t[x] \in Token
      BY <1>1
    <2>2. t[j] = t[x]
      BY <1>3, <2>1 DEF Token
    <2> QED BY <1>2, <2>2
  <1>4. Fits(t, n, q, b[q], c[q])
    BY <1>2, <1>3 DEF Fits
  <1> QED BY <1>4 DEF n, t

\* A micro batch is filled into its slot.
LEMMA AppliedHeld ==
    ASSUME BooksInv, ExtraInv, NEW ub, NEW slot, NEW c, FirstOfPlan(ub, slot, c),
           NEW ds, AppliedTo(cells, ds, ub, slot), NEW q \in Seqs
    PROVE  Held(ds[StreamOf(q)], q, c[q])
  <1> DEFINE s == StreamOf(q)
             l == Len(mem[q])
             b == LensOf(mem)
  <1>1. s \in Streams /\ cells[s] \in Good /\ l \in Nat /\ b \in Lens /\ b[q] = l
    BY BooksAre, StreamsAre
  <1>2. Held(cells[s], q, l)
    BY DEF ExtraInv, ExtraOf
  <1>3. c \in Lens /\ IsUBatch(ub) /\ IsSlot(slot, ub) /\ Takes(ub, b, c)
    BY DEF FirstOfPlan
  <1> HIDE DEF s, l, b
  <1>4. c[q] \in Nat /\ l <= c[q]
    <2>1. c[q] \in 0 .. MaxLen
      BY <1>3 DEF Lens
    <2> QED BY <1>1, <1>3, <2>1, Consts DEF Takes
  <1>5. CASE s \in DOMAIN ub
    <2> DEFINE n == Len(ub[s])
    <2>1. RefilledSome(cells[s], ds[s], slot[s], ub[s], n)
      BY <1>5 DEF AppliedTo
    <2>2. SlotOf(slot[s], n)
      BY <1>3, <1>5 DEF IsSlot
    <2>3. n \in Nat /\ ub[s] \in [1 .. n -> Token]
      BY <1>3, <1>5, UBatchType
    <2>4. Fits(ub[s], n, q, l, c[q])
      BY <1>1, <1>3, <1>5, TakesFits
    <2> HIDE DEF n
    <2>5. Held(ds[s], q, c[q])
      BY <1>1, <1>2, <1>4, <2>1, <2>2, <2>3, <2>4, RefillHeld
    <2> QED BY <2>5 DEF s
  <1>6. CASE s \notin DOMAIN ub
    <2>1. ds[s] = cells[s]
      BY <1>1, <1>6 DEF AppliedTo
    <2>2. Held(ds[s], q, c[q])
      BY <1>1, <1>2, <1>4, <2>1, HeldHigher
    <2> QED BY <2>2 DEF s
  <1> QED BY <1>5, <1>6

\* A computed micro batch is held once, at the end of its sequences.
LEMMA ComputeExtra ==
    ASSUME BooksInv, ExtraInv, ComputeUBatch
    PROVE  ExtraNext
  <1>1. PICK ub, slot, c : Computes(ub, slot, c)
    BY ComputeDoes
  <1>2. UNCHANGED <<mode, saved>>
    BY DEF ComputeUBatch
  <1>3. FirstOfPlan(ub, slot, c) /\ AppliedTo(cells, cells', ub, slot) /\ LensOf(mem') = c
    BY <1>1 DEF Computes
  <1>4. ASSUME NEW q \in Seqs PROVE Held(cells'[StreamOf(q)], q, Len(mem'[q]))
    <2>1. Held(cells'[StreamOf(q)], q, c[q])
      BY <1>3, AppliedHeld
    <2>2. c[q] = Len(mem'[q])
      BY <1>3 DEF LensOf
    <2> QED BY <2>1, <2>2
  <1> QED BY <1>2, <1>4 DEF ExtraNext, ExtraInv, ExtraOf

\* An aborted micro batch is not held.
LEMMA AbortExtra ==
    ASSUME BooksInv, ExtraInv, AbortUBatch
    PROVE  ExtraNext
  <1>1. PICK ub, slot, c, as : Aborts(ub, slot, c, as)
    BY AbortDoes
  <1>2. UNCHANGED <<mode, saved, mem>>
    BY DEF AbortUBatch
  <1>3. FirstOfPlan(ub, slot, c) /\ AppliedTo(cells, as, ub, slot)
    BY <1>1 DEF Aborts
  <1>4. c \in Lens /\ IsUBatch(ub) /\ Takes(ub, LensOf(mem), c)
    BY <1>3 DEF FirstOfPlan
  <1>5. ASSUME NEW q \in Seqs PROVE Held(cells'[StreamOf(q)], q, Len(mem'[q]))
    <2> DEFINE s == StreamOf(q)
               l == Len(mem[q])
               b == LensOf(mem)
    <2>1. s \in Streams /\ b[q] = l /\ l \in Nat /\ b \in Lens
      BY BooksAre, StreamsAre
    <2>2. Held(as[s], q, c[q])
      BY <1>3, AppliedHeld
    <2>3. WithdrawnOf(cells'[s], as[s], b, Own(ub, s))
      BY <1>1, <2>1 DEF Aborts
    <2>4. PosOf(ub, q) = b[q] .. c[q] - 1 /\ c[q] \in 0 .. MaxLen /\ b[q] <= c[q]
      BY <1>4, <2>1, PosOfIs
    <2>5. (q \in Own(ub, s)) <=> (PosOf(ub, q) # {})
      BY DEF Own
    <2> HIDE DEF s, l, b
    <2>6. \A i \in Idx : q \in cells'[s].seq[i] =>
             /\ q \in as[s].seq[i] /\ cells'[s].pos[i] = as[s].pos[i]
             /\ q \in Own(ub, s) => as[s].pos[i] < b[q]
      BY <2>3 DEF WithdrawnOf
    <2>7. Shrinks(as[s], cells'[s], q)
      BY <2>6 DEF Shrinks
    <2>8. Held(cells'[s], q, c[q])
      BY <2>2, <2>7, HeldShrinks
    <2>9. CASE q \in Own(ub, s)
      <3>1. Held(cells'[s], q, l)
        BY <2>1, <2>6, <2>8, <2>9 DEF Held
      <3> QED BY <1>2, <3>1 DEF s, l
    <2>10. CASE q \notin Own(ub, s)
      <3>1. b[q] .. c[q] - 1 = {}
        BY <2>4, <2>5, <2>10
      <3>2. PICK x \in Int, y \in Int : x = b[q] /\ y = c[q] - 1
        BY <2>1, <2>4, Consts
      <3>3. x \notin x .. y
        BY <3>1, <3>2
      <3>4. c[q] = l
        BY <2>1, <2>4, <3>2, <3>3, Consts
      <3> QED BY <1>2, <2>8, <3>4 DEF s, l
    <2> QED BY <2>9, <2>10
  <1> QED BY <1>2, <1>5 DEF ExtraNext, ExtraInv, ExtraOf

\* The invariant in terms of the next state.
LEMMA ExtraKept ==
    ASSUME mode' = mode, ExtraNext
    PROVE  ExtraInv'
  <1>1. \A q : StreamOf(q)' = StreamOf(q)
    BY SameMode
  <1>2. /\ \A q \in Seqs : Held(cells'[StreamOf(q)], q, Len(mem'[q]))
        /\ \A img \in saved' : ImageOnce(img)
    BY DEF ExtraNext, ExtraOf
  <1>3. (\A q \in Seqs : Held(cells[StreamOf(q)], q, Len(mem[q])))'
    BY <1>1, <1>2
  <1>4. (\A img \in saved : ImageOnce(img))'
    BY <1>2
  <1> QED BY <1>3, <1>4 DEF ExtraInv, ExtraOf

\* An empty cache holds nothing.
LEMMA ExtraInit == Init => ExtraInv
  <1> SUFFICES ASSUME Init PROVE ExtraInv
    OBVIOUS
  <1>1. \A q \in Seqs : cells[StreamOf(q)] = EmptyCells
    BY StreamsAre DEF Init
  <1> QED BY <1>1, EmptyHeld DEF Init, ExtraInv, ExtraOf

\* No step makes a sequence hold too much.
LEMMA ExtraStep == BooksInv /\ ExtraInv /\ Next => ExtraInv'
  <1> SUFFICES ASSUME BooksInv, ExtraInv, Next PROVE ExtraNext
    BY ExtraKept, ModeStays
  <1>1. ASSUME NEW batch \in Batches, Decode(batch) PROVE ExtraNext
    BY <1>1, DecodeExtra
  <1>2. CASE ComputeUBatch
    BY <1>2, ComputeExtra
  <1>3. CASE AbortUBatch
    BY <1>3, AbortExtra
  <1>4. ASSUME NEW q \in Seqs, NEW p \in 0 .. MaxLen, Truncate(q, p) PROVE ExtraNext
    BY <1>4, TruncateExtra
  <1>5. ASSUME NEW q \in Seqs, NEW to \in 0 .. MaxLen, NEW from \in 0 .. MaxLen,
               NEW n \in 0 .. MaxLen, CutAndShift(q, to, from, n)
        PROVE  ExtraNext
    BY <1>5, CutExtra
  <1>6. ASSUME NEW q \in Seqs, NEW r \in Seqs, CopySequence(q, r) PROVE ExtraNext
    BY <1>6, CopyExtra
  <1>7. ASSUME NEW q \in Seqs, KeepSequence(q) PROVE ExtraNext
    BY <1>7, KeepExtra
  <1>8. ASSUME NEW q \in Seqs, SaveSequence(q) PROVE ExtraNext
    BY <1>8, SaveExtra
  <1>9. ASSUME NEW q \in Seqs, RestoreSequence(q) PROVE ExtraNext
    BY <1>9, RestoreExtra
  <1>10. CASE Clear
    BY <1>10, ClearExtra
  <1> QED BY <1>1, <1>2, <1>3, <1>4, <1>5, <1>6, <1>7, <1>8, <1>9, <1>10 DEF Next

\* No sequence ever holds too much.
LEMMA ExtraAlways == Spec => []ExtraInv
  <1>1. ExtraInv /\ UNCHANGED vars => ExtraInv'
    <2> SUFFICES ASSUME ExtraInv, UNCHANGED vars PROVE ExtraInv'
      OBVIOUS
    <2>1. ExtraNext /\ mode' = mode
      BY DEF ExtraInv, ExtraNext, vars
    <2> QED BY <2>1, ExtraKept
  <1> QED BY ExtraInit, ExtraStep, <1>1, BooksAlways, PTL DEF Spec

\* A map that is one to one keeps the number of elements.
LEMMA SameNumber ==
    ASSUME NEW C, IsFiniteSet(C), NEW f, \A i, j \in C : f[i] = f[j] => i = j
    PROVE  Cardinality({f[i] : i \in C}) = Cardinality(C)
  <1> DEFINE P == {f[i] : i \in C}
             g == [i \in C |-> f[i]]
  <1>4. g \in [C -> P] /\ \A i \in C : g[i] = f[i]
    OBVIOUS
  <1>5. \A x, y \in C : g[x] = g[y] => x = y
    BY <1>4
  <1>6. g \in Surjection(C, P)
    BY <1>4 DEF Surjection
  <1> HIDE DEF P, g
  <1>1. IsFiniteSet(P) /\ Cardinality(P) <= Cardinality(C) /\ Cardinality(P) \in Nat /\ Cardinality(C) \in Nat
    BY <1>6, FS_Surjection, FS_CardinalityType
  <1>7. Cardinality(C) <= Cardinality(P)
    BY <1>1, <1>4, <1>5, NotSmaller
  <1>8. Cardinality(P) = Cardinality(C)
    BY <1>1, <1>7
  <1> QED BY <1>8 DEF P

\* A sequence holds every position in one cell at most, and none at or beyond its
\* length: nothing stays behind of a token that seq_rm() has cut off, an aborted
\* decode() has withdrawn, or a restored image has replaced.
THEOREM NothingExtraAlways == Spec => []NothingExtra
  <1>1. BooksInv /\ ExtraInv => NothingExtra
    <2> SUFFICES ASSUME BooksInv, ExtraInv, NEW q \in Seqs
                 PROVE  /\ Cardinality(PositionsOf(q)) = Cardinality(CellsOf(q))
                        /\ PositionsOf(q) \subseteq 0 .. Len(mem[q]) - 1
      BY DEF NothingExtra
    <2> DEFINE c == cells[StreamOf(q)]
               l == Len(mem[q])
               C == {i \in Idx : q \in c.seq[i]}
               f == c.pos
    <2>1. c \in Good /\ l \in Nat
      BY BooksAre, StreamsAre
    <2>2. Held(c, q, l)
      BY DEF ExtraInv, ExtraOf
    <2>3. CellsOf(q) = C /\ PositionsOf(q) = {f[i] : i \in C}
      BY DEF CellsOf, PositionsOf
    <2> HIDE DEF c, l
    <2>4. IsFiniteSet(C)
      BY Finite, FS_Subset
    <2>5. \A i, j \in C : f[i] = f[j] => i = j
      BY <2>2 DEF Held
    <2>6. \A i \in C : f[i] \in 0 .. l - 1
      <3> TAKE i \in C
      <3>1. i \in Idx /\ c.seq[i] # {} /\ f[i] < l
        BY <2>2 DEF Held
      <3> QED BY <2>1, <3>1, GoodType
    <2> HIDE DEF f, C
    <2>7. Cardinality({f[i] : i \in C}) = Cardinality(C)
      BY <2>4, <2>5, SameNumber
    <2>8. PositionsOf(q) \subseteq 0 .. l - 1
      BY <2>3, <2>6
    <2> QED BY <2>3, <2>7, <2>8 DEF l
  <1> QED BY <1>1, BooksAlways, ExtraAlways, PTL

-----------------------------------------------------------------------------
(* Without a window: no token is missing.                                  *)

\* The inductive invariant behind NoGaps and Intact without a window: every
\* position of a sequence is in a cell, also in a saved one, and the slots of a
\* plan are empty cells.
Full(c, q, l) == \A p \in 0 .. l - 1 : \E i \in Idx : q \in c.seq[i] /\ c.pos[i] = p
FullOf(cs, mm) == \A q \in Seqs : Full(cs[StreamOf(q)], q, Len(mm[q]))
ImageFull(img) ==
    \A p \in 0 .. Len(img.mem) - 1 : \E j \in 1 .. Len(img.cells) : img.cells[j].pos = p
Whole(cs, mm, pl, sv) ==
    FullOf(cs, mm) /\ FreeSlots(pl, cs) /\ \A img \in sv : ImageFull(img)
WholeInv == mode # "swa" => Whole(cells, mem, plan, saved)
WholeNext == Whole(cells', mem', plan', saved')

\* What c has of q is still there in d.
Keeps(c, d, q) == \A i \in Idx : q \in c.seq[i] => q \in d.seq[i] /\ d.pos[i] = c.pos[i]

\* A sequence that keeps its cells lacks nothing.
LEMMA FullKept ==
    ASSUME NEW c, NEW d, NEW q, NEW l, Full(c, q, l), Keeps(c, d, q)
    PROVE  Full(d, q, l)
  BY DEF Full, Keeps

\* What the invariant says, part by part.
LEMMA WholeIs ==
    ASSUME WholeInv, mode # "swa"
    PROVE  /\ FullOf(cells, mem) /\ FreeSlots(plan, cells) /\ \A img \in saved : ImageFull(img)
           /\ \A q \in Seqs : Full(cells[StreamOf(q)], q, Len(mem[q]))
  BY DEF WholeInv, Whole, FullOf

\* Without a plan no slot is promised.
LEMMA NoPlanFree ==
    ASSUME NEW cs
    PROVE  FreeSlots(<<>>, cs)
  BY DEF FreeSlots

\* A call that leaves the plan empty and the sequences whole.
LEMMA CalledWhole ==
    ASSUME Called, plan' = plan, FullOf(cells', mem'), \A img \in saved' : ImageFull(img)
    PROVE  WholeNext
  BY NoPlanFree DEF Called, WholeNext, Whole

\* A stream is replaced: its own sequences are to be looked at, and q, whose
\* tokens may have changed.
LEMMA OneStreamFull ==
    ASSUME BooksInv, WholeInv, mode # "swa", NEW s \in Streams, NEW d,
           cells' = [cells EXCEPT ![s] = d],
           NEW q \in Seqs, StreamOf(q) = s, \A r \in Seqs \ {q} : mem'[r] = mem[r],
           Full(d, q, Len(mem'[q])),
           \A r \in Seqs \ {q} : StreamOf(r) = s => Keeps(cells[s], d, r)
    PROVE  FullOf(cells', mem')
  <1> SUFFICES ASSUME NEW r \in Seqs PROVE Full(cells'[StreamOf(r)], r, Len(mem'[r]))
    BY DEF FullOf
  <1>1. DOMAIN cells = Streams /\ StreamOf(r) \in Streams
    BY BooksAre, StreamsAre DEF Caches
  <1>2. Full(cells[StreamOf(r)], r, Len(mem[r]))
    BY WholeIs
  <1>3. CASE r = q
    BY <1>1, <1>3
  <1>4. CASE r # q /\ StreamOf(r) # s
    BY <1>1, <1>2, <1>4
  <1>5. CASE r # q /\ StreamOf(r) = s
    <2>1. Keeps(cells[s], d, r) /\ Full(cells[s], r, Len(mem[r]))
      BY <1>2, <1>5
    <2>2. Full(d, r, Len(mem[r]))
      BY <2>1, FullKept
    <2> QED BY <1>1, <1>5, <2>2
  <1> QED BY <1>3, <1>4, <1>5

\* What a removal of q leaves of the other sequences, and of q.
LEMMA RemovedKeeps ==
    ASSUME NEW c \in Good, NEW d, NEW q, NEW p0 \in Int, NEW p1 \in Int, RangeRemoved(c, d, q, p0, p1)
    PROVE  /\ \A r : r # q => Keeps(c, d, r)
           /\ \A i \in Idx : q \in c.seq[i] /\ ~ (c.pos[i] >= p0 /\ c.pos[i] < p1)
                               => q \in d.seq[i] /\ d.pos[i] = c.pos[i]
  <1>1. ASSUME NEW r, r # q, NEW i \in Idx, r \in c.seq[i] PROVE r \in d.seq[i] /\ d.pos[i] = c.pos[i]
    <2>1. r \in c.seq[i] \ {q}
      BY <1>1
    <2> QED BY <1>1, <2>1 DEF RangeRemoved
  <1>2. ASSUME NEW i \in Idx, q \in c.seq[i], ~ (c.pos[i] >= p0 /\ c.pos[i] < p1)
        PROVE  q \in d.seq[i] /\ d.pos[i] = c.pos[i]
    BY <1>2 DEF RangeRemoved
  <1> QED BY <1>1, <1>2 DEF Keeps

\* A truncated sequence has all tokens before its end.
LEMMA TruncateWhole ==
    ASSUME BooksInv, WholeInv, mode # "swa", NEW q \in Seqs, NEW p \in 0 .. MaxLen, Truncate(q, p)
    PROVE  WholeNext
  <1> DEFINE s == StreamOf(q)
             c == cells[s]
             d == SeqRmRange(c, q, p, Infinite)
             t == SubSeq(mem[q], 1, p)
  <1>1. s \in Streams /\ c \in Good /\ mem[q] \in Seq(Seqs \X Nat) /\ Len(mem[q]) \in Nat
    BY BooksAre, StreamsAre, Consts
  <1>2. p < Len(mem[q]) /\ p \in Int /\ Kept(q, p) = p /\ Called
    BY DEF Kept, Truncate
  <1>3. Infinite \in Int
    BY Consts DEF Infinite
  <1>4. /\ cells' = [cells EXCEPT ![s] = d] /\ mem' = [mem EXCEPT ![q] = t]
        /\ saved' = saved /\ plan' = plan
    BY <1>2 DEF Truncate, Becomes
  <1>5. Full(c, q, Len(mem[q]))
    BY WholeIs
  <1>s. StreamOf(q) = s /\ cells[s] = c
    OBVIOUS
  <1> HIDE DEF s, c
  <1>6. RangeRemoved(c, d, q, p, Infinite)
    BY <1>1, <1>2, <1>3, SeqRmRangeIs
  <1>7. Len(t) = p
    <2>1. p \in 0 .. Len(mem[q])
      BY <1>1, <1>2
    <2>2. PICK m : m = mem[q]
      OBVIOUS
    <2>3. Len(SubSeq(m, 1, p)) = p
      BY <1>1, <2>1, <2>2
    <2> QED BY <2>2, <2>3
  <1> HIDE DEF d, t
  <1>8. mem'[q] = t /\ \A r \in Seqs \ {q} : mem'[r] = mem[r]
    <2>1. DOMAIN mem = Seqs
      BY BooksAre DEF Mems
    <2> QED BY <1>4, <2>1
  <1>9. /\ \A r : r # q => Keeps(c, d, r)
        /\ \A i \in Idx : q \in c.seq[i] /\ ~ (c.pos[i] >= p /\ c.pos[i] < Infinite)
                               => q \in d.seq[i] /\ d.pos[i] = c.pos[i]
    BY <1>1, <1>2, <1>3, <1>6, RemovedKeeps
  <1>10. Full(d, q, p)
    <2> SUFFICES ASSUME NEW x \in 0 .. p - 1 PROVE \E i \in Idx : q \in d.seq[i] /\ d.pos[i] = x
      BY DEF Full
    <2>1. x \in 0 .. Len(mem[q]) - 1
      BY <1>1, <1>2
    <2>2. PICK i \in Idx : q \in c.seq[i] /\ c.pos[i] = x
      BY <1>5, <2>1 DEF Full
    <2> QED BY <1>9, <2>2
  <1>11. Full(d, q, Len(mem'[q]))
    BY <1>7, <1>8, <1>10
  <1>12. FullOf(cells', mem')
    BY <1>s, <1>1, <1>4, <1>8, <1>9, <1>11, OneStreamFull
  <1> QED BY <1>2, <1>4, <1>12, WholeIs, CalledWhole

\* A cut and a shift leave no position out.
LEMMA ShiftsFull ==
    ASSUME NEW c \in Good, NEW q \in Seqs, NEW to \in Nat, NEW from \in Nat, NEW n \in Nat,
           to < from, n > 0, NEW l \in Nat, from + n <= l, l <= MaxLen, Full(c, q, l),
           \A i \in Idx : q \in c.seq[i] /\ c.pos[i] >= to => c.seq[i] = {q},
           NEW cut, RangeRemoved(c, cut, q, to, from),
           NEW add, RangeMoved(cut, add, q, from, from + n, to - from),
           NEW d, RangeRemoved(add, d, q, to + n, Infinite)
    PROVE  Full(d, q, to + n) /\ \A r \in Seqs \ {q} : Keeps(c, d, r)
  <1>0. Infinite \in Int /\ to + n \in Int /\ add \in Good /\ cut \in Good
    BY Consts DEF Infinite, RangeMoved, RangeRemoved
  <1>1. /\ \A r : r # q => Keeps(c, cut, r)
        /\ \A i \in Idx : q \in c.seq[i] /\ ~ (c.pos[i] >= to /\ c.pos[i] < from)
                            => q \in cut.seq[i] /\ cut.pos[i] = c.pos[i]
    BY RemovedKeeps
  <1>2. /\ \A r : r # q => Keeps(add, d, r)
        /\ \A i \in Idx : q \in add.seq[i] /\ ~ (add.pos[i] >= to + n /\ add.pos[i] < Infinite)
                            => q \in d.seq[i] /\ d.pos[i] = add.pos[i]
    BY <1>0, RemovedKeeps
  <1>3. \A i \in Idx :
          IF q \in cut.seq[i] /\ cut.pos[i] >= from /\ cut.pos[i] < from + n
          THEN add.seq[i] = cut.seq[i] /\ add.pos[i] = cut.pos[i] + (to - from)
          ELSE add.seq[i] = cut.seq[i] /\ add.pos[i] = cut.pos[i]
    BY DEF RangeMoved
  <1>4. ASSUME NEW x \in 0 .. to + n - 1
        PROVE  \E i \in Idx : q \in d.seq[i] /\ d.pos[i] = x
    <2>1. CASE x < to
      <3>1. x \in 0 .. l - 1
        BY <2>1
      <3>2. PICK i \in Idx : q \in c.seq[i] /\ c.pos[i] = x
        BY <3>1 DEF Full
      <3>3. q \in cut.seq[i] /\ cut.pos[i] = x
        BY <1>1, <2>1, <3>2
      <3>4. q \in add.seq[i] /\ add.pos[i] = x
        BY <1>3, <2>1, <3>3
      <3> QED BY <1>2, <2>1, <3>4
    <2>2. CASE x >= to
      <3>1. x + (from - to) \in 0 .. l - 1 /\ x + (from - to) >= from /\ x + (from - to) < from + n
        BY <2>2
      <3>2. PICK i \in Idx : q \in c.seq[i] /\ c.pos[i] = x + (from - to)
        BY <3>1 DEF Full
      <3>3. q \in cut.seq[i] /\ cut.pos[i] = x + (from - to)
        BY <1>1, <3>1, <3>2
      <3>4. q \in add.seq[i] /\ add.pos[i] = (x + (from - to)) + (to - from)
        BY <1>3, <3>1, <3>3
      <3>5. add.pos[i] = x /\ ~ (x >= to + n)
        BY <3>4
      <3> QED BY <1>2, <3>4, <3>5
    <2> QED BY <2>1, <2>2
  <1>5. ASSUME NEW r \in Seqs \ {q}, NEW i \in Idx, r \in c.seq[i]
        PROVE  r \in d.seq[i] /\ d.pos[i] = c.pos[i]
    <2>1. r \in cut.seq[i] /\ cut.pos[i] = c.pos[i]
      BY <1>1, <1>5 DEF Keeps
    <2>2. q \in cut.seq[i] => q \in c.seq[i]
      BY DEF RangeRemoved
    <2>3. ~ (q \in cut.seq[i] /\ cut.pos[i] >= from)
      <3>1. c.pos[i] \in Int
        BY GoodType
      <3> QED BY <1>5, <2>1, <2>2, <3>1
    <2>4. r \in add.seq[i] /\ add.pos[i] = c.pos[i]
      BY <1>3, <2>1, <2>3
    <2> QED BY <1>2, <2>4 DEF Keeps
  <1> QED BY <1>4, <1>5 DEF Full, Keeps

\* After a cut and a shift no token is missing.
LEMMA CutWhole ==
    ASSUME BooksInv, WholeInv, mode # "swa", NEW q \in Seqs, NEW to \in 0 .. MaxLen,
           NEW from \in 0 .. MaxLen, NEW n \in 0 .. MaxLen, CutAndShift(q, to, from, n)
    PROVE  WholeNext
  <1> DEFINE s == StreamOf(q)
             c == cells[s]
             t == SubSeq(mem[q], 1, to) \o SubSeq(mem[q], from + 1, from + n)
  <1>0. to \in Nat /\ from \in Nat /\ n \in Nat
    OBVIOUS
  <1>1. s \in Streams /\ c \in Good /\ mem[q] \in Seq(Seqs \X Nat) /\ Len(mem[q]) \in 0 .. MaxLen
    BY BooksAre, StreamsAre
  <1>2. /\ to < from /\ n > 0 /\ from + n <= Len(mem[q]) /\ MayShift(q, to)
        /\ mem' = [mem EXCEPT ![q] = t] /\ saved' = saved /\ plan' = plan /\ Called
    BY DEF CutAndShift
  <1>3. \A i \in Idx : q \in c.seq[i] /\ c.pos[i] >= to => c.seq[i] = {q}
    BY <1>2 DEF MayShift
  <1>4. Full(c, q, Len(mem[q]))
    BY WholeIs
  <1>5. PICK cut, add, d : /\ RangeRemoved(c, cut, q, to, from)
                           /\ RangeMoved(cut, add, q, from, from + n, to - from)
                           /\ RangeRemoved(add, d, q, to + n, Infinite)
                           /\ cells' = [cells EXCEPT ![s] = d]
    BY CutDoes
  <1>6. Len(t) = to + n
    <2> DEFINE m == mem[q]
    <2>1. m \in Seq(Seqs \X Nat) /\ from + n <= Len(m)
      BY <1>1, <1>2
    <2>2. t = SubSeq(m, 1, to) \o SubSeq(m, from + 1, from + n)
      OBVIOUS
    <2> HIDE DEF m, t
    <2>3. IsCut(t, m, to, from, n)
      BY <1>0, <1>2, <2>1, <2>2, CutMem
    <2> QED BY <2>3 DEF IsCut
  <1> HIDE DEF t
  <1>s. StreamOf(q) = s /\ cells[s] = c
    OBVIOUS
  <1> HIDE DEF c, s
  <1>7. Full(d, q, to + n) /\ \A r \in Seqs \ {q} : Keeps(c, d, r)
    <2>1. Len(mem[q]) \in Nat /\ Len(mem[q]) <= MaxLen
      BY <1>1, Consts
    <2> QED BY <1>0, <1>1, <1>2, <1>3, <1>4, <1>5, <2>1, ShiftsFull
  <1>8. mem'[q] = t /\ \A r \in Seqs \ {q} : mem'[r] = mem[r]
    <2>1. DOMAIN mem = Seqs
      BY BooksAre DEF Mems
    <2> QED BY <1>2, <2>1
  <1>9. Full(d, q, Len(mem'[q]))
    BY <1>6, <1>7, <1>8
  <1>10. FullOf(cells', mem')
    BY <1>s, <1>1, <1>5, <1>7, <1>8, <1>9, OneStreamFull
  <1> QED BY <1>2, <1>10, WholeIs, CalledWhole

\* A copy of a sequence has all its tokens.
LEMMA CopyWhole ==
    ASSUME BooksInv, WholeInv, mode # "swa", NEW q \in Seqs, NEW r \in Seqs, CopySequence(q, r)
    PROVE  WholeNext
  <1>1. mem' = [mem EXCEPT ![r] = mem[q]] /\ saved' = saved /\ plan' = plan /\ q # r /\ Called
    BY DEF CopySequence
  <1>2. mem'[r] = mem[q] /\ \A x \in Seqs \ {r} : mem'[x] = mem[x]
    <2>1. DOMAIN mem = Seqs
      BY BooksAre DEF Mems
    <2> QED BY <1>1, <2>1
  <1>3. Full(cells[StreamOf(q)], q, Len(mem[q]))
    BY WholeIs
  <1>4. \A s \in Streams : cells[s] \in Good
    BY BooksAre
  <1>5. CASE mode = "streams"
    <2>1. Streams = Seqs /\ \A x \in Seqs : StreamOf(x) = x
      BY <1>5, StreamsAre DEF StreamOf
    <2> DEFINE d == StreamCopy(cells[q], q, r)
    <2>2. cells' = [cells EXCEPT ![r] = d]
      BY <1>5 DEF CopySequence
    <2>3. CopiedFrom(cells[q], d, q, r)
      BY <1>4, <2>1, StreamCopyIs
    <2> HIDE DEF d
    <2>4. Full(cells[q], q, Len(mem[q]))
      BY <1>3, <2>1
    <2>5. Full(d, r, Len(mem'[r]))
      <3>1. \A i \in Idx : q \in cells[q].seq[i] => r \in d.seq[i] /\ d.pos[i] = cells[q].pos[i]
        BY <2>3 DEF CopiedFrom
      <3>2. Full(d, r, Len(mem[q]))
        BY <2>4, <3>1 DEF Full
      <3> QED BY <1>2, <3>2
    <2>6. \A x \in Seqs \ {r} : StreamOf(x) = r => Keeps(cells[r], d, x)
      BY <2>1
    <2>7. FullOf(cells', mem')
      BY <1>2, <2>1, <2>2, <2>5, <2>6, OneStreamFull
    <2> QED BY <1>1, <2>7, WholeIs, CalledWhole
  <1>6. CASE mode # "streams"
    <2>1. 0 \in Streams /\ \A x \in Seqs : StreamOf(x) = 0
      BY <1>6, StreamsAre DEF StreamOf
    <2> DEFINE c == SeqRmRange(cells[0], r, 0, Infinite)
               d == SeqCpCells(c, q, r)
    <2>2. cells' = [cells EXCEPT ![0] = d]
      BY <1>6 DEF CopySequence
    <2>0. Infinite \in Int /\ 0 \in Int
      BY Consts DEF Infinite
    <2>3. RangeRemoved(cells[0], c, r, 0, Infinite)
      BY <1>4, <2>0, <2>1, SeqRmRangeIs
    <2> HIDE DEF c
    <2>4. c \in Good /\ \A i \in Idx : r \notin c.seq[i]
      BY <1>4, <2>1, <2>3, RangeAll
    <2>5. SharedWith(c, d, q, r)
      BY <2>4, ShareIs
    <2> HIDE DEF d
    <2>6. \A x : x # r => Keeps(cells[0], c, x)
      BY <1>4, <2>0, <2>1, <2>3, RemovedKeeps
    <2>7. Full(c, q, Len(mem[q]))
      <3>1. Keeps(cells[0], c, q) /\ Full(cells[0], q, Len(mem[q]))
        BY <1>1, <1>3, <2>1, <2>6
      <3> QED BY <3>1, FullKept
    <2>8. Full(d, r, Len(mem'[r]))
      <3>1. \A i \in Idx : q \in c.seq[i] => r \in d.seq[i] /\ d.pos[i] = c.pos[i]
        BY <2>5 DEF SharedWith
      <3>2. Full(d, r, Len(mem[q]))
        BY <2>7, <3>1 DEF Full
      <3> QED BY <1>2, <3>2
    <2>9. \A x \in Seqs \ {r} : Keeps(cells[0], d, x)
      BY <2>5, <2>6 DEF SharedWith, Keeps
    <2>10. FullOf(cells', mem')
      BY <1>2, <2>1, <2>2, <2>8, <2>9, OneStreamFull
    <2> QED BY <1>1, <2>10, WholeIs, CalledWhole
  <1> QED BY <1>5, <1>6

\* An empty sequence lacks nothing.
LEMMA NothingFull ==
    ASSUME NEW c, NEW q
    PROVE  Full(c, q, Len(<<>>))
  <1>1. Len(<<>>) = 0 /\ 0 .. 0 - 1 = {}
    OBVIOUS
  <1> QED BY <1>1 DEF Full

\* The sequence that is kept has all its tokens, the others have none.
LEMMA KeepWhole ==
    ASSUME BooksInv, WholeInv, mode # "swa", NEW q \in Seqs, KeepSequence(q)
    PROVE  WholeNext
  <1> DEFINE s == StreamOf(q)
             d == SeqKeepCells(cells[s], q)
  <1>1. s \in Streams /\ cells[s] \in Good /\ DOMAIN cells = Streams
    BY BooksAre, StreamsAre DEF Caches
  <1>2. cells' = [cells EXCEPT ![s] = d] /\ saved' = saved /\ plan' = plan /\ Called
    BY DEF KeepSequence, Becomes
  <1>3. mem' = [r \in Seqs |-> IF r # q /\ StreamOf(r) = s THEN <<>> ELSE mem[r]]
    BY DEF KeepSequence
  <1>s. StreamOf(q) = s
    OBVIOUS
  <1> HIDE DEF s
  <1>4. KeptOnly(cells[s], d, q)
    BY <1>1, KeepIs
  <1> HIDE DEF d
  <1>5. ASSUME NEW r \in Seqs PROVE Full(cells'[StreamOf(r)], r, Len(mem'[r]))
    <2>1. Full(cells[StreamOf(r)], r, Len(mem[r]))
      BY WholeIs
    <2>2. StreamOf(r) \in Streams
      BY StreamsAre
    <2>3. CASE StreamOf(r) # s
      BY <1>1, <1>2, <1>3, <2>1, <2>2, <2>3
    <2>4. CASE r = q
      <3>1. mem'[r] = mem[r] /\ cells'[StreamOf(r)] = d
        BY <1>s, <1>1, <1>2, <1>3, <2>4
      <3>2. Keeps(cells[s], d, r)
        BY <1>4, <2>4 DEF KeptOnly, Keeps
      <3>3. Full(cells[s], r, Len(mem[r]))
        BY <1>s, <2>1, <2>4
      <3>4. Full(d, r, Len(mem[r]))
        BY <3>2, <3>3, FullKept
      <3> QED BY <3>1, <3>4
    <2>5. CASE StreamOf(r) = s /\ r # q
      BY <1>3, <2>5, NothingFull
    <2> QED BY <2>3, <2>4, <2>5
  <1>6. FullOf(cells', mem')
    BY <1>5 DEF FullOf
  <1> QED BY <1>2, <1>6, WholeIs, CalledWhole

\* Nothing is missing in a cleared cache.
LEMMA ClearWhole ==
    ASSUME BooksInv, WholeInv, mode # "swa", Clear
    PROVE  WholeNext
  <1>1. mem' = [q \in Seqs |-> <<>>] /\ saved' = saved /\ plan' = plan /\ Called
    BY DEF Clear
  <1>2. FullOf(cells', mem')
    BY <1>1, NothingFull DEF FullOf
  <1> QED BY <1>1, <1>2, WholeIs, CalledWhole

\* A saved sequence has a cell for every token.
LEMMA SaveWhole ==
    ASSUME BooksInv, WholeInv, mode # "swa", NEW q \in Seqs, SaveSequence(q)
    PROVE  WholeNext
  <1> DEFINE s == StreamOf(q)
             K == {i \in Idx : q \in cells[s].seq[i]}
             own == Ordered(K)
             img == [mem |-> mem[q],
                     cells |-> [j \in DOMAIN own |->
                         [pos |-> cells[s].pos[own[j]], kv |-> data[s][own[j]]]]]
  <1>1. saved' = {img} /\ UNCHANGED <<cells, mem>> /\ plan' = plan /\ Called
    BY DEF SaveSequence
  <1>2. Full(cells[s], q, Len(mem[q]))
    BY WholeIs
  <1> HIDE DEF s
  <1>3. Lists(own, K)
    BY OwnCells
  <1>4. \A p \in 0 .. Len(mem[q]) - 1 : \E i \in K : cells[s].pos[i] = p
    BY <1>2 DEF Full
  <1> HIDE DEF own, K
  <1> DEFINE n == Cardinality(K)
  <1>5. n \in Nat /\ DOMAIN own = 1 .. n /\ \A i \in K : \E j \in 1 .. n : own[j] = i
    BY <1>3 DEF Lists
  <1> HIDE DEF n
  <1>6. ImageFull(img)
    <2> DEFINE ic == [j \in 1 .. n |-> [pos |-> cells[s].pos[own[j]], kv |-> data[s][own[j]]]]
    <2>1. img.mem = mem[q] /\ img.cells = ic
      BY <1>5
    <2>2. Len(ic) = n /\ \A j \in 1 .. n : ic[j].pos = cells[s].pos[own[j]]
      BY <1>5
    <2> HIDE DEF img, ic
    <2>3. ASSUME NEW p \in 0 .. Len(mem[q]) - 1 PROVE \E j \in 1 .. n : ic[j].pos = p
      <3>1. PICK i \in K : cells[s].pos[i] = p
        BY <1>4
      <3>2. PICK j \in 1 .. n : own[j] = i
        BY <1>5
      <3> QED BY <2>2, <3>1, <3>2
    <2> QED BY <2>1, <2>2, <2>3 DEF ImageFull
  <1> HIDE DEF img
  <1>7. FullOf(cells', mem')
    BY <1>1, WholeIs
  <1> QED BY <1>1, <1>6, <1>7, CalledWhole

\* A slot of empty cells takes nothing from a sequence.
LEMMA FreshKeeps ==
    ASSUME NEW c \in Good, NEW n \in Nat, NEW idxs, SlotOf(idxs, n), NEW toks,
           NEW d, FreshFill(c, d, idxs, toks, n), \A j \in 1 .. n : c.pos[idxs[j]] = -1
    PROVE  \A q : Keeps(c, d, q)
  <1> SUFFICES ASSUME NEW q, NEW i \in Idx, q \in c.seq[i]
               PROVE  q \in d.seq[i] /\ d.pos[i] = c.pos[i]
    BY DEF Keeps
  <1>1. c.pos[i] # -1
    BY GoodType
  <1>2. \A j \in 1 .. n : idxs[j] # i
    BY <1>1
  <1> QED BY <1>2 DEF FreshFill, At

\* A sequence that is restored has all the tokens of the image.
LEMMA RestoreWhole ==
    ASSUME BooksInv, WholeInv, mode # "swa", NEW r \in Seqs, RestoreSequence(r)
    PROVE  WholeNext
  <1>1. PICK c, n, idxs : Restores(r, c, n, idxs)
    BY RestoreDoes
  <1>2. saved' = saved /\ saved # {} /\ plan' = plan /\ Called
    BY DEF RestoreSequence
  <1> DEFINE s == StreamOf(r)
             toks == ImageToks(r)
             img == ImageOf
  <1>3. s \in Streams /\ cells[s] \in Good /\ DOMAIN mem = Seqs
    BY BooksAre, StreamsAre DEF Mems
  <1>0. Infinite \in Int /\ 0 \in Int
    BY Consts DEF Infinite
  <1>4. RangeRemoved(cells[s], c, r, 0, Infinite) /\ n = Len(img.cells)
    BY <1>1 DEF Restores
  <1>5. /\ img \in saved /\ IsImage(img) /\ n \in Nat /\ toks \in [1 .. n -> Token]
        /\ \A j \in 1 .. n : toks[j].seq = r /\ toks[j].pos = img.cells[j].pos
    BY <1>2, <1>4, ImageIs
  <1>6. \/ /\ SlotOf(idxs, n) /\ \A j \in 1 .. n : idxs[j] \in Usable(c)
           /\ \E d : RefilledSome(c, d, idxs, toks, n) /\ cells' = [cells EXCEPT ![s] = d]
           /\ mem' = [mem EXCEPT ![r] = img.mem]
        \/ /\ cells' = [cells EXCEPT ![s] = c]
           /\ mem' = [mem EXCEPT ![r] = <<>>]
    BY <1>1 DEF Restores
  <1>s. StreamOf(r) = s
    OBVIOUS
  <1> HIDE DEF s, toks, img
  <1>7. c \in Good
    BY <1>3, <1>4, RangeAll
  <1>8. \A x : x # r => Keeps(cells[s], c, x)
    BY <1>0, <1>3, <1>4, RemovedKeeps
  <1>9. CASE /\ SlotOf(idxs, n) /\ \A j \in 1 .. n : idxs[j] \in Usable(c)
             /\ \E d : RefilledSome(c, d, idxs, toks, n) /\ cells' = [cells EXCEPT ![s] = d]
             /\ mem' = [mem EXCEPT ![r] = img.mem]
    <2>1. PICK d : RefilledSome(c, d, idxs, toks, n) /\ cells' = [cells EXCEPT ![s] = d]
      BY <1>9
    <2>2. mem'[r] = img.mem /\ \A x \in Seqs \ {r} : mem'[x] = mem[x]
      BY <1>3, <1>9
    <2>3. ImageFull(img)
      BY <1>5, WholeIs
    <2>4. \A j \in 1 .. n : c.pos[idxs[j]] = -1
      BY <1>9, UsableIsEmpty
    <2>5. FreshFill(c, d, idxs, toks, n)
      BY <1>5, <1>7, <1>9, <2>1, <2>4, FreshIs
    <2>6. \A q : Keeps(c, d, q)
      BY <1>5, <1>7, <1>9, <2>4, <2>5, FreshKeeps
    <2>7. Full(d, r, Len(mem'[r]))
      <3>1. Full(d, r, Len(img.mem))
        <4> SUFFICES ASSUME NEW p \in 0 .. Len(img.mem) - 1
                     PROVE  \E i \in Idx : r \in d.seq[i] /\ d.pos[i] = p
          BY DEF Full
        <4>1. PICK j \in 1 .. n : img.cells[j].pos = p
          BY <1>4, <2>3 DEF ImageFull
        <4>2. idxs[j] \in Idx
          BY <1>9 DEF SlotOf
        <4>3. d.pos[idxs[j]] = toks[j].pos /\ d.seq[idxs[j]] = {toks[j].seq}
          BY <2>5 DEF FreshFill, At
        <4> QED BY <1>5, <4>1, <4>2, <4>3
      <3> QED BY <2>2, <3>1
    <2>8. \A x \in Seqs \ {r} : Keeps(cells[s], d, x)
      BY <1>8, <2>6 DEF Keeps
    <2>9. FullOf(cells', mem')
      BY <1>s, <1>3, <2>1, <2>2, <2>7, <2>8, OneStreamFull
    <2> QED BY <1>2, <2>9, WholeIs, CalledWhole
  <1>10. CASE cells' = [cells EXCEPT ![s] = c] /\ mem' = [mem EXCEPT ![r] = <<>>]
    <2>1. mem'[r] = <<>> /\ \A x \in Seqs \ {r} : mem'[x] = mem[x]
      BY <1>3, <1>10
    <2>2. Full(c, r, Len(mem'[r]))
      BY <2>1, NothingFull
    <2>3. FullOf(cells', mem')
      BY <1>s, <1>3, <1>8, <1>10, <2>1, <2>2, OneStreamFull
    <2> QED BY <1>2, <2>3, WholeIs, CalledWhole
  <1> QED BY <1>6, <1>9, <1>10

\* The slots of a plan stay empty as long as the positions stay.
LEMMA FreeSame ==
    ASSUME NEW p, NEW lens, PlanFor(p, lens), NEW cs, FreeSlots(p, cs),
           NEW ds, \A s \in Streams, i \in Idx : ds[s].pos[i] = cs[s].pos[i]
    PROVE  FreeSlots(p, ds)
  <1>1. \A u \in 1 .. Len(p) : IsUBatch(p[u].ub) /\ IsSlot(p[u].slot, p[u].ub)
    BY DEF PlanFor, PlanOf
  <1>2. ASSUME NEW u \in 1 .. Len(p), NEW s \in DOMAIN p[u].ub, NEW j \in 1 .. Len(p[u].ub[s])
        PROVE  ds[s].pos[p[u].slot[s][j]] = -1
    <2>1. s \in Streams
      BY <1>1 DEF IsUBatch
    <2>2. p[u].slot[s][j] \in Idx
      BY <1>1 DEF IsSlot, SlotOf
    <2>3. cs[s].pos[p[u].slot[s][j]] = -1
      BY DEF FreeSlots
    <2> QED BY <2>1, <2>2, <2>3
  <1> QED BY <1>2 DEF FreeSlots

\* Looking for slots loses no token of a sequence.
LEMMA DecodeWhole ==
    ASSUME BooksInv, WholeInv, mode # "swa", NEW batch \in Batches, Decode(batch)
    PROVE  WholeNext
  <1>1. UNCHANGED <<mode, saved, mem>>
    BY DEF Decode
  <1>2. CASE \E a : Plans(a)
    <2>1. PICK a : Plans(a)
      BY <1>2
    <2>2. cells' = a.cells /\ \A s \in Streams : Equals(a.cells[s], Unpended[s])
      BY <2>1 DEF Plans, Answered, Back
    <2>3. ASSUME NEW s \in Streams, NEW i \in Idx
          PROVE  cells'[s].pos[i] = Unpended[s].pos[i] /\ cells'[s].seq[i] = Unpended[s].seq[i]
      BY <2>2 DEF Equals
    <2>4. ASSUME NEW q \in Seqs PROVE Full(cells'[StreamOf(q)], q, Len(mem'[q]))
      <3> DEFINE s == StreamOf(q)
      <3>1. s \in Streams /\ cells[s] \in Good
        BY BooksAre, StreamsAre
      <3>2. Full(cells[s], q, Len(mem[q]))
        BY WholeIs
      <3> HIDE DEF s
      <3>3. Unshifted(cells[s], Unpended[s])
        BY <3>1, ResetShiftIs DEF Unpended
      <3>4. Keeps(cells[s], cells'[s], q)
        BY <2>3, <3>1, <3>3 DEF Unshifted, Keeps
      <3>5. Full(cells'[s], q, Len(mem[q]))
        BY <3>2, <3>4, FullKept
      <3> QED BY <1>1, <3>5 DEF s
    <2>5. plan' = a.plan /\ FreeSlots(a.plan, Unpended) /\ PlanFor(a.plan, LensOf(mem))
      BY <2>1 DEF Plans, Answered
    <2>6. FreeSlots(plan', cells')
      BY <2>3, <2>5, FreeSame
    <2>7. FullOf(cells', mem')
      BY <2>4 DEF FullOf
    <2> QED BY <1>1, <2>6, <2>7, WholeIs DEF WholeNext, Whole
  <1>3. CASE ret' = "invalid" /\ UNCHANGED <<data, sc_info, cells, heads, plan>>
    BY <1>1, <1>3, WholeIs DEF WholeNext, Whole
  <1> QED BY <1>2, <1>3, DecodeDoes

\* The slot of the first micro batch of the plan consists of empty cells.
LEMMA FirstFree ==
    ASSUME FreeSlots(plan, cells), PlanFor(plan, LensOf(mem)),
           NEW ub, NEW slot, NEW c, FirstOfPlan(ub, slot, c)
    PROVE  \A s \in DOMAIN ub : \A j \in 1 .. Len(ub[s]) : cells[s].pos[slot[s][j]] = -1
  <1>1. PICK S : plan \in Seq(S)
    BY DEF PlanFor, PlanOf
  <1>2. 1 \in 1 .. Len(plan) /\ Head(plan) = plan[1]
    BY <1>1 DEF FirstOfPlan
  <1>3. ub = plan[1].ub /\ slot = plan[1].slot
    BY <1>2 DEF FirstOfPlan
  <1> QED BY <1>2, <1>3 DEF FreeSlots

\* The micro batch is written into empty cells.
LEMMA FreshlyApplied ==
    ASSUME BooksInv, FreeSlots(plan, cells), NEW ub, NEW slot, NEW c, FirstOfPlan(ub, slot, c),
           NEW ds, AppliedTo(cells, ds, ub, slot), NEW s \in DOMAIN ub
    PROVE  /\ FreshFill(cells[s], ds[s], slot[s], ub[s], Len(ub[s]))
           /\ \A q : Keeps(cells[s], ds[s], q)
           /\ SlotOf(slot[s], Len(ub[s])) /\ s \in Streams /\ Len(ub[s]) \in Nat
           /\ ub[s] \in [1 .. Len(ub[s]) -> Token]
  <1>1. IsUBatch(ub) /\ IsSlot(slot, ub)
    BY DEF FirstOfPlan
  <1>2. s \in Streams /\ Len(ub[s]) \in Nat /\ ub[s] \in [1 .. Len(ub[s]) -> Token]
    BY <1>1, UBatchType
  <1>3. SlotOf(slot[s], Len(ub[s]))
    BY <1>1 DEF IsSlot
  <1>4. RefilledSome(cells[s], ds[s], slot[s], ub[s], Len(ub[s]))
    BY DEF AppliedTo
  <1>5. \A j \in 1 .. Len(ub[s]) : cells[s].pos[slot[s][j]] = -1
    BY BooksAre, FirstFree
  <1>6. cells[s] \in Good
    BY <1>2, BooksAre
  <1>7. FreshFill(cells[s], ds[s], slot[s], ub[s], Len(ub[s]))
    BY <1>2, <1>3, <1>4, <1>5, <1>6, FreshIs
  <1>8. \A q : Keeps(cells[s], ds[s], q)
    BY <1>2, <1>3, <1>5, <1>6, <1>7, FreshKeeps
  <1> QED BY <1>2, <1>3, <1>7, <1>8

\* A filled slot adds the tokens of the micro batch to their sequences.
LEMMA AppliedFull ==
    ASSUME BooksInv, WholeInv, mode # "swa", NEW ub, NEW slot, NEW c, FirstOfPlan(ub, slot, c),
           NEW ds, AppliedTo(cells, ds, ub, slot), NEW q \in Seqs
    PROVE  Full(ds[StreamOf(q)], q, c[q])
  <1> DEFINE s == StreamOf(q)
             l == Len(mem[q])
             b == LensOf(mem)
  <1>1. s \in Streams /\ l \in Nat /\ b \in Lens /\ b[q] = l
    BY BooksAre, StreamsAre
  <1>2. Full(cells[s], q, l) /\ FreeSlots(plan, cells)
    BY WholeIs
  <1>3. c \in Lens /\ Takes(ub, b, c)
    BY DEF FirstOfPlan
  <1>s. StreamOf(q) = s
    OBVIOUS
  <1> HIDE DEF s, l, b
  <1>4. Keeps(cells[s], ds[s], q)
    <2>1. CASE s \in DOMAIN ub
      BY <1>2, <2>1, FreshlyApplied
    <2>2. CASE s \notin DOMAIN ub
      BY <1>1, <2>2 DEF AppliedTo, Keeps
    <2> QED BY <2>1, <2>2
  <1>5. ASSUME NEW p \in 0 .. c[q] - 1
        PROVE  \E i \in Idx : q \in ds[s].seq[i] /\ ds[s].pos[i] = p
    <2>0. c[q] \in 0 .. MaxLen /\ c[q] \in Int
      BY <1>3, Consts DEF Lens
    <2>1. CASE p < l
      <3>1. p \in 0 .. l - 1
        BY <1>1, <2>0, <2>1
      <3> QED BY <1>2, <1>4, <3>1 DEF Full, Keeps
    <2>2. CASE p >= l
      <3>1. p \in b[q] .. c[q] - 1
        BY <1>1, <2>0, <2>2
      <3>2. s \in DOMAIN ub /\ \E j \in 1 .. Len(ub[s]) : ub[s][j].seq = q /\ ub[s][j].pos = p
        BY <1>s, <1>3, <3>1 DEF Takes
      <3>3. PICK j \in 1 .. Len(ub[s]) : ub[s][j].seq = q /\ ub[s][j].pos = p
        BY <3>2
      <3>4. FreshFill(cells[s], ds[s], slot[s], ub[s], Len(ub[s])) /\ SlotOf(slot[s], Len(ub[s]))
        BY <1>2, <3>2, FreshlyApplied
      <3>5. slot[s][j] \in Idx /\ At(ds[s], slot[s][j], p, {q})
        BY <3>3, <3>4 DEF FreshFill, SlotOf
      <3> QED BY <3>5 DEF At
    <2> QED BY <1>1, <2>1, <2>2
  <1> QED BY <1>5 DEF s, Full

\* The micro batches that are left have their slots still empty.
LEMMA TailFree ==
    ASSUME BooksInv, FreeSlots(plan, cells), NEW ub, NEW slot, NEW c, FirstOfPlan(ub, slot, c),
           NEW ds, AppliedTo(cells, ds, ub, slot)
    PROVE  FreeSlots(Tail(plan), ds)
  <1>0. PlanFor(plan, LensOf(mem)) /\ plan # <<>>
    BY BooksAre DEF FirstOfPlan
  <1>1. PICK S : plan \in Seq(S)
    BY <1>0 DEF PlanFor, PlanOf
  <1>2. Len(plan) \in Nat \ {0} /\ Head(plan) = plan[1]
    BY <1>0, <1>1
  <1>3. ub = plan[1].ub /\ slot = plan[1].slot
    BY <1>2 DEF FirstOfPlan
  <1> DEFINE t == Tail(plan)
  <1>4. Len(t) = Len(plan) - 1 /\ \A u \in 1 .. Len(t) : t[u] = plan[u + 1]
    BY <1>0, <1>1
  <1> HIDE DEF t
  <1>5. \A u \in 1 .. Len(plan) : IsUBatch(plan[u].ub) /\ IsSlot(plan[u].slot, plan[u].ub)
    BY <1>0 DEF PlanFor, PlanOf
  <1>6. ASSUME NEW u \in 1 .. Len(t), NEW s \in DOMAIN t[u].ub, NEW k \in 1 .. Len(t[u].ub[s])
        PROVE  ds[s].pos[t[u].slot[s][k]] = -1
    <2>1. u + 1 \in 1 .. Len(plan) /\ t[u] = plan[u + 1] /\ u + 1 \in 2 .. Len(plan)
      BY <1>2, <1>4
    <2> DEFINE v == u + 1
    <2>2. v \in 1 .. Len(plan) /\ t[u] = plan[v] /\ v \in 1 + 1 .. Len(plan)
      BY <2>1
    <2> HIDE DEF v
    <2>7. IsUBatch(plan[v].ub) /\ SlotOf(plan[v].slot[s], Len(plan[v].ub[s]))
          /\ s \in DOMAIN plan[v].ub /\ k \in 1 .. Len(plan[v].ub[s])
      BY <1>5, <2>2 DEF IsSlot
    <2>3. s \in Streams /\ plan[v].slot[s][k] \in Idx
      BY <2>7 DEF IsUBatch, SlotOf
    <2>4. cells[s].pos[plan[v].slot[s][k]] = -1
      BY <2>2 DEF FreeSlots
    <2>5. CASE s \in DOMAIN ub
      <3>1. \A j \in 1 .. Len(ub[s]) : slot[s][j] # plan[v].slot[s][k]
        BY <1>2, <1>3, <2>2, <2>5 DEF FreeSlots
      <3>2. FreshFill(cells[s], ds[s], slot[s], ub[s], Len(ub[s]))
        BY <2>5, FreshlyApplied
      <3> QED BY <2>2, <2>3, <2>4, <3>1, <3>2 DEF FreshFill, At
    <2>6. CASE s \notin DOMAIN ub
      BY <2>2, <2>3, <2>4, <2>6 DEF AppliedTo
    <2> QED BY <2>5, <2>6
  <1>7. ASSUME NEW u \in 1 .. Len(t), NEW v \in u + 1 .. Len(t), NEW s \in DOMAIN t[u].ub,
               s \in DOMAIN t[v].ub, NEW j \in 1 .. Len(t[u].ub[s]), NEW k \in 1 .. Len(t[v].ub[s])
        PROVE  t[u].slot[s][j] # t[v].slot[s][k]
    <2> DEFINE x == u + 1
               y == v + 1
    <2>0. u \in Nat /\ v \in Nat /\ u < v /\ v <= Len(t) /\ 1 <= u /\ Len(t) = Len(plan) - 1
          /\ Len(plan) \in Nat
      BY <1>2, <1>4
    <2>1. x \in 1 .. Len(plan) /\ y \in x + 1 .. Len(plan) /\ v \in 1 .. Len(t)
      BY <2>0
    <2>2. t[u] = plan[x] /\ t[v] = plan[y]
      BY <1>4, <2>1
    <2> HIDE DEF x, y
    <2> QED BY <1>7, <2>1, <2>2 DEF FreeSlots
  <1> QED BY <1>6, <1>7 DEF FreeSlots, t

\* A computed micro batch is complete, and takes nothing from the others.
LEMMA ComputeWhole ==
    ASSUME BooksInv, WholeInv, mode # "swa", ComputeUBatch
    PROVE  WholeNext
  <1>1. PICK ub, slot, c : Computes(ub, slot, c)
    BY ComputeDoes
  <1>2. UNCHANGED <<mode, saved>>
    BY DEF ComputeUBatch
  <1>3. /\ FirstOfPlan(ub, slot, c) /\ AppliedTo(cells, cells', ub, slot) /\ LensOf(mem') = c
        /\ plan' = Tail(plan)
    BY <1>1 DEF Computes
  <1>4. ASSUME NEW q \in Seqs PROVE Full(cells'[StreamOf(q)], q, Len(mem'[q]))
    <2>1. Full(cells'[StreamOf(q)], q, c[q])
      BY <1>3, AppliedFull
    <2>2. c[q] = Len(mem'[q])
      BY <1>3 DEF LensOf
    <2> QED BY <2>1, <2>2
  <1>5. FreeSlots(plan', cells')
    BY <1>3, WholeIs, TailFree
  <1>6. FullOf(cells', mem')
    BY <1>4 DEF FullOf
  <1> QED BY <1>2, <1>5, <1>6, WholeIs DEF WholeNext, Whole

\* An aborted micro batch leaves what the sequences had before it.
LEMMA AbortWhole ==
    ASSUME BooksInv, WholeInv, mode # "swa", AbortUBatch
    PROVE  WholeNext
  <1>1. PICK ub, slot, c, as : Aborts(ub, slot, c, as)
    BY AbortDoes
  <1>2. UNCHANGED <<mode, saved, mem>> /\ plan' = <<>>
    BY DEF AbortUBatch
  <1>3. FirstOfPlan(ub, slot, c) /\ AppliedTo(cells, as, ub, slot)
    BY <1>1 DEF Aborts
  <1>4. c \in Lens /\ IsUBatch(ub) /\ Takes(ub, LensOf(mem), c)
    BY <1>3 DEF FirstOfPlan
  <1>5. ASSUME NEW q \in Seqs PROVE Full(cells'[StreamOf(q)], q, Len(mem'[q]))
    <2> DEFINE s == StreamOf(q)
               l == Len(mem[q])
               b == LensOf(mem)
    <2>1. s \in Streams /\ b[q] = l /\ l \in Nat /\ b \in Lens
      BY BooksAre, StreamsAre
    <2>2. Full(as[s], q, c[q])
      BY <1>3, AppliedFull
    <2>3. WithdrawnOf(cells'[s], as[s], b, Own(ub, s))
      BY <1>1, <2>1 DEF Aborts
    <2>4. c[q] \in 0 .. MaxLen /\ b[q] <= c[q]
      BY <1>4, <2>1 DEF Takes, Lens
    <2> HIDE DEF s, l, b
    <2>5. ASSUME NEW p \in 0 .. l - 1 PROVE \E i \in Idx : q \in cells'[s].seq[i] /\ cells'[s].pos[i] = p
      <3>1. p \in 0 .. c[q] - 1 /\ p < b[q]
        BY <2>1, <2>4, Consts
      <3>2. PICK i \in Idx : q \in as[s].seq[i] /\ as[s].pos[i] = p
        BY <2>2, <3>1 DEF Full
      <3>3. q \in cells'[s].seq[i]
        BY <2>3, <3>1, <3>2 DEF WithdrawnOf
      <3> QED BY <2>3, <3>2, <3>3 DEF WithdrawnOf
    <2>6. Full(cells'[s], q, l)
      BY <2>5 DEF Full
    <2> QED BY <1>2, <2>6 DEF s, l
  <1>6. FullOf(cells', mem')
    BY <1>5 DEF FullOf
  <1> QED BY <1>2, <1>6, WholeIs, NoPlanFree DEF WholeNext, Whole

\* The invariant in terms of the next state.
LEMMA WholeKept ==
    ASSUME mode' = mode, mode # "swa" => WholeNext
    PROVE  WholeInv'
  <1> SUFFICES ASSUME mode # "swa" PROVE Whole(cells, mem, plan, saved)'
    BY DEF WholeInv
  <1>1. \A q : StreamOf(q)' = StreamOf(q)
    BY SameMode
  <1>2. /\ \A q \in Seqs : Full(cells'[StreamOf(q)], q, Len(mem'[q]))
        /\ FreeSlots(plan', cells') /\ \A img \in saved' : ImageFull(img)
    BY DEF WholeNext, Whole, FullOf
  <1>3. (\A q \in Seqs : Full(cells[StreamOf(q)], q, Len(mem[q])))'
    BY <1>1, <1>2
  <1>4. (\A img \in saved : ImageFull(img))'
    BY <1>2
  <1>5. FreeSlots(plan, cells)'
    BY <1>2
  <1> QED BY <1>3, <1>4, <1>5 DEF Whole, FullOf

\* Nothing is missing in the beginning.
LEMMA WholeInit == Init => WholeInv
  <1> SUFFICES ASSUME Init PROVE WholeInv
    OBVIOUS
  <1>1. mem = [q \in Seqs |-> <<>>] /\ plan = <<>> /\ saved = {}
    BY DEF Init
  <1>2. FullOf(cells, mem)
    BY <1>1, NothingFull DEF FullOf
  <1> QED BY <1>1, <1>2, NoPlanFree DEF WholeInv, Whole

\* Without a window no step loses a token.
LEMMA WholeStep == BooksInv /\ WholeInv /\ Next => WholeInv'
  <1> SUFFICES ASSUME BooksInv, WholeInv, Next, mode # "swa" PROVE WholeNext
    BY WholeKept, ModeStays
  <1>1. ASSUME NEW batch \in Batches, Decode(batch) PROVE WholeNext
    BY <1>1, DecodeWhole
  <1>2. CASE ComputeUBatch
    BY <1>2, ComputeWhole
  <1>3. CASE AbortUBatch
    BY <1>3, AbortWhole
  <1>4. ASSUME NEW q \in Seqs, NEW p \in 0 .. MaxLen, Truncate(q, p) PROVE WholeNext
    BY <1>4, TruncateWhole
  <1>5. ASSUME NEW q \in Seqs, NEW to \in 0 .. MaxLen, NEW from \in 0 .. MaxLen,
               NEW n \in 0 .. MaxLen, CutAndShift(q, to, from, n)
        PROVE  WholeNext
    BY <1>5, CutWhole
  <1>6. ASSUME NEW q \in Seqs, NEW r \in Seqs, CopySequence(q, r) PROVE WholeNext
    BY <1>6, CopyWhole
  <1>7. ASSUME NEW q \in Seqs, KeepSequence(q) PROVE WholeNext
    BY <1>7, KeepWhole
  <1>8. ASSUME NEW q \in Seqs, SaveSequence(q) PROVE WholeNext
    BY <1>8, SaveWhole
  <1>9. ASSUME NEW q \in Seqs, RestoreSequence(q) PROVE WholeNext
    BY <1>9, RestoreWhole
  <1>10. CASE Clear
    BY <1>10, ClearWhole
  <1> QED BY <1>1, <1>2, <1>3, <1>4, <1>5, <1>6, <1>7, <1>8, <1>9, <1>10 DEF Next

\* Without a window no token is ever lost.
LEMMA WholeAlways == Spec => []WholeInv
  <1>1. WholeInv /\ UNCHANGED vars => WholeInv'
    <2> SUFFICES ASSUME WholeInv, UNCHANGED vars PROVE WholeInv'
      OBVIOUS
    <2>1. (mode # "swa" => WholeNext) /\ mode' = mode
      BY DEF WholeInv, WholeNext, Whole, FullOf, vars
    <2> QED BY <2>1, WholeKept
  <1> QED BY WholeInit, WholeStep, <1>1, BooksAlways, PTL DEF Spec

\* An interval has no gaps.
LEMMA NoGapIn ==
    ASSUME NEW l \in Nat, NEW P, P = 0 .. l - 1, P # {}
    PROVE  Min(P) .. Max(P) = P
  <1>1. l > 0 /\ P \subseteq Int /\ 0 \in P /\ l - 1 \in P
    OBVIOUS
  <1>2. Min(P) \in P /\ \A y \in P : Min(P) <= y
    <2>1. 0 \in Int /\ \A x \in P : 0 <= x
      OBVIOUS
    <2> QED BY <1>1, <2>1, MinIs
  <1>3. Max(P) \in P /\ \A y \in P : y <= Max(P)
    <2>1. l - 1 \in Int /\ \A x \in P : x <= l - 1
      OBVIOUS
    <2> QED BY <1>1, <2>1, MaxIs
  <1>4. Min(P) = 0 /\ Max(P) = l - 1
    BY <1>1, <1>2, <1>3
  <1> QED BY <1>4

-----------------------------------------------------------------------------
(* The data in the cells.                                                  *)

\* The buffers, and the copies between streams that wait for the next update.
Value == [tok : Int \X Int, at : Int]
Buffers == [Streams -> [Idx -> Value]]
CopiesDone(sc, dt) ==
    FoldLeft(LAMBDA d, copy : [d EXCEPT ![copy[2]] = d[copy[1]]], dt, sc)
CopyTrace(g, n, sc, dt) ==
    /\ g \in [0 .. n -> Buffers] /\ g[0] = dt
    /\ \A k \in 1 .. n : g[k] = [g[k - 1] EXCEPT ![sc[k][2]] = g[k - 1][sc[k][1]]]

\* What a copy leaves are buffers.
LEMMA CopyStays ==
    ASSUME NEW dt \in Buffers, NEW q \in Streams, NEW r \in Streams
    PROVE  [dt EXCEPT ![r] = dt[q]] \in Buffers
  <1>1. dt[q] \in [Idx -> Value]
    BY DEF Buffers
  <1> QED BY <1>1 DEF Buffers

\* The copies are done one after the other.
LEMMA CopiesAre ==
    ASSUME NEW dt \in Buffers, NEW n \in Nat, NEW sc, DOMAIN sc = 1 .. n,
           \A k \in 1 .. n : sc[k] \in Streams \X Streams
    PROVE  \E g : CopyTrace(g, n, sc, dt) /\ CopiesDone(sc, dt) = g[n]
  <1> DEFINE Copy(d, k) == [d EXCEPT ![sc[k][2]] = d[sc[k][1]]]
             h == [x \in (1 .. n) \X Buffers |-> Copy(x[2], x[1])]
             Eq(it) == it = [s \in SUBSET (DOMAIN sc) |->
                               IF s = {} THEN dt
                               ELSE [it[s \ {Max(s)}] EXCEPT
                                       ![sc[Max(s)][2]] = it[s \ {Max(s)}][sc[Max(s)][1]]]]
             it == CHOOSE g : Eq(g)
             t == CopiesDone(sc, dt)
  <1>1. t = it[DOMAIN sc]
    BY Zenon DEF CopiesDone, FoldLeft, MapThenFoldSet
  <1> HIDE DEF t
  <1>2. \A k \in 1 .. n, a \in Buffers : h[<<k, a>>] = Copy(a, k)
    OBVIOUS
  <1> HIDE DEF h
  <1>3. StaysIn(h, 1 .. n, Buffers)
    <2> SUFFICES ASSUME NEW k \in 1 .. n, NEW a \in Buffers PROVE h[<<k, a>>] \in Buffers
      BY DEF StaysIn
    <2>1. sc[k][1] \in Streams /\ sc[k][2] \in Streams
      OBVIOUS
    <2>2. Copy(a, k) \in Buffers
      BY <2>1, CopyStays
    <2> QED BY <1>2, <2>2
  <1>4. PICK f : LeftFoldOf(f, n, Buffers, dt, h)
    BY <1>3, LeftExists
  <1>5. /\ f \in [SUBSET (1 .. n) -> Buffers]
        /\ \A s \in SUBSET (1 .. n) : f[s] = IF s = {} THEN dt ELSE h[<<Max(s), f[s \ {Max(s)}]>>]
    BY <1>4 DEF LeftFoldOf
  <1>6. ASSUME NEW s \in SUBSET (1 .. n), s # {}
        PROVE  f[s] = Copy(f[s \ {Max(s)}], Max(s))
    <2>1. Max(s) \in 1 .. n /\ s \ {Max(s)} \in SUBSET (1 .. n)
      BY <1>6, MaxElement
    <2>2. f[s] = h[<<Max(s), f[s \ {Max(s)}]>>] /\ f[s \ {Max(s)}] \in Buffers
      BY <1>5, <1>6, <2>1
    <2> QED BY <1>2, <2>1, <2>2
  <1>7. Eq(f)
    BY <1>5, <1>6
  <1>8. Eq(it)
    BY <1>7
  <1> HIDE DEF it
  <1>9. it[1 .. n] = f[1 .. n]
    <2>1. \A s \in SUBSET (1 .. n) : it[s] = IF s = {} THEN dt ELSE Copy(it[s \ {Max(s)}], Max(s))
      BY <1>8
    <2> HIDE DEF Copy
    <2>2. f[{}] = it[{}]
      BY <1>5, <2>1
    <2>3. \A s \in SUBSET (1 .. n) : s # {} /\ it[s \ {Max(s)}] = f[s \ {Max(s)}] => it[s] = f[s]
      BY <1>6, <2>1
    <2> QED BY <2>2, <2>3, SameLeft
  <1>10. PICK g : Trace(g, n, Buffers, dt, h) /\ g[n] = f[1 .. n]
    BY <1>4, LeftTrace
  <1>11. g \in [0 .. n -> Buffers] /\ g[0] = dt /\ \A k \in 1 .. n : g[k] = h[<<k, g[k - 1]>>]
    BY <1>10 DEF Trace
  <1>12. ASSUME NEW k \in 1 .. n PROVE g[k] = Copy(g[k - 1], k)
    <2>1. g[k - 1] \in Buffers
      <3>1. k - 1 \in 0 .. n
        OBVIOUS
      <3> QED BY <1>11, <3>1
    <2> QED BY <1>2, <1>11, <2>1
  <1>13. CopyTrace(g, n, sc, dt)
    BY <1>11, <1>12 DEF CopyTrace
  <1>14. t = g[n]
    BY <1>1, <1>9, <1>10
  <1> QED BY <1>13, <1>14 DEF t

\* Copies between streams yield buffers.
LEMMA CopiesType ==
    ASSUME NEW dt \in Buffers, NEW sc \in Seq(Streams \X Streams)
    PROVE  CopiesDone(sc, dt) \in Buffers
  <1> DEFINE n == Len(sc)
  <1>1. n \in Nat /\ DOMAIN sc = 1 .. n /\ \A k \in 1 .. n : sc[k] \in Streams \X Streams
    OBVIOUS
  <1> HIDE DEF n
  <1>2. PICK g : CopyTrace(g, n, sc, dt) /\ CopiesDone(sc, dt) = g[n]
    BY <1>1, CopiesAre
  <1>3. n \in 0 .. n
    BY <1>1
  <1> QED BY <1>2, <1>3 DEF CopyTrace

\* Without pending copies the data is what the buffers hold.
LEMMA NoCopies ==
    ASSUME NEW dt \in Buffers
    PROVE  CopiesDone(<<>>, dt) = dt
  <1> DEFINE sc == <<>>
             n == 0
  <1>1. n \in Nat /\ DOMAIN sc = 1 .. n /\ \A k \in 1 .. n : sc[k] \in Streams \X Streams
    OBVIOUS
  <1> HIDE DEF n, sc
  <1>2. PICK g : CopyTrace(g, n, sc, dt) /\ CopiesDone(sc, dt) = g[n]
    BY <1>1, CopiesAre
  <1> QED BY <1>2 DEF CopyTrace, n, sc

\* A copy that is announced is done after the others.
LEMMA OneMoreCopy ==
    ASSUME NEW dt \in Buffers, NEW sc \in Seq(Streams \X Streams), NEW q \in Streams, NEW r \in Streams
    PROVE  CopiesDone(Append(sc, <<q, r>>), dt)
             = [CopiesDone(sc, dt) EXCEPT ![r] = CopiesDone(sc, dt)[q]]
  <1> DEFINE n == Len(sc)
             m == n + 1
             ac == Append(sc, <<q, r>>)
  <1>1. n \in Nat /\ m \in Nat /\ DOMAIN sc = 1 .. n /\ \A k \in 1 .. n : sc[k] \in Streams \X Streams
    OBVIOUS
  <1>2. /\ DOMAIN ac = 1 .. m /\ \A k \in 1 .. n : ac[k] = sc[k]
        /\ ac[m] = <<q, r>> /\ \A k \in 1 .. m : ac[k] \in Streams \X Streams
    OBVIOUS
  <1>3. m = n + 1
    OBVIOUS
  <1> HIDE DEF n, m, ac
  <1>4. PICK f : CopyTrace(f, n, sc, dt) /\ CopiesDone(sc, dt) = f[n]
    BY <1>1, CopiesAre
  <1>5. PICK g : CopyTrace(g, m, ac, dt) /\ CopiesDone(ac, dt) = g[m]
    BY <1>1, <1>2, CopiesAre
  <1> DEFINE W == {k \in 0 .. n : g[k] = f[k]}
  <1>6. 0 \in W
    BY <1>1, <1>4, <1>5 DEF CopyTrace
  <1>7. ASSUME NEW k \in 1 .. n, k - 1 \in W PROVE k \in W
    <2>1. g[k - 1] = f[k - 1] /\ k \in 1 .. m /\ ac[k] = sc[k]
      BY <1>1, <1>2, <1>3, <1>7
    <2>2. f[k] = [f[k - 1] EXCEPT ![sc[k][2]] = f[k - 1][sc[k][1]]]
      BY <1>4 DEF CopyTrace
    <2>3. g[k] = [g[k - 1] EXCEPT ![ac[k][2]] = g[k - 1][ac[k][1]]]
      BY <1>5, <2>1 DEF CopyTrace
    <2> QED BY <1>1, <2>1, <2>2, <2>3
  <1>8. n \in W
    <2> HIDE DEF W
    <2>1. \A k \in 0 .. n : k \in W
      BY <1>1, <1>6, <1>7, IntervalInduct
    <2> QED BY <1>1, <2>1
  <1>9. g[m] = [g[n] EXCEPT ![r] = g[n][q]]
    <2>1. m \in 1 .. m /\ m - 1 = n /\ ac[m][1] = q /\ ac[m][2] = r
      BY <1>1, <1>2, <1>3
    <2>2. g[m] = [g[m - 1] EXCEPT ![ac[m][2]] = g[m - 1][ac[m][1]]]
      BY <1>5, <2>1 DEF CopyTrace
    <2> QED BY <2>1, <2>2
  <1> QED BY <1>4, <1>5, <1>8, <1>9 DEF ac

\* The inductive invariant behind Intact: once the pending copies are done, the
\* buffer of a cell holds the token of every sequence in the cell, rotated to
\* where the cell's pending shift starts; and while a plan is computed, and in a
\* saved sequence, nothing is pending.
RightIn(c, dt, q, m) ==
    \A i \in Idx : q \in c.seq[i] =>
        dt[i].tok = m[c.pos[i] + 1] /\ dt[i].at + c.shift[i] = c.pos[i]
RightOf(cs, dt, mm) == \A q \in Seqs : RightIn(cs[StreamOf(q)], dt[StreamOf(q)], q, mm[q])
ImageRight(img) ==
    \A j \in 1 .. Len(img.cells) :
        /\ img.cells[j].kv \in Value
        /\ img.cells[j].kv.tok = img.mem[img.cells[j].pos + 1]
        /\ img.cells[j].kv.at = img.cells[j].pos
Calm(sc, cs) == sc = <<>> /\ \A s \in Streams : cs[s].has_shift = FALSE
Rights(cs, dt, sc, pl, sv, mm) ==
    /\ dt \in Buffers /\ sc \in Seq(Streams \X Streams)
    /\ RightOf(cs, CopiesDone(sc, dt), mm)
    /\ pl # <<>> => Calm(sc, cs)
    /\ \A img \in sv : ImageRight(img)
RightInv == Rights(cells, data, sc_info, plan, saved, mem)
RightNext == Rights(cells', data', sc_info', plan', saved', mem')
Effective == CopiesDone(sc_info, data)

\* What the invariant says, part by part.
LEMMA RightsAre ==
    ASSUME RightInv
    PROVE  /\ data \in Buffers /\ sc_info \in Seq(Streams \X Streams) /\ Effective \in Buffers
           /\ \A q \in Seqs : RightIn(cells[StreamOf(q)], Effective[StreamOf(q)], q, mem[q])
           /\ \A s \in Streams, i \in Idx : Effective[s][i] \in Value
           /\ plan # <<>> => Calm(sc_info, cells)
           /\ \A img \in saved : ImageRight(img)
           /\ sc_info = <<>> => Effective = data
  <1>1. data \in Buffers /\ sc_info \in Seq(Streams \X Streams)
    BY DEF RightInv, Rights
  <1>2. Effective \in Buffers
    BY <1>1, CopiesType DEF Effective
  <1>3. sc_info = <<>> => Effective = data
    BY <1>1, NoCopies DEF Effective
  <1>4. \A s \in Streams, i \in Idx : Effective[s][i] \in Value
    BY <1>2 DEF Buffers
  <1> QED BY <1>1, <1>2, <1>3, <1>4 DEF RightInv, Rights, RightOf, Effective

\* A call that leaves the buffers and the saved state alone.
LEMMA CalledRight ==
    ASSUME RightInv, Called, plan' = plan, UNCHANGED <<data, sc_info, saved>>,
           RightOf(cells', Effective, mem')
    PROVE  RightNext
  <1>1. data' = data /\ sc_info' = sc_info /\ saved' = saved /\ plan' = <<>>
    BY DEF Called
  <1>2. CopiesDone(sc_info', data') = Effective
    BY <1>1 DEF Effective
  <1> QED BY <1>1, <1>2, RightsAre DEF RightNext, Rights

\* What d has of q comes from c, with its shift.
Follows(c, d, q) ==
    \A i \in Idx : q \in d.seq[i] =>
        q \in c.seq[i] /\ d.pos[i] = c.pos[i] /\ d.shift[i] = c.shift[i]

\* Cells that stay where they are have the right data.
LEMMA RightFollows ==
    ASSUME NEW c, NEW d, NEW q, NEW dt, NEW m, RightIn(c, dt, q, m), Follows(c, d, q)
    PROVE  RightIn(d, dt, q, m)
  BY DEF RightIn, Follows

\* Cells that stay twice stay.
LEMMA FollowsTwice ==
    ASSUME NEW c, NEW d, NEW e, NEW q, Follows(c, d, q), Follows(d, e, q)
    PROVE  Follows(c, e, q)
  BY DEF Follows

\* A removal keeps the shifts of the cells that stay.
LEMMA RemovedFollows ==
    ASSUME NEW c, NEW d, NEW q, NEW p0, NEW p1, RangeRemoved(c, d, q, p0, p1)
    PROVE  \A r : Follows(c, d, r)
  <1> SUFFICES ASSUME NEW r, NEW i \in Idx, r \in d.seq[i]
               PROVE  r \in c.seq[i] /\ d.pos[i] = c.pos[i] /\ d.shift[i] = c.shift[i]
    BY DEF Follows
  <1>1. CASE q \in c.seq[i] /\ c.pos[i] >= p0 /\ c.pos[i] < p1
    <2>1. d.seq[i] = c.seq[i] \ {q}
      BY <1>1 DEF RangeRemoved
    <2>2. c.seq[i] \ {q} # {}
      BY <2>1
    <2> QED BY <1>1, <2>1, <2>2 DEF RangeRemoved
  <1>2. CASE ~ (q \in c.seq[i] /\ c.pos[i] >= p0 /\ c.pos[i] < p1)
    BY <1>2 DEF RangeRemoved
  <1> QED BY <1>1, <1>2

\* A stream is replaced: q is to be looked at, the others follow.
LEMMA OneStreamRight ==
    ASSUME BooksInv, RightInv, NEW s \in Streams, NEW d, cells' = [cells EXCEPT ![s] = d],
           NEW q \in Seqs, StreamOf(q) = s, \A r \in Seqs \ {q} : mem'[r] = mem[r],
           RightIn(d, Effective[s], q, mem'[q]), \A r \in Seqs \ {q} : Follows(cells[s], d, r)
    PROVE  RightOf(cells', Effective, mem')
  <1> SUFFICES ASSUME NEW r \in Seqs
               PROVE  RightIn(cells'[StreamOf(r)], Effective[StreamOf(r)], r, mem'[r])
    BY DEF RightOf
  <1>1. DOMAIN cells = Streams /\ StreamOf(r) \in Streams
    BY BooksAre, StreamsAre DEF Caches
  <1>2. RightIn(cells[StreamOf(r)], Effective[StreamOf(r)], r, mem[r])
    BY RightsAre
  <1>3. CASE r = q
    BY <1>1, <1>3
  <1>4. CASE r # q /\ StreamOf(r) # s
    BY <1>1, <1>2, <1>4
  <1>5. CASE r # q /\ StreamOf(r) = s
    <2>1. Follows(cells[s], d, r) /\ RightIn(cells[s], Effective[s], r, mem[r])
      BY <1>2, <1>5
    <2>2. RightIn(d, Effective[s], r, mem[r])
      BY <2>1, RightFollows
    <2> QED BY <1>1, <1>5, <2>2
  <1> QED BY <1>3, <1>4, <1>5

\* A part of a sequence, read at its positions.
LEMMA RightPart ==
    ASSUME NEW c \in Good, NEW q, NEW dt, NEW m, RightIn(c, dt, q, m), NEW t, NEW k,
           Held(c, q, k), \A x \in 0 .. k - 1 : t[x + 1] = m[x + 1], k \in Int
    PROVE  RightIn(c, dt, q, t)
  <1> SUFFICES ASSUME NEW i \in Idx, q \in c.seq[i] PROVE t[c.pos[i] + 1] = m[c.pos[i] + 1]
    BY DEF RightIn
  <1>1. c.pos[i] \in -1 .. MaxLen - 1 /\ c.pos[i] # -1 /\ c.pos[i] < k
    BY GoodType DEF Held
  <1>2. c.pos[i] \in 0 .. k - 1
    BY <1>1, Consts
  <1> QED BY <1>2

\* What is left of a truncated sequence has the right data.
LEMMA TruncateRight ==
    ASSUME BooksInv, ExtraInv, RightInv, NEW q \in Seqs, NEW p \in 0 .. MaxLen, Truncate(q, p)
    PROVE  RightNext
  <1> DEFINE s == StreamOf(q)
             k == Kept(q, p)
             d == SeqRmRange(cells[s], q, k, Infinite)
             t == SubSeq(mem[q], 1, k)
  <1>1. s \in Streams /\ cells[s] \in Good /\ mem[q] \in Seq(Seqs \X Nat) /\ Len(mem[q]) \in 0 .. MaxLen
    BY BooksAre, StreamsAre
  <1>2. k \in {0, p} /\ p < Len(mem[q]) /\ k \in Int /\ Called
    BY DEF Kept, Truncate
  <1>3. Infinite \in Int
    BY Consts DEF Infinite
  <1>4. /\ cells' = [cells EXCEPT ![s] = d] /\ mem' = [mem EXCEPT ![q] = t]
        /\ UNCHANGED <<data, sc_info, saved>> /\ plan' = plan
    BY DEF Truncate, Becomes
  <1>5. Held(cells[s], q, Len(mem[q])) /\ RightIn(cells[s], Effective[s], q, mem[q])
    BY RightsAre DEF ExtraInv, ExtraOf
  <1>0. StreamOf(q) = s
    OBVIOUS
  <1> HIDE DEF s, k
  <1>6. RangeRemoved(cells[s], d, q, k, Infinite)
    BY <1>1, <1>2, <1>3, SeqRmRangeIs
  <1>7. \A x \in 0 .. k - 1 : t[x + 1] = mem[q][x + 1]
    <2>1. k \in 0 .. Len(mem[q])
      BY <1>1, <1>2
    <2>2. PICK m : m = mem[q]
      OBVIOUS
    <2>3. \A x \in 0 .. k - 1 : SubSeq(m, 1, k)[x + 1] = m[x + 1]
      BY <1>1, <2>1, <2>2
    <2> QED BY <2>2, <2>3
  <1> HIDE DEF d, t
  <1>8. mem'[q] = t /\ \A r \in Seqs \ {q} : mem'[r] = mem[r]
    <2>1. DOMAIN mem = Seqs
      BY BooksAre DEF Mems
    <2> QED BY <1>4, <2>1
  <1>9. Held(d, q, k)
    BY <1>1, <1>2, <1>5, <1>6, CutOff
  <1>10. \A r : Follows(cells[s], d, r)
    BY <1>6, RemovedFollows
  <1>11. RightIn(d, Effective[s], q, mem'[q])
    <2>1. Follows(cells[s], d, q) /\ d \in Good
      BY <1>6, <1>10 DEF RangeRemoved
    <2>2. RightIn(d, Effective[s], q, mem[q])
      BY <1>5, <2>1, RightFollows
    <2>3. RightIn(d, Effective[s], q, t)
      BY <1>2, <1>7, <1>9, <2>1, <2>2, RightPart
    <2> QED BY <1>8, <2>3
  <1>12. RightOf(cells', Effective, mem')
    BY <1>0, <1>1, <1>4, <1>8, <1>10, <1>11, OneStreamRight
  <1> QED BY <1>2, <1>4, <1>12, CalledRight

\* A cut and a shift change the pending shift of a cell as they change its position.
LEMMA ShiftsFollow ==
    ASSUME NEW c \in Good, NEW q \in Seqs, NEW to \in Nat, NEW from \in Nat, NEW n \in Nat,
           to < from,
           NEW cut, RangeRemoved(c, cut, q, to, from),
           NEW add, RangeMoved(cut, add, q, from, from + n, to - from),
           NEW d, RangeRemoved(add, d, q, to + n, Infinite), Shifts(c, d, q, to, from, n)
    PROVE  /\ \A i \in Idx : q \in d.seq[i] => d.shift[i] = c.shift[i] + (d.pos[i] - c.pos[i])
           /\ \A r \in Seqs \ {q} : Follows(c, d, r)
  <1>1. /\ \A r : Follows(c, cut, r)
        /\ \A r : Follows(add, d, r)
    BY RemovedFollows
  <1>2. \A i \in Idx :
          \/ /\ q \in cut.seq[i]
             /\ add.seq[i] = cut.seq[i] /\ add.pos[i] = cut.pos[i] + (to - from)
             /\ add.shift[i] = cut.shift[i] + (to - from)
          \/ add.seq[i] = cut.seq[i] /\ add.pos[i] = cut.pos[i] /\ add.shift[i] = cut.shift[i]
    BY DEF RangeMoved
  <1>3. ASSUME NEW r, NEW i \in Idx, r \in d.seq[i]
        PROVE  /\ r \in c.seq[i]
               /\ \/ /\ d.pos[i] = c.pos[i] + (to - from) /\ d.shift[i] = c.shift[i] + (to - from)
                  \/ d.pos[i] = c.pos[i] /\ d.shift[i] = c.shift[i]
    <2>1. r \in add.seq[i] /\ d.pos[i] = add.pos[i] /\ d.shift[i] = add.shift[i]
      BY <1>1, <1>3 DEF Follows
    <2>2. r \in cut.seq[i]
      BY <1>2, <2>1
    <2>3. r \in c.seq[i] /\ cut.pos[i] = c.pos[i] /\ cut.shift[i] = c.shift[i]
      BY <1>1, <2>2 DEF Follows
    <2> QED BY <1>2, <2>1, <2>3
  <1>4. \A i \in Idx : c.pos[i] \in Int /\ c.shift[i] \in Int
    BY GoodType
  <1>5. ASSUME NEW i \in Idx, q \in d.seq[i]
        PROVE  d.shift[i] = c.shift[i] + (d.pos[i] - c.pos[i])
    <2>1. PICK y \in Int, z \in Int : y = c.pos[i] /\ z = c.shift[i]
      BY <1>4
    <2> QED BY <1>3, <1>5, <2>1
  <1>6. ASSUME NEW r \in Seqs \ {q}, NEW i \in Idx, r \in d.seq[i]
        PROVE  r \in c.seq[i] /\ d.pos[i] = c.pos[i] /\ d.shift[i] = c.shift[i]
    <2>1. d.pos[i] = c.pos[i]
      BY <1>6 DEF Shifts, Shrinks
    <2>2. PICK y \in Int : y = c.pos[i]
      BY <1>4
    <2>3. y # y + (to - from)
      OBVIOUS
    <2> QED BY <1>3, <1>6, <2>1, <2>2, <2>3
  <1>7. \A r \in Seqs \ {q} : Follows(c, d, r)
    BY <1>6 DEF Follows
  <1> QED BY <1>5, <1>7

\* The tokens that move keep their data.
LEMMA ShiftsRight ==
    ASSUME NEW c \in Good, NEW q \in Seqs, NEW to \in Nat, NEW from \in Nat, NEW n \in Nat,
           NEW d \in Good, Shifts(c, d, q, to, from, n),
           \A i \in Idx : q \in d.seq[i] => d.shift[i] = c.shift[i] + (d.pos[i] - c.pos[i]),
           NEW m, NEW t, IsCut(t, m, to, from, n), NEW dt, \A i \in Idx : dt[i] \in Value,
           RightIn(c, dt, q, m)
    PROVE  RightIn(d, dt, q, t)
  <1> SUFFICES ASSUME NEW i \in Idx, q \in d.seq[i]
               PROVE  dt[i].tok = t[d.pos[i] + 1] /\ dt[i].at + d.shift[i] = d.pos[i]
    BY DEF RightIn
  <1>1. /\ q \in c.seq[i] /\ d.pos[i] < to + n
        /\ c.pos[i] = IF d.pos[i] < to THEN d.pos[i] ELSE d.pos[i] + (from - to)
    BY DEF Shifts
  <1>2. dt[i].tok = m[c.pos[i] + 1] /\ dt[i].at + c.shift[i] = c.pos[i]
    BY <1>1 DEF RightIn
  <1>3. PICK x \in 0 .. MaxLen - 1 : x = d.pos[i]
    BY GoodType, Consts
  <1>4. PICK y \in Int, z \in Int : y = c.pos[i] /\ z = c.shift[i]
    BY GoodType
  <1>5. PICK a \in Int : a = dt[i].at
    BY DEF Value
  <1>6. x < to + n /\ y = IF x < to THEN x ELSE x + (from - to)
    BY <1>1, <1>3, <1>4
  <1>7. t[x + 1] = m[y + 1]
    <2>1. CASE x < to
      <3>1. x + 1 \in 1 .. to /\ y = x
        BY <1>6, <2>1, <1>3, Consts
      <3> QED BY <3>1 DEF IsCut
    <2>2. CASE ~ (x < to)
      <3>1. PICK j \in to + 1 .. to + n : j = x + 1
        BY <1>6, <2>2, <1>3, Consts
      <3>2. j - to + from = y + 1
        BY <1>6, <2>2, <3>1
      <3>3. t[j] = m[j - to + from]
        BY DEF IsCut
      <3> QED BY <3>1, <3>2, <3>3
    <2> QED BY <2>1, <2>2
  <1>8. a + (z + (x - y)) = x
    BY <1>2, <1>4, <1>5, <1>3, Consts
  <1>9. d.shift[i] = z + (x - y)
    BY <1>3, <1>4
  <1> QED BY <1>2, <1>3, <1>4, <1>5, <1>7, <1>8, <1>9

\* After a cut and a shift the pending shift makes the data right.
LEMMA CutRight ==
    ASSUME BooksInv, ExtraInv, RightInv, NEW q \in Seqs, NEW to \in 0 .. MaxLen,
           NEW from \in 0 .. MaxLen, NEW n \in 0 .. MaxLen, CutAndShift(q, to, from, n)
    PROVE  RightNext
  <1> DEFINE s == StreamOf(q)
             c == cells[s]
             t == SubSeq(mem[q], 1, to) \o SubSeq(mem[q], from + 1, from + n)
  <1>0. to \in Nat /\ from \in Nat /\ n \in Nat
    OBVIOUS
  <1>1. s \in Streams /\ c \in Good /\ mem[q] \in Seq(Seqs \X Nat)
    BY BooksAre, StreamsAre
  <1>2. /\ to < from /\ n > 0 /\ from + n <= Len(mem[q]) /\ MayShift(q, to)
        /\ mem' = [mem EXCEPT ![q] = t] /\ UNCHANGED <<data, sc_info, saved>>
        /\ plan' = plan /\ Called
    BY DEF CutAndShift
  <1>3. \A i \in Idx : q \in c.seq[i] /\ c.pos[i] >= to => c.seq[i] = {q}
    BY <1>2 DEF MayShift
  <1>4. RightIn(c, Effective[s], q, mem[q]) /\ \A i \in Idx : Effective[s][i] \in Value
    BY <1>1, RightsAre
  <1>5. PICK cut, add, d : /\ RangeRemoved(c, cut, q, to, from)
                           /\ RangeMoved(cut, add, q, from, from + n, to - from)
                           /\ RangeRemoved(add, d, q, to + n, Infinite)
                           /\ cells' = [cells EXCEPT ![s] = d]
    BY CutDoes
  <1>6. IsCut(t, mem[q], to, from, n)
    <2> DEFINE m == mem[q]
    <2>1. m \in Seq(Seqs \X Nat) /\ from + n <= Len(m)
      BY <1>1, <1>2
    <2>2. t = SubSeq(m, 1, to) \o SubSeq(m, from + 1, from + n)
      OBVIOUS
    <2> HIDE DEF m, t
    <2>3. IsCut(t, m, to, from, n)
      BY <1>0, <1>2, <2>1, <2>2, CutMem
    <2> QED BY <2>3 DEF m
  <1> HIDE DEF t
  <1>s. StreamOf(q) = s
    OBVIOUS
  <1>c. cells[s] = c
    OBVIOUS
  <1> HIDE DEF c, s
  <1>7. Shifts(c, d, q, to, from, n)
    BY <1>0, <1>1, <1>2, <1>3, <1>5, ShiftsIs
  <1>8. /\ \A i \in Idx : q \in d.seq[i] => d.shift[i] = c.shift[i] + (d.pos[i] - c.pos[i])
        /\ \A r \in Seqs \ {q} : Follows(c, d, r)
    BY <1>0, <1>1, <1>2, <1>5, <1>7, ShiftsFollow
  <1>9. RightIn(d, Effective[s], q, t)
    <2>1. d \in Good
      BY <1>5 DEF RangeRemoved
    <2> DEFINE dt == Effective[s]
               m == mem[q]
    <2>2. RightIn(c, dt, q, m) /\ (\A i \in Idx : dt[i] \in Value) /\ IsCut(t, m, to, from, n)
      BY <1>4, <1>6
    <2> HIDE DEF dt, m
    <2>3. RightIn(d, dt, q, t)
      BY <1>0, <1>1, <1>7, <1>8, <2>1, <2>2, ShiftsRight
    <2> QED BY <2>3 DEF dt
  <1>10. mem'[q] = t /\ \A r \in Seqs \ {q} : mem'[r] = mem[r]
    <2>1. DOMAIN mem = Seqs
      BY BooksAre DEF Mems
    <2> QED BY <1>2, <2>1
  <1>11. RightIn(d, Effective[s], q, mem'[q]) /\ \A r \in Seqs \ {q} : Follows(cells[s], d, r)
    BY <1>c, <1>8, <1>9, <1>10
  <1>12. RightOf(cells', Effective, mem')
    BY <1>s, <1>1, <1>5, <1>10, <1>11, OneStreamRight
  <1> QED BY <1>2, <1>12, CalledRight

\* A copy has the right data, at once or after the pending copy.
LEMMA CopyRight ==
    ASSUME BooksInv, RightInv, NEW q \in Seqs, NEW r \in Seqs, CopySequence(q, r)
    PROVE  RightNext
  <1>1. mem' = [mem EXCEPT ![r] = mem[q]] /\ UNCHANGED <<data, saved>> /\ plan' = plan /\ q # r /\ Called
    BY DEF CopySequence
  <1>2. mem'[r] = mem[q] /\ \A x \in Seqs \ {r} : mem'[x] = mem[x]
    <2>1. DOMAIN mem = Seqs
      BY BooksAre DEF Mems
    <2> QED BY <1>1, <2>1
  <1>3. RightIn(cells[StreamOf(q)], Effective[StreamOf(q)], q, mem[q])
    BY RightsAre
  <1>4. \A s \in Streams : cells[s] \in Good
    BY BooksAre
  <1>5. CASE mode = "streams"
    <2>1. Streams = Seqs /\ \A x \in Seqs : StreamOf(x) = x
      BY <1>5, StreamsAre DEF StreamOf
    <2> DEFINE d == StreamCopy(cells[q], q, r)
               dt == [Effective EXCEPT ![r] = Effective[q]]
               sc == Append(sc_info, <<q, r>>)
    <2>2. cells' = [cells EXCEPT ![r] = d] /\ sc_info' = sc
      BY <1>5 DEF CopySequence
    <2>3. CopiedFrom(cells[q], d, q, r)
      BY <1>4, <2>1, StreamCopyIs
    <2>4. CopiesDone(sc, data) = dt /\ sc \in Seq(Streams \X Streams)
      <3>1. data \in Buffers /\ sc_info \in Seq(Streams \X Streams) /\ q \in Streams /\ r \in Streams
        BY <2>1, RightsAre
      <3>2. sc \in Seq(Streams \X Streams)
        BY <3>1
      <3> QED BY <3>1, <3>2, OneMoreCopy DEF Effective
    <2>5. dt[r] = Effective[q] /\ \A x \in Seqs \ {r} : dt[x] = Effective[x]
      <3>1. DOMAIN Effective = Streams
        BY RightsAre DEF Buffers
      <3> QED BY <2>1, <3>1
    <2>6. DOMAIN cells = Streams
      BY BooksAre DEF Caches
    <2>7. RightIn(cells[q], Effective[q], q, mem[q])
      BY <1>3, <2>1
    <2> HIDE DEF d, dt, sc
    <2>8. RightIn(d, dt[r], r, mem[q])
      <3>1. \A i \in Idx : r \in d.seq[i] =>
              q \in cells[q].seq[i] /\ d.pos[i] = cells[q].pos[i] /\ d.shift[i] = cells[q].shift[i]
        BY <2>3 DEF CopiedFrom
      <3> QED BY <2>5, <2>7, <3>1 DEF RightIn
    <2>9. ASSUME NEW x \in Seqs PROVE RightIn(cells'[StreamOf(x)], dt[StreamOf(x)], x, mem'[x])
      <3>1. StreamOf(x) = x
        BY <2>1
      <3>2. CASE x = r
        BY <1>2, <2>1, <2>2, <2>6, <2>8, <3>1, <3>2
      <3>3. CASE x # r
        <4>1. RightIn(cells[x], Effective[x], x, mem[x])
          BY <3>1, RightsAre
        <4> QED BY <1>2, <2>1, <2>2, <2>5, <2>6, <3>1, <3>3, <4>1
      <3> QED BY <3>2, <3>3
    <2>10. RightOf(cells', CopiesDone(sc_info', data'), mem')
      <3>1. CopiesDone(sc_info', data') = dt
        BY <1>1, <2>2, <2>4
      <3> QED BY <2>9, <3>1 DEF RightOf
    <2>11. plan' = <<>> /\ data' = data /\ saved' = saved
      BY <1>1 DEF Called
    <2> QED BY <2>2, <2>4, <2>10, <2>11, RightsAre DEF RightNext, Rights
  <1>6. CASE mode # "streams"
    <2>1. 0 \in Streams /\ \A x \in Seqs : StreamOf(x) = 0
      BY <1>6, StreamsAre DEF StreamOf
    <2> DEFINE c == SeqRmRange(cells[0], r, 0, Infinite)
               d == SeqCpCells(c, q, r)
    <2>2. cells' = [cells EXCEPT ![0] = d] /\ UNCHANGED sc_info
      BY <1>6 DEF CopySequence
    <2>0. Infinite \in Int /\ 0 \in Int
      BY Consts DEF Infinite
    <2>3. RangeRemoved(cells[0], c, r, 0, Infinite)
      BY <1>4, <2>0, <2>1, SeqRmRangeIs
    <2> HIDE DEF c
    <2>4. c \in Good /\ \A i \in Idx : r \notin c.seq[i]
      BY <1>4, <2>1, <2>3, RangeAll
    <2>5. SharedWith(c, d, q, r)
      BY <2>4, ShareIs
    <2> HIDE DEF d
    <2>6. \A x : Follows(cells[0], c, x)
      BY <2>3, RemovedFollows
    <2>7. RightIn(c, Effective[0], q, mem[q])
      <3>1. RightIn(cells[0], Effective[0], q, mem[q]) /\ Follows(cells[0], c, q)
        BY <1>3, <2>1, <2>6
      <3> QED BY <3>1, RightFollows
    <2>8. RightIn(d, Effective[0], r, mem'[r])
      <3>1. \A i \in Idx : r \in d.seq[i] =>
              q \in c.seq[i] /\ d.pos[i] = c.pos[i] /\ d.shift[i] = c.shift[i]
        BY <2>4, <2>5 DEF SharedWith
      <3>2. RightIn(d, Effective[0], r, mem[q])
        BY <2>7, <3>1 DEF RightIn
      <3> QED BY <1>2, <3>2
    <2>9. \A x \in Seqs \ {r} : Follows(cells[0], d, x)
      BY <2>5, <2>6 DEF SharedWith, Follows
    <2>10. RightOf(cells', Effective, mem')
      BY <1>2, <2>1, <2>2, <2>8, <2>9, OneStreamRight
    <2> QED BY <1>1, <2>2, <2>10, CalledRight
  <1> QED BY <1>5, <1>6

\* The sequence that is kept has the right data.
LEMMA KeepRight ==
    ASSUME BooksInv, RightInv, NEW q \in Seqs, KeepSequence(q)
    PROVE  RightNext
  <1> DEFINE s == StreamOf(q)
             d == SeqKeepCells(cells[s], q)
  <1>1. s \in Streams /\ cells[s] \in Good /\ DOMAIN cells = Streams
    BY BooksAre, StreamsAre DEF Caches
  <1>2. /\ cells' = [cells EXCEPT ![s] = d] /\ UNCHANGED <<data, sc_info, saved>>
        /\ plan' = plan /\ Called
    BY DEF KeepSequence, Becomes
  <1>3. mem' = [r \in Seqs |-> IF r # q /\ StreamOf(r) = s THEN <<>> ELSE mem[r]]
    BY DEF KeepSequence
  <1>s. StreamOf(q) = s
    OBVIOUS
  <1> HIDE DEF s
  <1>4. KeptOnly(cells[s], d, q)
    BY <1>1, KeepIs
  <1> HIDE DEF d
  <1>5. ASSUME NEW r \in Seqs
        PROVE  RightIn(cells'[StreamOf(r)], Effective[StreamOf(r)], r, mem'[r])
    <2>1. RightIn(cells[StreamOf(r)], Effective[StreamOf(r)], r, mem[r])
      BY RightsAre
    <2>2. StreamOf(r) \in Streams
      BY StreamsAre
    <2>3. CASE StreamOf(r) # s
      BY <1>1, <1>2, <1>3, <2>1, <2>2, <2>3
    <2>4. CASE r = q
      <3>1. mem'[r] = mem[r] /\ cells'[StreamOf(r)] = d
        BY <1>s, <1>1, <1>2, <1>3, <2>4
      <3>2. Follows(cells[s], d, r)
        BY <1>4, <2>4 DEF KeptOnly, Follows
      <3>3. RightIn(cells[s], Effective[s], r, mem[r])
        BY <1>s, <2>1, <2>4
      <3>4. RightIn(d, Effective[s], r, mem[r])
        BY <3>2, <3>3, RightFollows
      <3> QED BY <1>s, <2>4, <3>1, <3>4
    <2>5. CASE StreamOf(r) = s /\ r # q
      <3>1. cells'[StreamOf(r)] = d /\ \A i \in Idx : r \notin d.seq[i]
        BY <1>1, <1>2, <1>4, <2>5 DEF KeptOnly
      <3> QED BY <3>1 DEF RightIn
    <2> QED BY <2>3, <2>4, <2>5
  <1>6. RightOf(cells', Effective, mem')
    BY <1>5 DEF RightOf
  <1> QED BY <1>2, <1>6, CalledRight

\* Nothing has wrong data in a cleared cache.
LEMMA ClearRight ==
    ASSUME BooksInv, RightInv, Clear
    PROVE  RightNext
  <1>1. /\ cells' = [s \in Streams |-> EmptyCells] /\ UNCHANGED <<data, sc_info, saved>>
        /\ plan' = plan /\ Called
    BY DEF Clear
  <1>2. \A q \in Seqs : cells'[StreamOf(q)] = EmptyCells
    BY <1>1, StreamsAre
  <1>3. \A q \in Seqs : RightIn(EmptyCells, Effective[StreamOf(q)], q, mem'[q])
    BY DEF RightIn, EmptyCells
  <1>4. RightOf(cells', Effective, mem')
    BY <1>2, <1>3 DEF RightOf
  <1> QED BY <1>1, <1>4, CalledRight

\* When nothing is pending the buffers are what they will be, and no cell is to
\* be shifted.
LEMMA CalmIs ==
    ASSUME BooksInv, RightInv, Calm(sc_info, cells)
    PROVE  /\ Effective = data /\ sc_info = <<>>
           /\ \A s \in Streams : /\ cells[s].has_shift = FALSE
                                 /\ \A i \in Idx : cells[s].shift[i] = 0
           /\ \A s \in Streams : data[s] \in [Idx -> Value]
  <1>1. Effective = data /\ sc_info = <<>> /\ data \in Buffers
    BY RightsAre DEF Calm
  <1>2. ASSUME NEW s \in Streams, NEW i \in Idx PROVE cells[s].shift[i] = 0
    <2>1. cells[s] \in Good /\ cells[s].has_shift = FALSE
      BY BooksAre DEF Calm
    <2> QED BY <2>1, GoodType
  <1> QED BY <1>1, <1>2 DEF Calm, Buffers

\* Nothing is pending when there is no copy and no shift.
LEMMA NotPending ==
    ASSUME BooksInv, ~ Pending
    PROVE  Calm(sc_info, cells)
  <1>1. \A s \in Streams : cells[s].has_shift \in BOOLEAN
    BY BooksAre DEF Good, CellsType
  <1> QED BY <1>1 DEF Pending, Calm

\* A cell without a shift holds its token at its position.
LEMMA RightNow ==
    ASSUME NEW c, NEW dt, NEW q, NEW m, RightIn(c, dt, q, m), NEW i \in Idx, q \in c.seq[i],
           dt[i] \in Value, c.shift[i] = 0
    PROVE  dt[i].tok = m[c.pos[i] + 1] /\ dt[i].at = c.pos[i]
  <1>1. dt[i].tok = m[c.pos[i] + 1] /\ dt[i].at + c.shift[i] = c.pos[i]
    BY DEF RightIn
  <1>2. PICK a \in Int : a = dt[i].at
    BY DEF Value
  <1>3. a + 0 = c.pos[i] /\ a + 0 = a
    BY <1>1, <1>2
  <1> QED BY <1>1, <1>2, <1>3

\* A sequence that is saved while nothing is pending is saved with its data.
LEMMA SaveRight ==
    ASSUME BooksInv, RightInv, ~ EagerState, NEW q \in Seqs, SaveSequence(q)
    PROVE  RightNext
  <1> DEFINE s == StreamOf(q)
             K == {i \in Idx : q \in cells[s].seq[i]}
             own == Ordered(K)
             img == [mem |-> mem[q],
                     cells |-> [j \in DOMAIN own |->
                         [pos |-> cells[s].pos[own[j]], kv |-> data[s][own[j]]]]]
  <1>1. saved' = {img} /\ UNCHANGED <<cells, data, sc_info, mem>> /\ plan' = plan /\ plan = <<>> /\ ~ Pending
    BY DEF SaveSequence, Called
  <1>2. s \in Streams /\ RightIn(cells[s], Effective[s], q, mem[q])
    BY RightsAre, StreamsAre
  <1> HIDE DEF s
  <1>3. /\ Effective = data /\ \A i \in Idx : cells[s].shift[i] = 0 /\ data[s][i] \in Value
    BY <1>1, <1>2, NotPending, CalmIs
  <1>4. Lists(own, K)
    BY OwnCells
  <1>5. ASSUME NEW i \in K
        PROVE  /\ data[s][i] \in Value /\ data[s][i].tok = mem[q][cells[s].pos[i] + 1]
               /\ data[s][i].at = cells[s].pos[i]
    <2>1. RightIn(cells[s], data[s], q, mem[q]) /\ i \in Idx /\ q \in cells[s].seq[i]
      BY <1>2, <1>3
    <2> QED BY <1>3, <2>1, RightNow
  <1> HIDE DEF own, K
  <1> DEFINE n == Cardinality(K)
  <1>6. n \in Nat /\ DOMAIN own = 1 .. n /\ \A j \in 1 .. n : own[j] \in K
    BY <1>4 DEF Lists
  <1> HIDE DEF n
  <1>7. ImageRight(img)
    <2> DEFINE ic == [j \in 1 .. n |-> [pos |-> cells[s].pos[own[j]], kv |-> data[s][own[j]]]]
    <2>1. img.mem = mem[q] /\ img.cells = ic
      BY <1>6
    <2>2. Len(ic) = n /\ \A j \in 1 .. n : ic[j].pos = cells[s].pos[own[j]] /\ ic[j].kv = data[s][own[j]]
      BY <1>6
    <2> HIDE DEF img, ic
    <2>3. ASSUME NEW j \in 1 .. n
          PROVE  ic[j].kv \in Value /\ ic[j].kv.tok = mem[q][ic[j].pos + 1] /\ ic[j].kv.at = ic[j].pos
      <3>1. own[j] \in K
        BY <1>6
      <3> QED BY <1>5, <2>2, <3>1
    <2> QED BY <2>1, <2>2, <2>3 DEF ImageRight
  <1> HIDE DEF img
  <1>8. RightOf(cells', CopiesDone(sc_info', data'), mem')
    BY <1>1, RightsAre DEF RightOf, Effective
  <1>9. data' \in Buffers /\ sc_info' \in Seq(Streams \X Streams) /\ plan' = <<>>
    BY <1>1, RightsAre
  <1> QED BY <1>1, <1>7, <1>8, <1>9 DEF RightNext, Rights

\* What is written into a slot.
IsWritten(w, dt, idxs, values, n) ==
    /\ w \in [Idx -> Value]
    /\ \A j \in 1 .. n : w[idxs[j]] = values[j]
    /\ \A i \in Idx : (\A j \in 1 .. n : idxs[j] # i) => w[i] = dt[i]

\* What is in a buffer after values were written.
LEMMA WrittenIs ==
    ASSUME NEW n \in Nat, NEW idxs, SlotOf(idxs, n), NEW dt \in [Idx -> Value],
           NEW values, \A j \in 1 .. n : values[j] \in Value
    PROVE  IsWritten(Written(dt, idxs, values), dt, idxs, values, n)
  <1> DEFINE w == Written(dt, idxs, values)
             at(i) == CHOOSE j \in DOMAIN idxs : idxs[j] = i
  <1>1. DOMAIN idxs = 1 .. n /\ \A j \in 1 .. n : idxs[j] \in Idx
    BY DEF SlotOf
  <1>2. \A i : (i \in Range(idxs)) <=> (\E j \in 1 .. n : idxs[j] = i)
    BY <1>1 DEF Range
  <1>3. ASSUME NEW j \in 1 .. n PROVE at(idxs[j]) = j
    <2>1. at(idxs[j]) \in 1 .. n /\ idxs[at(idxs[j])] = idxs[j]
      BY <1>1
    <2> HIDE DEF at
    <2> QED BY <2>1 DEF SlotOf
  <1>4. w = [i \in Idx |-> IF i \in Range(idxs) THEN values[at(i)] ELSE dt[i]]
    BY DEF Written
  <1> HIDE DEF w, at
  <1>5. \A j \in 1 .. n : w[idxs[j]] = values[j]
    BY <1>1, <1>2, <1>3, <1>4
  <1>6. \A i \in Idx : (\A j \in 1 .. n : idxs[j] # i) => w[i] = dt[i]
    BY <1>2, <1>4
  <1>7. \A i \in Idx : w[i] \in Value
    <2> TAKE i \in Idx
    <2>1. CASE \E j \in 1 .. n : idxs[j] = i
      BY <1>5, <2>1
    <2>2. CASE \A j \in 1 .. n : idxs[j] # i
      BY <1>6, <2>2
    <2> QED BY <2>1, <2>2
  <1>8. w \in [Idx -> Value]
    BY <1>4, <1>7
  <1> QED BY <1>5, <1>6, <1>8 DEF IsWritten, w

\* The tokens of the cells of q are the same in t; values are those of its tokens.
SameIn(c, q, t, m) == \A i \in Idx : q \in c.seq[i] => t[c.pos[i] + 1] = m[c.pos[i] + 1]
ValuesOf(values, toks, n, q, t) ==
    \A j \in 1 .. n : toks[j].seq = q =>
        values[j].tok = t[toks[j].pos + 1] /\ values[j].at = toks[j].pos

\* A slot is filled: what the sequence has in it was written with it, the rest is
\* as it was.
LEMMA RefillRight ==
    ASSUME NEW c \in Good, c.has_shift = FALSE, NEW n \in Nat, NEW idxs, SlotOf(idxs, n),
           NEW toks \in [1 .. n -> Token], NEW d, RefilledSome(c, d, idxs, toks, n),
           NEW dt, NEW w, NEW values, IsWritten(w, dt, idxs, values, n),
           NEW q, NEW m, RightIn(c, dt, q, m), NEW t,
           SameIn(c, q, t, m), ValuesOf(values, toks, n, q, t)
    PROVE  RightIn(d, w, q, t)
  <1>1. PICK rm : Refilled(c, d, idxs, toks, n, rm)
    BY DEF RefilledSome
  <1>2. d \in Good /\ d.has_shift = FALSE
    BY <1>1 DEF Refilled
  <1> SUFFICES ASSUME NEW i \in Idx, q \in d.seq[i]
               PROVE  w[i].tok = t[d.pos[i] + 1] /\ w[i].at + d.shift[i] = d.pos[i]
    BY DEF RightIn
  <1>3. d.shift[i] = 0 /\ c.shift[i] = 0
    BY <1>2, GoodType
  <1>4. CASE \E j \in 1 .. n : idxs[j] = i
    <2>1. PICK j \in 1 .. n : idxs[j] = i
      BY <1>4
    <2>2. LeftAt(d, i, toks[j].pos, {toks[j].seq}, rm)
      BY <1>1, <2>1 DEF Refilled
    <2>3. toks[j].seq = q /\ d.pos[i] = toks[j].pos
      BY <2>2 DEF LeftAt
    <2>4. w[i] = values[j]
      BY <2>1 DEF IsWritten
    <2>5. w[i].tok = t[d.pos[i] + 1] /\ w[i].at = d.pos[i]
      BY <2>3, <2>4 DEF ValuesOf
    <2>6. d.pos[i] \in Int
      BY <1>2, GoodType
    <2> QED BY <1>3, <2>5, <2>6
  <1>5. CASE \A j \in 1 .. n : idxs[j] # i
    <2>1. LeftAt(d, i, c.pos[i], c.seq[i], rm)
      BY <1>1, <1>5 DEF Refilled
    <2>2. q \in c.seq[i] /\ d.pos[i] = c.pos[i]
      BY <2>1 DEF LeftAt
    <2>3. w[i] = dt[i]
      BY <1>5 DEF IsWritten
    <2>4. dt[i].tok = m[c.pos[i] + 1] /\ dt[i].at + c.shift[i] = c.pos[i]
      BY <2>2 DEF RightIn
    <2>5. t[c.pos[i] + 1] = m[c.pos[i] + 1]
      BY <2>2 DEF SameIn
    <2> QED BY <1>3, <2>2, <2>3, <2>4, <2>5
  <1> QED BY <1>4, <1>5

\* What was saved while nothing was pending is right where it is restored.
LEMMA RestoreRight ==
    ASSUME BooksInv, RightInv, ~ EagerState, NEW r \in Seqs, RestoreSequence(r)
    PROVE  RightNext
  <1>1. PICK c, n, idxs : Restores(r, c, n, idxs)
    BY RestoreDoes
  <1>2. saved' = saved /\ saved # {} /\ plan' = <<>> /\ sc_info' = sc_info /\ ~ Pending
    BY DEF RestoreSequence, Called
  <1> DEFINE s == StreamOf(r)
             toks == ImageToks(r)
             img == ImageOf
             values == [j \in 1 .. n |-> img.cells[j].kv]
  <1>3. s \in Streams /\ cells[s] \in Good /\ DOMAIN mem = Seqs /\ DOMAIN cells = Streams
    BY BooksAre, StreamsAre DEF Mems, Caches
  <1>4. RangeRemoved(cells[s], c, r, 0, Infinite) /\ n = Len(img.cells)
    BY <1>1 DEF Restores
  <1>5. /\ img \in saved /\ n \in Nat /\ toks \in [1 .. n -> Token]
        /\ \A j \in 1 .. n : toks[j].seq = r /\ toks[j].pos = img.cells[j].pos
    BY <1>2, <1>4, ImageIs
  <1>6. \/ /\ SlotOf(idxs, n)
           /\ \E d : RefilledSome(c, d, idxs, toks, n) /\ cells' = [cells EXCEPT ![s] = d]
           /\ mem' = [mem EXCEPT ![r] = img.mem]
           /\ data' = [data EXCEPT ![s] = Written(@, idxs, values)]
        \/ /\ cells' = [cells EXCEPT ![s] = c]
           /\ mem' = [mem EXCEPT ![r] = <<>>]
           /\ data' = data
    BY <1>1 DEF Restores
  <1>s. StreamOf(r) = s
    OBVIOUS
  <1>v. \A j \in 1 .. n : values[j] = img.cells[j].kv
    OBVIOUS
  <1> HIDE DEF s, toks, img, values
  <1>7. c \in Good /\ (\A i \in Idx : r \notin c.seq[i]) /\ c.has_shift = cells[s].has_shift
    BY <1>3, <1>4, RangeAll DEF RangeRemoved
  <1>8. \A x : Follows(cells[s], c, x)
    BY <1>4, RemovedFollows
  <1>9. Effective = data /\ sc_info = <<>> /\ cells[s].has_shift = FALSE /\ data[s] \in [Idx -> Value]
    BY <1>2, <1>3, NotPending, CalmIs
  <1>10. ImageRight(img) /\ data \in Buffers
    BY <1>5, RightsAre
  <1>11. ASSUME NEW x \in Seqs
         PROVE  /\ StreamOf(x) \in Streams
                /\ RightIn(cells[StreamOf(x)], data[StreamOf(x)], x, mem[x])
    BY <1>9, StreamsAre, RightsAre
  <1>12. SUFFICES data' \in Buffers /\ RightOf(cells', data', mem')
    <2>1. CopiesDone(sc_info', data') = data' /\ sc_info' \in Seq(Streams \X Streams)
      BY <1>2, <1>9, <1>12, NoCopies, RightsAre
    <2> QED BY <1>2, <1>12, <2>1, RightsAre DEF RightNext, Rights
  <1>13. CASE /\ SlotOf(idxs, n)
              /\ \E d : RefilledSome(c, d, idxs, toks, n) /\ cells' = [cells EXCEPT ![s] = d]
              /\ mem' = [mem EXCEPT ![r] = img.mem]
              /\ data' = [data EXCEPT ![s] = Written(@, idxs, values)]
    <2>1. PICK d : RefilledSome(c, d, idxs, toks, n) /\ cells' = [cells EXCEPT ![s] = d]
      BY <1>13
    <2>2. mem'[r] = img.mem /\ \A x \in Seqs \ {r} : mem'[x] = mem[x]
      BY <1>3, <1>13
    <2> DEFINE w == Written(data[s], idxs, values)
               dt == data[s]
    <2>3. \A j \in 1 .. n : /\ values[j] \in Value /\ values[j].at = img.cells[j].pos
                            /\ values[j].tok = img.mem[img.cells[j].pos + 1]
      BY <1>4, <1>10, <1>v DEF ImageRight
    <2>4. IsWritten(w, dt, idxs, values, n)
      BY <1>5, <1>9, <1>13, <2>3, WrittenIs
    <2>5. DOMAIN data = Streams
      BY <1>10 DEF Buffers
    <2>6. data' = [data EXCEPT ![s] = w]
      BY <1>13
    <2>7. data[s] = dt
      OBVIOUS
    <2> HIDE DEF w, dt
    <2>8. data' \in Buffers
      BY <1>10, <2>4, <2>6 DEF IsWritten, Buffers
    <2>9. ASSUME NEW x \in Seqs PROVE RightIn(cells'[StreamOf(x)], data'[StreamOf(x)], x, mem'[x])
      <3>1. CASE StreamOf(x) # s
        <4>1. cells'[StreamOf(x)] = cells[StreamOf(x)] /\ data'[StreamOf(x)] = data[StreamOf(x)]
          BY <1>3, <1>11, <2>1, <2>5, <2>6, <3>1
        <4>2. mem'[x] = mem[x]
          BY <1>s, <2>2, <3>1
        <4> QED BY <1>11, <4>1, <4>2
      <3>2. CASE StreamOf(x) = s
        <4> DEFINE t == mem'[x]
                   m == mem[x]
        <4>1. RightIn(cells[s], dt, x, m) /\ Follows(cells[s], c, x)
          BY <1>8, <1>11, <2>7, <3>2
        <4>2. RightIn(c, dt, x, m)
          BY <4>1, RightFollows
        <4>3. cells'[StreamOf(x)] = d /\ data'[StreamOf(x)] = w
          BY <1>3, <2>1, <2>5, <2>6, <3>2
        <4>4. SameIn(c, x, t, m)
          BY <1>7, <2>2 DEF SameIn
        <4>5. ValuesOf(values, toks, n, x, t)
          BY <1>5, <2>2, <2>3 DEF ValuesOf
        <4>6. c.has_shift = FALSE
          BY <1>7, <1>9
        <4> HIDE DEF t, m
        <4>7. /\ c \in Good /\ n \in Nat /\ SlotOf(idxs, n) /\ toks \in [1 .. n -> Token]
              /\ RefilledSome(c, d, idxs, toks, n)
          BY <1>5, <1>7, <1>13, <2>1
        <4>8. RightIn(d, w, x, t)
          BY <2>4, <4>2, <4>4, <4>5, <4>6, <4>7, RefillRight
        <4> QED BY <4>3, <4>8 DEF t
      <3> QED BY <3>1, <3>2
    <2> QED BY <2>8, <2>9 DEF RightOf
  <1>14. CASE /\ cells' = [cells EXCEPT ![s] = c] /\ mem' = [mem EXCEPT ![r] = <<>>]
              /\ data' = data
    <2>1. mem'[r] = <<>> /\ \A x \in Seqs \ {r} : mem'[x] = mem[x]
      BY <1>3, <1>14
    <2>2. RightIn(c, Effective[s], r, mem'[r])
      BY <1>7 DEF RightIn
    <2>3. RightOf(cells', Effective, mem')
      BY <1>s, <1>3, <1>8, <1>14, <2>1, <2>2, OneStreamRight
    <2> QED BY <1>9, <1>10, <1>14, <2>3
  <1> QED BY <1>6, <1>13, <1>14

\* The update moves the data to where the positions are; the shifts are then done.
LEMMA DecodeRight ==
    ASSUME BooksInv, RightInv, NEW batch \in Batches, Decode(batch)
    PROVE  RightNext
  <1>1. UNCHANGED <<mode, saved, mem>>
    BY DEF Decode
  <1>2. CASE \E a : Plans(a)
    <2>1. PICK a : Plans(a)
      BY <1>2
    <2>2. /\ cells' = a.cells /\ data' = UpdatedData /\ sc_info' = <<>>
          /\ \A s \in Streams : Within(a.cells[s], Unpended[s])
      BY <2>1 DEF Plans, Answered, Back
    <2>3. UpdatedData = [s \in Streams |-> Shifted(cells[s], Effective[s])]
      BY DEF UpdatedData, AfterCopies, Effective, CopiesDone
    <2>4. ASSUME NEW s \in Streams, NEW i \in Idx
          PROVE  /\ data'[s][i] \in Value /\ data'[s][i].tok = Effective[s][i].tok
                 /\ cells[s].pos[i] # -1 => data'[s][i].at = Effective[s][i].at + cells[s].shift[i]
      <3>1. Effective[s][i] \in Value /\ cells[s] \in Good
        BY RightsAre, BooksAre
      <3>2. cells[s].shift[i] \in Int
        BY <3>1, GoodType
      <3>3. PICK e : e = Effective[s][i]
        OBVIOUS
      <3>4. PICK k : k = cells[s].shift[i]
        OBVIOUS
      <3>5. e \in Value /\ k \in Int
        BY <3>1, <3>2, <3>3, <3>4
      <3>6. data'[s][i] = [e EXCEPT !.at = IF cells[s].pos[i] = -1 THEN @ ELSE @ + k]
        BY <2>2, <2>3, <3>3, <3>4 DEF Shifted
      <3> QED BY <3>3, <3>4, <3>5, <3>6 DEF Value
    <2>5. ASSUME NEW s \in Streams PROVE Unshifted(cells[s], Unpended[s])
      <3>1. cells[s] \in Good
        BY BooksAre
      <3> QED BY <3>1, ResetShiftIs DEF Unpended
    <2>6. data' \in Buffers
      <3>1. data' = [s \in Streams |-> [i \in Idx |-> data'[s][i]]]
        BY <2>2, <2>3 DEF Shifted
      <3> QED BY <2>4, <3>1 DEF Buffers
    <2>7. \A s \in Streams : cells'[s].has_shift = FALSE /\ cells'[s] \in Good
      BY <2>2, <2>5 DEF Within, Unshifted
    <2>8. ASSUME NEW q \in Seqs PROVE RightIn(cells'[StreamOf(q)], data'[StreamOf(q)], q, mem'[q])
      <3> DEFINE s == StreamOf(q)
      <3>1. s \in Streams
        BY StreamsAre
      <3>2. RightIn(cells[s], Effective[s], q, mem[q])
        BY RightsAre
      <3> HIDE DEF s
      <3>3. ASSUME NEW i \in Idx, q \in cells'[s].seq[i]
            PROVE  data'[s][i].tok = mem[q][cells'[s].pos[i] + 1]
                   /\ data'[s][i].at + cells'[s].shift[i] = cells'[s].pos[i]
        <4>1. q \in cells[s].seq[i] /\ cells'[s].pos[i] = cells[s].pos[i]
          BY <2>2, <2>5, <3>1, <3>3 DEF Within, Unshifted
        <4>2. cells'[s].shift[i] = 0
          BY <2>7, <3>1, GoodType
        <4>3. cells[s].pos[i] # -1 /\ cells[s].pos[i] \in Int
          <5>1. cells[s] \in Good
            BY <3>1, BooksAre
          <5> QED BY <4>1, <5>1, GoodType
        <4>4. Effective[s][i].tok = mem[q][cells[s].pos[i] + 1]
              /\ Effective[s][i].at + cells[s].shift[i] = cells[s].pos[i]
          BY <3>2, <4>1 DEF RightIn
        <4>5. data'[s][i].tok = mem[q][cells[s].pos[i] + 1] /\ data'[s][i].at = cells[s].pos[i]
          BY <2>4, <3>1, <4>3, <4>4
        <4> QED BY <4>1, <4>2, <4>3, <4>5
      <3>4. RightIn(cells'[s], data'[s], q, mem[q])
        BY <3>3 DEF RightIn
      <3> QED BY <1>1, <3>4 DEF s
    <2>9. RightOf(cells', CopiesDone(sc_info', data'), mem')
      <3>1. CopiesDone(sc_info', data') = data'
        BY <2>2, <2>6, NoCopies
      <3> QED BY <2>8, <3>1 DEF RightOf
    <2>10. sc_info' \in Seq(Streams \X Streams) /\ Calm(sc_info', cells')
      BY <2>2, <2>7 DEF Calm
    <2> QED BY <1>1, <2>6, <2>9, <2>10, RightsAre DEF RightNext, Rights
  <1>3. CASE ret' = "invalid" /\ UNCHANGED <<data, sc_info, cells, heads, plan>>
    BY <1>1, <1>3 DEF RightNext, RightInv, Rights, RightOf
  <1> QED BY <1>2, <1>3, DecodeDoes

\* The tokens of q in a micro batch, and what is written for them.
LEMMA ComputedIs ==
    ASSUME NEW ub, IsUBatch(ub), NEW b \in Lens, NEW c \in Lens, Takes(ub, b, c), NEW q \in Seqs,
           NEW s \in DOMAIN ub, b[q] = Len(mem[q]), NEW t, Longer(q, c[q] - Len(mem[q]), t)
    PROVE  /\ ValuesOf(Computed(ub[s]), ub[s], Len(ub[s]), q, t)
           /\ \A j \in 1 .. Len(ub[s]) : Computed(ub[s])[j] \in Value
  <1> DEFINE toks == ub[s]
             n == Len(toks)
             v == Computed(toks)
  <1>1. n \in Nat \ {0} /\ toks \in [1 .. n -> Token]
    BY UBatchType
  <1>2. \A j \in 1 .. n : b[toks[j].seq] <= toks[j].pos /\ toks[j].pos < c[toks[j].seq]
    BY DEF Takes
  <1>3. DOMAIN toks = 1 .. n /\ \A j \in 1 .. n : toks[j] \in Token
    BY <1>1
  <1>4. \A j \in 1 .. n : v[j] = [tok |-> <<toks[j].seq, toks[j].pos>>, at |-> toks[j].pos]
    BY <1>3 DEF Computed
  <1> HIDE DEF v, n, toks
  <1>5. \A j \in 1 .. n : toks[j].seq \in Int /\ toks[j].pos \in Int
    <2> TAKE j \in 1 .. n
    <2>1. toks[j] \in Token
      BY <1>3
    <2>2. toks[j].seq \in Seqs /\ toks[j].pos \in 0 .. MaxLen - 1
      BY <2>1 DEF Token
    <2>3. Seqs \subseteq Int /\ 0 .. MaxLen - 1 \subseteq Int
      BY Finite, Consts
    <2> HIDE DEF toks
    <2>4. toks[j].seq \in Int
      BY <2>2, <2>3
    <2>5. toks[j].pos \in Int
      BY <2>2, <2>3
    <2> QED BY <2>4, <2>5
  <1>6. ASSUME NEW j \in 1 .. n PROVE v[j] \in Value
    <2>1. PICK x \in Int, y \in Int : x = toks[j].seq /\ y = toks[j].pos
      BY <1>5
    <2>2. v[j] = [tok |-> <<x, y>>, at |-> y]
      BY <1>4, <2>1
    <2> QED BY <2>2 DEF Value
  <1>7. ASSUME NEW j \in 1 .. n, toks[j].seq = q
        PROVE  v[j].tok = t[toks[j].pos + 1] /\ v[j].at = toks[j].pos
    <2>1. PICK p \in Int : p = toks[j].pos
      BY <1>5
    <2>2. PICK l : l = Len(mem[q])
      OBVIOUS
    <2>3. PICK k : k = c[q]
      OBVIOUS
    <2>4. l \in Int /\ k \in Int /\ l <= p /\ p < k
      <3>1. b[q] \in Int /\ c[q] \in Int
        BY Consts DEF Lens
      <3> QED BY <1>2, <1>7, <2>1, <2>2, <2>3, <3>1
    <2>5. \A x \in l + 1 .. l + (k - l) : t[x] = <<q, x - 1>>
      BY <2>2, <2>3 DEF Longer
    <2>6. p + 1 \in l + 1 .. l + (k - l) /\ (p + 1) - 1 = p
      BY <2>1, <2>4
    <2>7. t[p + 1] = <<q, p>>
      BY <2>5, <2>6
    <2>8. v[j] = [tok |-> <<q, p>>, at |-> p]
      BY <1>4, <1>7, <2>1
    <2> QED BY <2>1, <2>7, <2>8
  <1>8. ValuesOf(v, toks, n, q, t)
    BY <1>7 DEF ValuesOf
  <1> QED BY <1>6, <1>8 DEF v, toks, n

\* A sequence grows: the tokens of its cells stay.
LEMMA LongerSame ==
    ASSUME NEW c \in Good, NEW q, NEW n, NEW t, Longer(q, n, t), Held(c, q, Len(mem[q])),
           Len(mem[q]) \in Nat
    PROVE  SameIn(c, q, t, mem[q])
  <1> SUFFICES ASSUME NEW i \in Idx, q \in c.seq[i] PROVE t[c.pos[i] + 1] = mem[q][c.pos[i] + 1]
    BY DEF SameIn
  <1>1. c.pos[i] \in -1 .. MaxLen - 1 /\ c.pos[i] # -1 /\ c.pos[i] < Len(mem[q])
    BY GoodType DEF Held
  <1>2. c.pos[i] + 1 \in 1 .. Len(mem[q])
    BY <1>1, Consts
  <1> QED BY <1>2 DEF Longer

\* The graph writes the tokens of the micro batch into their cells.
LEMMA ComputeRight ==
    ASSUME BooksInv, ExtraInv, RightInv, ComputeUBatch
    PROVE  RightNext
  <1>1. PICK ub, slot, c : Computes(ub, slot, c)
    BY ComputeDoes
  <1>2. UNCHANGED <<mode, saved, sc_info>> /\ plan # <<>>
    BY DEF ComputeUBatch
  <1>3. /\ FirstOfPlan(ub, slot, c) /\ AppliedTo(cells, cells', ub, slot) /\ LensOf(mem') = c
        /\ data' = WrittenData(ub, slot)
        /\ \A q \in Seqs : Longer(q, c[q] - Len(mem[q]), mem'[q])
    BY <1>1 DEF Computes
  <1>4. c \in Lens /\ IsUBatch(ub) /\ IsSlot(slot, ub) /\ Takes(ub, LensOf(mem), c)
    BY <1>3 DEF FirstOfPlan
  <1>5. LensOf(mem) \in Lens /\ \A q \in Seqs : LensOf(mem)[q] = Len(mem[q]) /\ Len(mem[q]) \in Nat
    BY BooksAre
  <1>6. /\ Effective = data /\ sc_info = <<>>
        /\ \A s \in Streams : cells[s].has_shift = FALSE /\ data[s] \in [Idx -> Value]
    BY <1>2, RightsAre, CalmIs
  <1>7. ASSUME NEW s \in Streams
        PROVE  data'[s] = IF s \in DOMAIN ub THEN Written(data[s], slot[s], Computed(ub[s])) ELSE data[s]
    BY <1>3 DEF WrittenData
  <1>8. ASSUME NEW s \in DOMAIN ub
        PROVE  /\ s \in Streams /\ Len(ub[s]) \in Nat /\ ub[s] \in [1 .. Len(ub[s]) -> Token]
               /\ SlotOf(slot[s], Len(ub[s]))
               /\ RefilledSome(cells[s], cells'[s], slot[s], ub[s], Len(ub[s]))
               /\ IsWritten(data'[s], data[s], slot[s], Computed(ub[s]), Len(ub[s]))
    <2>1. s \in Streams /\ Len(ub[s]) \in Nat /\ ub[s] \in [1 .. Len(ub[s]) -> Token]
      BY <1>4, UBatchType
    <2>2. SlotOf(slot[s], Len(ub[s])) /\ RefilledSome(cells[s], cells'[s], slot[s], ub[s], Len(ub[s]))
      BY <1>3, <1>4 DEF IsSlot, AppliedTo
    <2>3. PICK q \in Seqs : TRUE
      BY Consts DEF Seqs
    <2>4. \A j \in 1 .. Len(ub[s]) : Computed(ub[s])[j] \in Value
      BY <1>3, <1>4, <1>5, <2>3, ComputedIs
    <2>5. data'[s] = Written(data[s], slot[s], Computed(ub[s]))
      BY <1>7, <2>1
    <2> DEFINE dt == data[s]
               idxs == slot[s]
               values == Computed(ub[s])
               n == Len(ub[s])
    <2>6. n \in Nat /\ SlotOf(idxs, n) /\ dt \in [Idx -> Value] /\ \A j \in 1 .. n : values[j] \in Value
      BY <1>6, <2>1, <2>2, <2>4
    <2> HIDE DEF dt, idxs, values, n
    <2>7. IsWritten(Written(dt, idxs, values), dt, idxs, values, n)
      BY <2>6, WrittenIs
    <2> QED BY <2>1, <2>2, <2>5, <2>7 DEF dt, idxs, values, n
  <1>9. data' \in Buffers
    <2>1. data' = [s \in Streams |-> data'[s]]
      BY <1>3 DEF WrittenData
    <2>2. ASSUME NEW s \in Streams PROVE data'[s] \in [Idx -> Value]
      <3>1. CASE s \in DOMAIN ub
        BY <1>8, <3>1 DEF IsWritten
      <3>2. CASE s \notin DOMAIN ub
        BY <1>6, <1>7, <3>2
      <3> QED BY <3>1, <3>2
    <2> QED BY <2>1, <2>2 DEF Buffers
  <1>10. ASSUME NEW q \in Seqs PROVE RightIn(cells'[StreamOf(q)], data'[StreamOf(q)], q, mem'[q])
    <2> DEFINE s == StreamOf(q)
               m == mem[q]
               t == mem'[q]
    <2>1. s \in Streams /\ cells[s] \in Good
      BY BooksAre, StreamsAre
    <2>2. RightIn(cells[s], data[s], q, m)
      BY <1>6, RightsAre
    <2>3. SameIn(cells[s], q, t, m)
      <3>1. Held(cells[s], q, Len(mem[q]))
        BY DEF ExtraInv, ExtraOf
      <3>2. Longer(q, c[q] - Len(mem[q]), t)
        BY <1>3
      <3> HIDE DEF s, t
      <3>3. SameIn(cells[s], q, t, mem[q])
        BY <1>5, <2>1, <3>1, <3>2, LongerSame
      <3> QED BY <3>3
    <2>4. CASE s \in DOMAIN ub
      <3> DEFINE n == Len(ub[s])
                 values == Computed(ub[s])
                 cs == cells[s]
                 ds == cells'[s]
                 dt == data[s]
                 w == data'[s]
                 idxs == slot[s]
                 toks == ub[s]
      <3>1. ValuesOf(values, toks, n, q, t)
        BY <1>3, <1>4, <1>5, <2>4, ComputedIs
      <3>2. /\ n \in Nat /\ toks \in [1 .. n -> Token] /\ SlotOf(idxs, n)
            /\ RefilledSome(cs, ds, idxs, toks, n) /\ IsWritten(w, dt, idxs, values, n)
        BY <1>8, <2>4
      <3>3. cs \in Good /\ cs.has_shift = FALSE /\ RightIn(cs, dt, q, m) /\ SameIn(cs, q, t, m)
        BY <1>6, <2>1, <2>2, <2>3
      <3> HIDE DEF n, values, cs, ds, dt, w, idxs, toks, m, t
      <3>4. RightIn(ds, w, q, t)
        BY <3>1, <3>2, <3>3, RefillRight
      <3> QED BY <3>4 DEF ds, w, t
    <2>5. CASE s \notin DOMAIN ub
      <3>1. cells'[s] = cells[s] /\ data'[s] = data[s]
        BY <1>3, <1>7, <2>1, <2>5 DEF AppliedTo
      <3>2. RightIn(cells[s], data[s], q, t)
        <4> HIDE DEF s, m, t
        <4> QED BY <2>2, <2>3 DEF RightIn, SameIn
      <3> QED BY <3>1, <3>2
    <2> QED BY <2>4, <2>5
  <1>11. Calm(sc_info', cells')
    <2>1. ASSUME NEW s \in Streams PROVE cells'[s].has_shift = FALSE
      <3>1. CASE s \in DOMAIN ub
        BY <1>6, <1>8, <3>1 DEF RefilledSome, Refilled
      <3>2. CASE s \notin DOMAIN ub
        BY <1>3, <1>6, <3>2 DEF AppliedTo
      <3> QED BY <3>1, <3>2
    <2> QED BY <1>2, <1>6, <2>1 DEF Calm
  <1>12. CopiesDone(sc_info', data') = data' /\ sc_info' \in Seq(Streams \X Streams)
    BY <1>2, <1>6, <1>9, NoCopies, RightsAre
  <1>13. RightOf(cells', CopiesDone(sc_info', data'), mem')
    BY <1>10, <1>12 DEF RightOf
  <1> QED BY <1>2, <1>9, <1>11, <1>12, <1>13, RightsAre DEF RightNext, Rights

\* What is left of a sequence after an aborted micro batch was there before it.
LEMMA AbortShrinks ==
    ASSUME BooksInv, NEW ub, NEW slot, NEW c, NEW as, Aborts(ub, slot, c, as), NEW q \in Seqs
    PROVE  /\ Shrinks(cells[StreamOf(q)], cells'[StreamOf(q)], q)
           /\ \A s \in Streams : /\ cells'[s] \in Good
                                 /\ cells'[s].has_shift = cells[s].has_shift
  <1>1. FirstOfPlan(ub, slot, c) /\ AppliedTo(cells, as, ub, slot)
        /\ \A s \in Streams : WithdrawnOf(cells'[s], as[s], LensOf(mem), Own(ub, s))
    BY DEF Aborts
  <1>2. c \in Lens /\ IsUBatch(ub) /\ IsSlot(slot, ub) /\ Takes(ub, LensOf(mem), c)
    BY <1>1 DEF FirstOfPlan
  <1> DEFINE b == LensOf(mem)
  <1>3. b \in Lens
    BY BooksAre
  <1>4. ASSUME NEW s \in Streams
        PROVE  cells'[s] \in Good /\ cells'[s].has_shift = cells[s].has_shift
    <2>1. as[s].has_shift = cells[s].has_shift
      <3>1. CASE s \in DOMAIN ub
        BY <1>1, <3>1 DEF AppliedTo, RefilledSome, Refilled
      <3>2. CASE s \notin DOMAIN ub
        BY <1>1, <3>2 DEF AppliedTo
      <3> QED BY <3>1, <3>2
    <2> QED BY <1>1, <2>1 DEF WithdrawnOf
  <1> DEFINE s == StreamOf(q)
  <1>5. s \in Streams /\ cells[s] \in Good
    BY BooksAre, StreamsAre
  <1>6. WithdrawnOf(cells'[s], as[s], b, Own(ub, s))
    BY <1>1, <1>5
  <1>7. (q \in Own(ub, s)) <=> (PosOf(ub, q) # {})
    BY DEF Own
  <1> HIDE DEF s, b
  <1>8. ASSUME NEW i \in Idx, q \in cells'[s].seq[i]
        PROVE  q \in cells[s].seq[i] /\ cells'[s].pos[i] = cells[s].pos[i]
    <2>1. /\ q \in as[s].seq[i] /\ cells'[s].pos[i] = as[s].pos[i]
          /\ q \in Own(ub, s) => as[s].pos[i] < b[q]
      BY <1>6, <1>8 DEF WithdrawnOf
    <2>2. CASE s \in DOMAIN ub
      <3>1. PICK rm : Refilled(cells[s], as[s], slot[s], ub[s], Len(ub[s]), rm)
        BY <1>1, <2>2 DEF AppliedTo, RefilledSome
      <3>2. ASSUME NEW j \in 1 .. Len(ub[s]), slot[s][j] = i PROVE FALSE
        <4>1. LeftAt(as[s], i, ub[s][j].pos, {ub[s][j].seq}, rm)
          BY <3>1, <3>2 DEF Refilled
        <4>2. ub[s][j].seq = q /\ as[s].pos[i] = ub[s][j].pos
          BY <2>1, <4>1 DEF LeftAt
        <4>3. b[q] <= ub[s][j].pos
          BY <1>2, <2>2, <4>2 DEF Takes, b
        <4>4. ub[s][j] \in Range(ub[s])
          BY <1>2, <2>2, UBatchType DEF Range
        <4>5. ub[s][j].pos \in PosOf(ub, q)
          BY <2>2, <4>2, <4>4 DEF PosOf, Tokens
        <4>6. ub[s][j].pos < b[q]
          BY <1>7, <2>1, <4>2, <4>5
        <4>7. PICK x \in Int, y \in Int : x = b[q] /\ y = ub[s][j].pos
          <5>1. b[q] \in 0 .. MaxLen
            BY <1>3 DEF Lens
          <5>2. ub[s][j].pos \in 0 .. MaxLen - 1
            BY <1>2, <2>2, UBatchType DEF Token
          <5> QED BY <5>1, <5>2, Consts
        <4> QED BY <4>3, <4>6, <4>7
      <3>3. LeftAt(as[s], i, cells[s].pos[i], cells[s].seq[i], rm)
        BY <3>1, <3>2 DEF Refilled
      <3> QED BY <2>1, <3>3 DEF LeftAt
    <2>3. CASE s \notin DOMAIN ub
      BY <1>1, <1>5, <2>1, <2>3 DEF AppliedTo
    <2> QED BY <2>2, <2>3
  <1> QED BY <1>4, <1>8 DEF Shrinks, s

\* Nothing was written for an aborted micro batch, and nothing is pending.
LEMMA AbortRight ==
    ASSUME BooksInv, RightInv, AbortUBatch
    PROVE  RightNext
  <1>1. PICK ub, slot, c, as : Aborts(ub, slot, c, as)
    BY AbortDoes
  <1>2. UNCHANGED <<mode, sc_info, data, saved, mem>> /\ plan # <<>> /\ plan' = <<>>
    BY DEF AbortUBatch
  <1>3. /\ Effective = data /\ sc_info = <<>>
        /\ \A s \in Streams : cells[s].has_shift = FALSE /\ \A i \in Idx : cells[s].shift[i] = 0
    BY <1>2, RightsAre, CalmIs
  <1>4. ASSUME NEW q \in Seqs PROVE RightIn(cells'[StreamOf(q)], data[StreamOf(q)], q, mem[q])
    <2> DEFINE s == StreamOf(q)
               d == cells'[s]
               e == cells[s]
               m == mem[q]
               dt == data[s]
    <2>1. s \in Streams
      BY StreamsAre
    <2>2. Shrinks(e, d, q) /\ d \in Good /\ d.has_shift = FALSE
      BY <1>1, <1>3, <2>1, AbortShrinks
    <2>3. RightIn(e, dt, q, m)
      BY <1>3, RightsAre
    <2>4. \A i \in Idx : e.shift[i] = 0
      BY <1>3, <2>1
    <2> HIDE DEF d, e, m, dt
    <2>5. \A i \in Idx : d.shift[i] = 0
      BY <2>2, GoodType
    <2>6. Follows(e, d, q)
      BY <2>2, <2>4, <2>5 DEF Shrinks, Follows
    <2>7. RightIn(d, dt, q, m)
      BY <2>3, <2>6, RightFollows
    <2> QED BY <2>7 DEF d, m, dt
  <1>5. CopiesDone(sc_info', data') = data'
    BY <1>2, <1>3, RightsAre, NoCopies
  <1>6. RightOf(cells', CopiesDone(sc_info', data'), mem')
    BY <1>2, <1>4, <1>5 DEF RightOf
  <1> QED BY <1>2, <1>6, RightsAre DEF RightNext, Rights

\* The invariant in terms of the next state.
LEMMA RightKept ==
    ASSUME mode' = mode, RightNext
    PROVE  RightInv'
  <1>1. /\ \A q : StreamOf(q)' = StreamOf(q)
        /\ Streams' = Streams /\ Buffers' = Buffers
    BY SameMode DEF Buffers
  <1>2. /\ data' \in Buffers /\ sc_info' \in Seq(Streams \X Streams)
        /\ \A q \in Seqs : RightIn(cells'[StreamOf(q)], CopiesDone(sc_info', data')[StreamOf(q)], q, mem'[q])
        /\ plan' # <<>> => sc_info' = <<>> /\ \A s \in Streams : cells'[s].has_shift = FALSE
        /\ \A img \in saved' : ImageRight(img)
    BY DEF RightNext, Rights, RightOf, Calm
  <1>3. (data \in Buffers /\ sc_info \in Seq(Streams \X Streams))'
    BY <1>1, <1>2
  <1>4. (\A q \in Seqs : RightIn(cells[StreamOf(q)], CopiesDone(sc_info, data)[StreamOf(q)], q, mem[q]))'
    BY <1>1, <1>2
  <1>5. (plan # <<>> => sc_info = <<>> /\ \A s \in Streams : cells[s].has_shift = FALSE)'
    BY <1>1, <1>2
  <1>6. (\A img \in saved : ImageRight(img))'
    BY <1>2
  <1> QED BY <1>3, <1>4, <1>5, <1>6 DEF RightInv, Rights, RightOf, Calm

\* Nothing has wrong data in the beginning.
LEMMA RightInit == Init => RightInv
  <1> SUFFICES ASSUME Init PROVE RightInv
    OBVIOUS
  <1>1. sc_info = <<>> /\ plan = <<>> /\ saved = {}
        /\ \A q \in Seqs : cells[StreamOf(q)] = EmptyCells
    BY StreamsAre DEF Init
  <1>2. data \in Buffers
    BY DEF Init, Buffers, Value, NoToken
  <1>3. CopiesDone(sc_info, data) = data
    BY <1>1, <1>2, NoCopies
  <1>4. \A q \in Seqs : RightIn(cells[StreamOf(q)], data[StreamOf(q)], q, mem[q])
    BY <1>1 DEF RightIn, EmptyCells
  <1> QED BY <1>1, <1>2, <1>3, <1>4 DEF RightInv, Rights, RightOf

\* No step makes data wrong, if nothing is saved or restored while an update is
\* pending.
LEMMA RightStep ==
    ASSUME ~ EagerState
    PROVE  BooksInv /\ ExtraInv /\ RightInv /\ Next => RightInv'
  <1> SUFFICES ASSUME BooksInv, ExtraInv, RightInv, Next PROVE RightNext
    BY RightKept, ModeStays
  <1>1. ASSUME NEW batch \in Batches, Decode(batch) PROVE RightNext
    BY <1>1, DecodeRight
  <1>2. CASE ComputeUBatch
    BY <1>2, ComputeRight
  <1>3. CASE AbortUBatch
    BY <1>3, AbortRight
  <1>4. ASSUME NEW q \in Seqs, NEW p \in 0 .. MaxLen, Truncate(q, p) PROVE RightNext
    BY <1>4, TruncateRight
  <1>5. ASSUME NEW q \in Seqs, NEW to \in 0 .. MaxLen, NEW from \in 0 .. MaxLen,
               NEW n \in 0 .. MaxLen, CutAndShift(q, to, from, n)
        PROVE  RightNext
    BY <1>5, CutRight
  <1>6. ASSUME NEW q \in Seqs, NEW r \in Seqs, CopySequence(q, r) PROVE RightNext
    BY <1>6, CopyRight
  <1>7. ASSUME NEW q \in Seqs, KeepSequence(q) PROVE RightNext
    BY <1>7, KeepRight
  <1>8. ASSUME NEW q \in Seqs, SaveSequence(q) PROVE RightNext
    BY <1>8, SaveRight
  <1>9. ASSUME NEW q \in Seqs, RestoreSequence(q) PROVE RightNext
    BY <1>9, RestoreRight
  <1>10. CASE Clear
    BY <1>10, ClearRight
  <1> QED BY <1>1, <1>2, <1>3, <1>4, <1>5, <1>6, <1>7, <1>8, <1>9, <1>10 DEF Next

\* The data is always right, if nothing is saved or restored while an update is
\* pending.
LEMMA RightAlways ==
    ASSUME ~ EagerState
    PROVE  Spec => []RightInv
  <1>1. RightInv /\ UNCHANGED vars => RightInv'
    <2> SUFFICES ASSUME RightInv, UNCHANGED vars PROVE RightInv'
      OBVIOUS
    <2>1. RightNext /\ mode' = mode
      BY DEF RightInv, RightNext, vars
    <2> QED BY <2>1, RightKept
  <1>2. BooksInv /\ ExtraInv /\ RightInv /\ Next => RightInv'
    BY RightStep
  <1> QED BY RightInit, <1>2, <1>1, BooksAlways, ExtraAlways, PTL DEF Spec

-----------------------------------------------------------------------------
(* With a window: no token that can be seen is missing.                    *)

\* What init_batch() answers when it prepares one micro batch: no plan and the cells
\* as they were, or the slot filled, purged and undone again.
OneAnswer(a, cs) ==
    \/ a.cells = cs /\ a.plan = <<>>
    \/ \E ub, slot, ds :
          /\ a.plan = <<[ub |-> ub, slot |-> slot]>> /\ IsUBatch(ub)
          /\ UsableSlot(cs, slot, ub) /\ AppliedTo(cs, ds, ub, slot)
          /\ AllUndone(ds, a.cells, cs, ub, slot)

\* prepare() for one micro batch: without a slot nothing has changed at all.
LEMMA AnswerOne ==
    ASSUME NEW ubs, UBatches(ubs, 1), NEW cs \in Caches, NEW hs \in Heads,
           NEW p, p = Prepared(cs, hs, ubs)
    PROVE  /\ OneAnswer(Answer(p, ubs), cs)
           /\ p.ok \in BOOLEAN /\ p.cells \in Caches /\ p.heads \in Heads
           /\ ~ p.ok => p.cells = cs
  <1> DEFINE t == Attempts(cs, hs, ubs)
             a == Answer(p, ubs)
  <1>1. DOMAIN ubs = 1 .. 1 /\ IsUBatch(ubs[1])
    BY DEF UBatches
  <1>2. Ready(p, t, cs, hs, ubs, 1)
    BY PreparedIs
  <1> HIDE DEF t
  <1>3. /\ Stages(t, cs, hs, ubs, 1) /\ p.ok = t[2].ok /\ p.ok \in BOOLEAN
        /\ p.slots = [u \in 1 .. 1 |-> t[u + 1].slot] /\ p.heads \in Heads /\ p.cells \in Caches
        /\ p.cells = Restored([cells |-> t[2].cells, heads |-> t[2].heads], t[1], t[2], ubs[1]).cells
    BY <1>2 DEF Ready
  <1>4. /\ a.cells = p.cells
        /\ a.plan = IF p.ok THEN [u \in 1 .. 1 |-> [ub |-> ubs[u], slot |-> p.slots[u]]] ELSE <<>>
    BY <1>1 DEF Answer
  <1> HIDE DEF a
  <1>5. t[1].cells = cs /\ StageStep(t[1], t[2], ubs[1])
    BY <1>3 DEF Stages
  <1>6. CASE p.ok
    <2>1. /\ UsableSlot(cs, t[2].slot, ubs[1]) /\ AppliedTo(cs, t[2].cells, ubs[1], t[2].slot)
      BY <1>3, <1>5, <1>6 DEF StageStep
    <2>2. p.cells = Undone(t[2].cells, cs, ubs[1], t[2].slot)
      BY <1>3, <1>5, <1>6 DEF Restored
    <2>3. t[2].cells \in Caches /\ IsSlot(t[2].slot, ubs[1])
      BY <2>1 DEF AppliedTo, UsableSlot
    <2>4. AllUndone(t[2].cells, p.cells, cs, ubs[1], t[2].slot)
      BY <1>1, <2>2, <2>3, UndoneIs
    <2>5. a.plan = <<[ub |-> ubs[1], slot |-> t[2].slot]>>
      <3>1. p.slots[1] = t[2].slot
        BY <1>3
      <3> QED BY <1>4, <1>6, <3>1
    <2> QED BY <1>1, <1>3, <1>4, <1>6, <2>1, <2>4, <2>5 DEF OneAnswer, a
  <1>7. CASE ~ p.ok
    <2>1. p.cells = cs
      <3>1. p.cells = t[2].cells
        BY <1>3, <1>7 DEF Restored
      <3>2. t[2].cells = cs
        BY <1>3, <1>5, <1>7 DEF StageStep
      <3> QED BY <3>1, <3>2
    <2> QED BY <1>3, <1>4, <1>7, <2>1 DEF OneAnswer, a
  <1> QED BY <1>6, <1>7

\* The length of a sequence.
LEMMA LenIs ==
    ASSUME NEW n \in Nat, NEW S, NEW x \in [1 .. n -> S]
    PROVE  Len(x) = n
  OBVIOUS

\* A split of length one.
LEMMA OneSplit ==
    ASSUME NEW runs, NEW m, NEW lens, IsBatch(runs, m, lens), NEW ubs, NEW n, NEW dn,
           WellSplit(ubs, n, runs, m, dn), Len(ubs) = 1, NEW X, NEW f, ubs = [u \in 1 .. X |-> f[u]]
    PROVE  UBatches(ubs, 1)
  <1>1. n \in Nat /\ DOMAIN ubs = 1 .. n /\ UBatches(ubs, n)
    BY WellSplitIs DEF WellSplit
  <1>2. ubs = [u \in 1 .. n |-> f[u]]
    BY <1>1
  <1>3. Len(ubs) = n
    <2> DEFINE S == {f[u] : u \in 1 .. n}
    <2>1. ubs \in [1 .. n -> S]
      BY <1>2
    <2> HIDE DEF S
    <2> QED BY <1>1, <2>1, LenIs
  <1> QED BY <1>1, <1>3

\* With a window, a batch that is one micro batch either way: the second attempt
\* finds the cells as the first did.
LEMMA InitBatchOne ==
    ASSUME mode = "swa", NEW runs, NEW m, NEW lens, IsBatch(runs, m, lens), OneUBatch(runs),
           NEW cs \in Caches, NEW hs \in Heads
    PROVE  OneAnswer(InitBatch(cs, hs, runs), cs)
  <1> DEFINE ubs == Simple(runs)
             vbs == Equal(runs)
             p == Prepared(cs, hs, ubs)
             r == Prepared(p.cells, p.heads, vbs)
  <1>1. UBatches(ubs, 1)
    <2>1. PICK n, dn : WellSplit(ubs, n, runs, m, dn)
      BY SimpleIs
    <2> DEFINE all == TokensOf(runs)
               X == (Len(all) + UBatch - 1) \div UBatch
               f == [u \in 1 .. X |->
                       [s \in {0} |-> SubSeq(all, (u - 1) * UBatch + 1, Min({u * UBatch, Len(all)}))]]
    <2>2. ubs = f /\ f = [u \in 1 .. X |-> f[u]]
      BY DEF Simple
    <2>3. Len(ubs) = 1
      BY DEF OneUBatch
    <2> HIDE DEF ubs, f, X
    <2>4. ubs = [u \in 1 .. X |-> f[u]]
      BY <2>2
    <2> QED BY <2>1, <2>3, <2>4, OneSplit
  <1>2. UBatches(vbs, 1)
    <2>1. PICK n, dn : WellSplit(vbs, n, runs, m, dn)
      BY EqualIs
    <2> DEFINE done == Splits(runs)
               X == Cardinality({v \in DOMAIN TokensOf(runs) : done[v] # Lengths(runs)})
               f == [u \in 1 .. X |->
                       [s \in {StreamOf(runs[x].seq) : x \in EqualGroup(runs, done[u])} |->
                           Part(runs, s, done[u], done[u + 1])]]
    <2>2. vbs = f /\ f = [u \in 1 .. X |-> f[u]]
      BY DEF Equal
    <2>3. Len(vbs) = 1
      BY DEF OneUBatch
    <2> HIDE DEF vbs, f, X
    <2>4. vbs = [u \in 1 .. X |-> f[u]]
      BY <2>2
    <2> QED BY <2>1, <2>3, <2>4, OneSplit
  <1>3. InitBatch(cs, hs, runs) = IF p.ok THEN Answer(p, ubs) ELSE Answer(r, vbs)
    BY DEF InitBatch, SecondAttempt, FirstSplit
  <1>4. p = Prepared(cs, hs, ubs) /\ r = Prepared(p.cells, p.heads, vbs)
    OBVIOUS
  <1> HIDE DEF p, r, ubs, vbs
  <1>5. /\ OneAnswer(Answer(p, ubs), cs) /\ p.ok \in BOOLEAN /\ p.cells \in Caches /\ p.heads \in Heads
        /\ ~ p.ok => p.cells = cs
    BY <1>1, <1>4, AnswerOne
  <1>6. OneAnswer(Answer(r, vbs), p.cells)
    BY <1>2, <1>4, <1>5, AnswerOne
  <1>7. CASE p.ok
    BY <1>3, <1>5, <1>7
  <1>8. CASE ~ p.ok
    BY <1>3, <1>5, <1>6, <1>8
  <1> QED BY <1>5, <1>7, <1>8

\* The inductive invariant behind NoGaps and Intact when there is a window.  The
\* positions of q that the next token can see, and those behind one that a cell
\* outside S has, are in a cell outside T.  S and T are the cells of the slot that
\* waits for its tokens, if there is one: what these hold, no token can see.
HasAt(c, q, p, S) == \E i \in Idx \ S : q \in c.seq[i] /\ c.pos[i] = p
Reach(c, q, p, S) == \E i \in Idx \ S : q \in c.seq[i] /\ c.pos[i] <= p
Window(c, q, l, S, T) ==
    \A p \in 0 .. l - 1 : l - p < NSwa \/ Reach(c, q, p, S) => HasAt(c, q, p, T)
Passed(c, b, S) ==
    \A i \in S : \/ c.pos[i] = -1
                 \/ \E r \in Seqs : c.seq[i] = {r} /\ c.pos[i] + NSwa <= b[r]
SlotSet(idxs, n) == {idxs[j] : j \in 1 .. n}

\* A cell that find_slot() may use with a window has passed out of it.
LEMMA UsablePassed ==
    ASSUME mode = "swa", NEW c \in Good, NEW b \in Lens, \A q \in Seqs : Held(c, q, b[q]),
           NEW n \in Nat, NEW idxs, SlotOf(idxs, n), \A j \in 1 .. n : idxs[j] \in Usable(c)
    PROVE  Passed(c, b, SlotSet(idxs, n))
  <1> SUFFICES ASSUME NEW j \in 1 .. n, NEW i, i = idxs[j], c.pos[i] # -1
               PROVE  \E r \in Seqs : c.seq[i] = {r} /\ c.pos[i] + NSwa <= b[r]
    BY DEF Passed, SlotSet
  <1>1. i \in Idx /\ CanUse(c, i)
    BY DEF Usable
  <1>2. PICK r \in Seqs : c.seq[i] = {r} /\ Masked(c.pos[i], SeqPosMax(c, r) + 1)
    BY <1>1 DEF CanUse
  <1>3. SeqPosMax(c, r) \in 0 .. MaxLen /\ \E x \in Idx : r \in c.seq[x] /\ c.pos[x] = SeqPosMax(c, r)
    BY <1>1, <1>2, LastIs
  <1>4. SeqPosMax(c, r) < b[r]
    BY <1>2, <1>3 DEF Held
  <1>5. b[r] \in 0 .. MaxLen
    BY <1>2 DEF Lens
  <1>6. PICK x \in Int, y \in Int, z \in Int : x = SeqPosMax(c, r) /\ y = c.pos[i] /\ z = b[r]
    BY <1>1, <1>3, <1>5, GoodType, Consts
  <1>7. Masked(y, x + 1)
    BY <1>2, <1>6
  <1>8. y + NSwa <= z
    BY <1>4, <1>6, <1>7, Consts DEF Masked
  <1> QED BY <1>2, <1>6, <1>8

\* What holds of a cell of a slot that q has: it is out of q's window.
LEMMA PassedIs ==
    ASSUME NEW c, NEW b, NEW S, Passed(c, b, S), NEW i \in S, NEW q, q \in c.seq[i], c.pos[i] # -1
    PROVE  c.seq[i] = {q} /\ c.pos[i] + NSwa <= b[q]
  BY DEF Passed

\* Filling a slot, and purging what is behind the tokens it overwrote, keeps the
\* windows in the other cells.
LEMMA FillWindow ==
    ASSUME NEW c \in Good, NEW n \in Nat, NEW idxs, SlotOf(idxs, n), NEW toks,
           NEW d, RefilledSome(c, d, idxs, toks, n), NEW b, NEW q \in Seqs, b[q] \in Nat,
           NEW S, S = SlotSet(idxs, n), Passed(c, b, S), Window(c, q, b[q], S, {})
    PROVE  Window(d, q, b[q], S, S)
  <1>1. PICK rm : Refilled(c, d, idxs, toks, n, rm)
    BY DEF RefilledSome
  <1>2. \A i \in Idx \ S : LeftAt(d, i, c.pos[i], c.seq[i], rm)
    BY <1>1 DEF Refilled, SlotSet
  <1>3. rm[q] \in -1 .. MaxLen - 1 /\ Overwritten(c, idxs, n, rm) /\ S \subseteq Idx
    BY <1>1 DEF Refilled, SlotOf, SlotSet
  <1>4. PICK l \in Nat, k \in Int : l = b[q] /\ k = rm[q]
    BY <1>3, Consts
  <1>5. \A i \in Idx : c.pos[i] \in Int /\ (q \in c.seq[i] => c.pos[i] # -1)
    BY GoodType, Consts
  <1> SUFFICES ASSUME NEW p \in 0 .. l - 1, l - p < NSwa \/ Reach(d, q, p, S)
               PROVE  HasAt(d, q, p, S)
    BY <1>4 DEF Window
  <1>6. ASSUME NEW i \in Idx \ S, q \in c.seq[i], c.pos[i] = p, k < p
        PROVE  HasAt(d, q, p, S)
    <2>1. q \in d.seq[i] /\ d.pos[i] = p
      BY <1>2, <1>4, <1>6 DEF LeftAt
    <2> QED BY <2>1, <1>6 DEF HasAt
  <1>7. CASE l - p < NSwa
    <2>1. PICK i \in Idx : q \in c.seq[i] /\ c.pos[i] = p
      BY <1>4, <1>7 DEF Window, HasAt
    <2>2. i \notin S
      <3> SUFFICES ASSUME i \in S PROVE FALSE
        OBVIOUS
      <3>1. c.pos[i] + NSwa <= b[q]
        BY <1>5, <2>1, PassedIs
      <3> QED BY <1>4, <1>7, <2>1, <3>1, Consts
    <2>3. k < p
      <3>1. CASE k = -1
        BY <3>1
      <3>2. CASE k # -1
        <4>1. PICK j \in 1 .. n : q \in c.seq[idxs[j]] /\ c.pos[idxs[j]] = rm[q]
          BY <1>3, <1>4, <3>2 DEF Overwritten
        <4>2. idxs[j] \in S /\ idxs[j] \in Idx
          BY <1>3 DEF SlotSet
        <4>3. c.pos[idxs[j]] + NSwa <= b[q]
          BY <1>5, <4>1, <4>2, PassedIs
        <4>4. k + NSwa <= l
          BY <1>4, <4>1, <4>3
        <4> QED BY <1>7, <4>4, Consts
      <3> QED BY <3>1, <3>2
    <2> QED BY <1>6, <2>1, <2>2, <2>3
  <1>8. CASE Reach(d, q, p, S)
    <2>1. PICK x \in Idx \ S : q \in d.seq[x] /\ d.pos[x] <= p
      BY <1>8 DEF Reach
    <2>2. q \in c.seq[x] /\ d.pos[x] = c.pos[x] /\ k < c.pos[x]
      BY <1>2, <1>4, <2>1 DEF LeftAt
    <2>3. c.pos[x] <= p /\ k < p
      <3>1. PICK y \in Int : y = c.pos[x]
        BY <1>5
      <3> QED BY <2>1, <2>2, <3>1
    <2>4. Reach(c, q, p, S)
      BY <2>1, <2>2, <2>3 DEF Reach
    <2>5. PICK i \in Idx : q \in c.seq[i] /\ c.pos[i] = p
      BY <1>4, <2>4 DEF Window, HasAt
    <2>6. i \notin S
      <3> SUFFICES ASSUME i \in S PROVE FALSE
        OBVIOUS
      <3>1. PICK j \in 1 .. n : i = idxs[j]
        BY DEF SlotSet
      <3>2. c.seq[i] = {q}
        BY <1>5, <2>5, PassedIs
      <3>3. rm[q] >= c.pos[idxs[j]]
        BY <1>3, <3>1, <3>2 DEF Overwritten
      <3>4. k >= p
        BY <1>4, <2>5, <3>1, <3>3
      <3> QED BY <2>3, <3>4
    <2> QED BY <1>6, <2>3, <2>5, <2>6
  <1> QED BY <1>7, <1>8

\* A cell of the slot has its token, or its token's sequence was purged past it;
\* a token behind everything q had stays.
LEMMA TokenPlaced ==
    ASSUME NEW c \in Good, NEW n \in Nat, NEW idxs, SlotOf(idxs, n), NEW toks \in [1 .. n -> Token],
           NEW d, RefilledSome(c, d, idxs, toks, n), NEW q \in Seqs, NEW l \in Nat, Held(c, q, l),
           NEW j \in 1 .. n
    PROVE  /\ q \in d.seq[idxs[j]] => toks[j].seq = q /\ d.pos[idxs[j]] = toks[j].pos
           /\ toks[j].seq = q /\ l <= toks[j].pos
                => q \in d.seq[idxs[j]] /\ d.pos[idxs[j]] = toks[j].pos
  <1>1. PICK rm : Refilled(c, d, idxs, toks, n, rm)
    BY DEF RefilledSome
  <1>2. /\ LeftAt(d, idxs[j], toks[j].pos, {toks[j].seq}, rm) /\ Overwritten(c, idxs, n, rm)
        /\ rm[q] \in -1 .. MaxLen - 1 /\ idxs \in [1 .. n -> Idx]
    BY <1>1 DEF Refilled, SlotOf
  <1>3. PICK k \in Int, p \in Int : k = rm[q] /\ p = toks[j].pos /\ p # -1
    <2>1. toks[j] \in Token
      OBVIOUS
    <2>2. toks[j].pos \in 0 .. MaxLen - 1
      BY <2>1 DEF Token
    <2> QED BY <1>2, <2>2, Consts
  <1>4. k < l
    <2>1. CASE k = -1
      BY <2>1
    <2>2. CASE k # -1
      <3>1. PICK x \in 1 .. n : q \in c.seq[idxs[x]] /\ c.pos[idxs[x]] = rm[q]
        BY <1>2, <1>3, <2>2 DEF Overwritten
      <3>2. c.pos[idxs[x]] < l
        BY <1>2, <3>1 DEF Held
      <3> QED BY <1>3, <3>1, <3>2
    <2> QED BY <2>1, <2>2
  <1>5. toks[j].seq = q /\ l <= p => k < p
    BY <1>4
  <1> QED BY <1>2, <1>3, <1>5 DEF LeftAt

\* The windows after the tokens up to k were added.
LEMMA GrownWindow ==
    ASSUME NEW c \in Good, NEW n \in Nat, NEW idxs, SlotOf(idxs, n), NEW toks \in [1 .. n -> Token],
           NEW d \in Good, RefilledSome(c, d, idxs, toks, n), NEW q \in Seqs, NEW l \in Nat, Held(c, q, l),
           NEW k \in Nat, Fits(toks, n, q, l, k),
           \A p \in l .. k - 1 : \E j \in 1 .. n : toks[j].seq = q /\ toks[j].pos = p,
           NEW S, S = SlotSet(idxs, n), Window(d, q, l, S, S)
    PROVE  Window(d, q, k, {}, {})
  <1> SUFFICES ASSUME NEW p \in 0 .. k - 1, k - p < NSwa \/ Reach(d, q, p, {})
               PROVE  HasAt(d, q, p, {})
    BY DEF Window
  <1>1. l <= k /\ \A j \in 1 .. n : toks[j].seq = q => l <= toks[j].pos
    BY DEF Fits
  <1>2. CASE l <= p
    <2>1. p \in l .. k - 1
      BY <1>2
    <2>2. PICK j \in 1 .. n : toks[j].seq = q /\ toks[j].pos = p
      BY <2>1
    <2>3. q \in d.seq[idxs[j]] /\ d.pos[idxs[j]] = p
      BY <1>2, <2>2, TokenPlaced
    <2>4. idxs[j] \in Idx
      BY DEF SlotOf
    <2> QED BY <2>3, <2>4 DEF HasAt
  <1>3. CASE ~ (l <= p)
    <2>1. p \in 0 .. l - 1
      BY <1>3
    <2>2. k - p < NSwa => l - p < NSwa
      BY <1>1, Consts
    <2>3. Reach(d, q, p, {}) => Reach(d, q, p, S)
      <3> SUFFICES ASSUME NEW x \in Idx, q \in d.seq[x], d.pos[x] <= p PROVE x \notin S
        BY DEF Reach
      <3> SUFFICES ASSUME NEW j \in 1 .. n, x = idxs[j] PROVE FALSE
        BY DEF SlotSet
      <3>1. toks[j].seq = q /\ d.pos[x] = toks[j].pos
        BY TokenPlaced
      <3>2. l <= d.pos[x]
        BY <1>1, <3>1
      <3>3. d.pos[x] \in -1 .. MaxLen - 1
        BY GoodType
      <3> QED BY <1>3, <3>2, <3>3, Consts
    <2>4. HasAt(d, q, p, S)
      BY <2>1, <2>2, <2>3 DEF Window
    <2> QED BY <2>4 DEF HasAt
  <1> QED BY <1>2, <1>3

PlanSet(pl) == IF pl = <<>> THEN {} ELSE SlotSet(Head(pl).slot[0], Len(Head(pl).ub[0]))
ImageWindow(img) ==
    \A p \in 0 .. Len(img.mem) - 1 :
        (Len(img.mem) - p < NSwa \/ \E j \in 1 .. Len(img.cells) : img.cells[j].pos <= p)
          => \E j \in 1 .. Len(img.cells) : img.cells[j].pos = p
Windowed(c, b, S) == \A q \in Seqs : Window(c, q, b[q], S, S)
Windows(cs, mm, pl, sv) ==
    /\ Windowed(cs[0], LensOf(mm), PlanSet(pl))
    /\ pl # <<>> => Len(pl) = 1 /\ Passed(cs[0], LensOf(mm), PlanSet(pl))
    /\ \A img \in sv : ImageWindow(img)
WindowInv == mode = "swa" /\ ~ Lookahead => Windows(cells, mem, plan, saved)
WindowNext == Windows(cells', mem', plan', saved')

\* Without a pending plan no cell is left out.
LEMMA NoPlanSet == PlanSet(<<>>) = {}
  BY DEF PlanSet

\* With a window there is one stream.
LEMMA SwaStream ==
    ASSUME mode = "swa"
    PROVE  Streams = {0} /\ \A q : StreamOf(q) = 0
  BY DEF Streams, StreamOf

\* What the invariant says, part by part.
LEMMA WindowIs ==
    ASSUME BooksInv, ExtraInv, WindowInv, mode = "swa", ~ Lookahead
    PROVE  /\ Windowed(cells[0], LensOf(mem), PlanSet(plan))
           /\ plan # <<>> => Len(plan) = 1 /\ Passed(cells[0], LensOf(mem), PlanSet(plan))
           /\ \A img \in saved : ImageWindow(img)
           /\ cells[0] \in Good /\ LensOf(mem) \in Lens
           /\ \A q \in Seqs : LensOf(mem)[q] = Len(mem[q]) /\ LensOf(mem)[q] \in Nat
                              /\ Held(cells[0], q, LensOf(mem)[q])
  <1>1. /\ cells[0] \in Good /\ LensOf(mem) \in Lens
        /\ \A q \in Seqs : LensOf(mem)[q] = Len(mem[q]) /\ LensOf(mem)[q] \in Nat
    BY SwaStream, BooksAre
  <1>2. \A q \in Seqs : Held(cells[0], q, LensOf(mem)[q])
    BY <1>1, SwaStream DEF ExtraInv, ExtraOf
  <1> QED BY <1>1, <1>2 DEF WindowInv, Windows

\* Fewer cells to start from and more to find.
LEMMA WindowWeaker ==
    ASSUME NEW c, NEW q, NEW l, NEW S, NEW T, Window(c, q, l, T, T), T \in {S, {}}
    PROVE  Window(c, q, l, S, {})
  BY DEF Window, HasAt, Reach

\* Where positions and sequences are the same, so are the windows.
SamePlaces(c, d) == \A i \in Idx : d.pos[i] = c.pos[i] /\ d.seq[i] = c.seq[i]
\* Shifts and counts do not matter to a window.
LEMMA WindowSame ==
    ASSUME NEW c, NEW d, SamePlaces(c, d), NEW b, NEW S, Windowed(c, b, S)
    PROVE  Windowed(d, b, S)
  <1> SUFFICES ASSUME NEW q \in Seqs PROVE Window(d, q, b[q], S, S)
    BY DEF Windowed
  <1>1. Window(c, q, b[q], S, S)
    BY DEF Windowed
  <1>2. \A p : (HasAt(c, q, p, S) <=> HasAt(d, q, p, S)) /\ (Reach(c, q, p, S) <=> Reach(d, q, p, S))
    BY DEF SamePlaces, HasAt, Reach
  <1> QED BY <1>1, <1>2 DEF Window

\* A filled slot that is undone: the windows in the other cells stay, and what the
\* slot's cells hold has passed out of its window as before.
LEMMA PreparedWindow ==
    ASSUME mode = "swa", NEW c \in Good, NEW b \in Lens, \A q \in Seqs : Held(c, q, b[q]),
           Windowed(c, b, {}),
           NEW n \in Nat, NEW idxs, SlotOf(idxs, n), \A j \in 1 .. n : idxs[j] \in Usable(c),
           NEW toks, NEW d, RefilledSome(c, d, idxs, toks, n), NEW e, UndoneTo(d, e, c, idxs, n),
           NEW S, S = SlotSet(idxs, n)
    PROVE  Windowed(e, b, S) /\ Passed(e, b, S)
  <1>1. Passed(c, b, S)
    BY UsablePassed
  <1>2. \A i \in Idx \ S : e.pos[i] = d.pos[i] /\ e.seq[i] = d.seq[i]
    BY DEF UndoneTo, SlotSet, At
  <1>3. \A i \in S : e.pos[i] = c.pos[i] /\ e.seq[i] = c.seq[i]
    BY DEF UndoneTo, SlotSet, At
  <1>4. ASSUME NEW q \in Seqs PROVE Window(e, q, b[q], S, S)
    <2>1. b[q] \in Nat
      BY Consts DEF Lens
    <2>2. Window(c, q, b[q], S, {})
      BY WindowWeaker DEF Windowed
    <2>3. Window(d, q, b[q], S, S)
      BY <1>1, <2>1, <2>2, FillWindow
    <2>4. \A p : (HasAt(d, q, p, S) <=> HasAt(e, q, p, S)) /\ (Reach(d, q, p, S) <=> Reach(e, q, p, S))
      BY <1>2 DEF HasAt, Reach
    <2> QED BY <2>3, <2>4 DEF Window
  <1>5. Passed(e, b, S)
    BY <1>1, <1>3 DEF Passed
  <1> QED BY <1>4, <1>5 DEF Windowed

\* What decode() of a batch does with a window, when it is one micro batch.
LEMMA DecodeOne ==
    ASSUME BooksInv, mode = "swa", ~ Lookahead, NEW batch \in Batches, Decode(batch)
    PROVE  \/ \E a : cells' = a.cells /\ plan' = a.plan /\ OneAnswer(a, Unpended)
           \/ UNCHANGED <<cells, plan>>
  <1> DEFINE ib == InitBatch([s \in Streams |-> ResetShift(cells[s])], heads, batch)
  <1>1. /\ \A k \in DOMAIN batch : Last(batch[k].toks).pos < MaxLen
        /\ OneUBatch(batch)
    BY DEF Decode
  <1>2. \/ cells' = ib.cells /\ plan' = ib.plan
        \/ UNCHANGED <<cells, plan>>
    BY Zenon DEF Decode
  <1>3. ib = InitBatch(Unpended, heads, batch)
    BY DEF Unpended
  <1> HIDE DEF ib
  <1>4. PICK m : IsBatch(batch, m, LensOf(mem))
    BY <1>1, BooksAre, BatchIs
  <1>5. OneAnswer(InitBatch(Unpended, heads, batch), Unpended)
    BY <1>1, <1>4, BooksAre, UnpendedIs, InitBatchOne
  <1>6. OneAnswer(ib, Unpended)
    BY <1>3, <1>5
  <1> QED BY <1>2, <1>6

\* Looking for the slot of a batch keeps every window.
LEMMA DecodeWindow ==
    ASSUME BooksInv, ExtraInv, WindowInv, mode = "swa", ~ Lookahead,
           NEW batch \in Batches, Decode(batch)
    PROVE  WindowNext
  <1>1. UNCHANGED <<mode, saved, mem>> /\ plan = <<>>
    BY DEF Decode, Called
  <1> DEFINE b == LensOf(mem)
             c == Unpended[0]
  <1>2. /\ Windowed(cells[0], b, {}) /\ cells[0] \in Good /\ b \in Lens
        /\ \A q \in Seqs : Held(cells[0], q, b[q])
        /\ \A img \in saved : ImageWindow(img)
    BY <1>1, WindowIs, NoPlanSet
  <1>3. c \in Good /\ SamePlaces(cells[0], c)
    <2>1. c = ResetShift(cells[0])
      BY SwaStream DEF Unpended
    <2>2. Unshifted(cells[0], ResetShift(cells[0]))
      BY <1>2, ResetShiftIs
    <2> QED BY <2>1, <2>2 DEF Unshifted, SamePlaces
  <1> HIDE DEF c
  <1>4. Windowed(c, b, {})
    BY <1>2, <1>3, WindowSame
  <1>5. \A q \in Seqs : Held(c, q, b[q])
    BY <1>2, <1>3 DEF Held, SamePlaces
  <1> SUFFICES /\ Windowed(cells'[0], b, PlanSet(plan'))
               /\ plan' # <<>> => Len(plan') = 1 /\ Passed(cells'[0], b, PlanSet(plan'))
    BY <1>1, <1>2 DEF WindowNext, Windows
  <1>6. CASE UNCHANGED <<cells, plan>>
    BY <1>1, <1>2, <1>6, NoPlanSet
  <1>7. CASE \E a : cells' = a.cells /\ plan' = a.plan /\ OneAnswer(a, Unpended)
    <2>1. PICK a : cells' = a.cells /\ plan' = a.plan /\ OneAnswer(a, Unpended)
      BY <1>7
    <2>2. CASE a.cells = Unpended /\ a.plan = <<>>
      BY <1>4, <2>1, <2>2, NoPlanSet DEF c
    <2>3. CASE \E ub, slot, ds :
                  /\ a.plan = <<[ub |-> ub, slot |-> slot]>> /\ IsUBatch(ub)
                  /\ UsableSlot(Unpended, slot, ub) /\ AppliedTo(Unpended, ds, ub, slot)
                  /\ AllUndone(ds, a.cells, Unpended, ub, slot)
      <3>1. PICK ub, slot, ds :
                  /\ a.plan = <<[ub |-> ub, slot |-> slot]>> /\ IsUBatch(ub)
                  /\ UsableSlot(Unpended, slot, ub) /\ AppliedTo(Unpended, ds, ub, slot)
                  /\ AllUndone(ds, a.cells, Unpended, ub, slot)
        BY <2>3
      <3>2. 0 \in DOMAIN ub
        BY <3>1, SwaStream DEF IsUBatch
      <3> DEFINE n == Len(ub[0])
                 idxs == slot[0]
                 e == cells'[0]
                 S == SlotSet(idxs, n)
      <3>3. n \in Nat
        BY <3>1, <3>2, UBatchType
      <3>4. SlotOf(idxs, n) /\ \A j \in 1 .. n : idxs[j] \in Usable(c)
        BY <3>1, <3>2 DEF UsableSlot, IsSlot, c
      <3>5. RefilledSome(c, ds[0], idxs, ub[0], n) /\ UndoneTo(ds[0], e, c, idxs, n)
        BY <2>1, <3>1, <3>2 DEF AppliedTo, AllUndone, c
      <3>6. plan' = <<[ub |-> ub, slot |-> slot]>>
        BY <2>1, <3>1
      <3>7. Len(plan') = 1 /\ PlanSet(plan') = S
        BY <3>6 DEF PlanSet
      <3>8. S = SlotSet(idxs, n)
        OBVIOUS
      <3> HIDE DEF n, idxs, e, S, b
      <3>9. Windowed(e, b, S) /\ Passed(e, b, S)
        BY <1>2, <1>3, <1>4, <1>5, <3>3, <3>4, <3>5, <3>8, PreparedWindow DEF b
      <3> QED BY <3>7, <3>9 DEF e
    <2> QED BY <2>1, <2>2, <2>3 DEF OneAnswer
  <1> QED BY <1>6, <1>7, DecodeOne

\* Nothing is left behind the only element.
LEMMA TailOne ==
    ASSUME NEW W, NEW p \in Seq(W), Len(p) = 1
    PROVE  Tail(p) = <<>>
  <1> DEFINE t == Tail(p)
             e == <<>>
  <1>1. t \in Seq(W) /\ Len(t) = 0 /\ e \in Seq(W) /\ Len(e) = 0
    OBVIOUS
  <1> HIDE DEF t, e
  <1>2. \A j \in 1 .. Len(t) : t[j] = e[j]
    BY <1>1
  <1>3. t = e
    BY <1>1, <1>2, SameSeq
  <1> QED BY <1>3 DEF t, e

\* With a window and one micro batch there is one slot, in the one stream.
LEMMA OnlyUBatch ==
    ASSUME BooksInv, ExtraInv, WindowInv, mode = "swa", ~ Lookahead,
           NEW ub, NEW slot, NEW c, FirstOfPlan(ub, slot, c),
           NEW ds, AppliedTo(cells, ds, ub, slot)
    PROVE  /\ Tail(plan) = <<>> /\ 0 \in DOMAIN ub
           /\ Len(ub[0]) \in Nat /\ ub[0] \in [1 .. Len(ub[0]) -> Token]
           /\ SlotOf(slot[0], Len(ub[0])) /\ ds[0] \in Good
           /\ RefilledSome(cells[0], ds[0], slot[0], ub[0], Len(ub[0]))
           /\ PlanSet(plan) = SlotSet(slot[0], Len(ub[0]))
           /\ \A q \in Seqs : Window(ds[0], q, LensOf(mem)[q], PlanSet(plan), PlanSet(plan))
  <1>1. /\ plan # <<>> /\ ub = Head(plan).ub /\ slot = Head(plan).slot
        /\ IsUBatch(ub) /\ IsSlot(slot, ub)
    BY DEF FirstOfPlan
  <1> DEFINE b == LensOf(mem)
             S == PlanSet(plan)
             n == Len(ub[0])
             idxs == slot[0]
             cs == cells[0]
             d == ds[0]
  <1>2. /\ Windowed(cs, b, S) /\ Len(plan) = 1 /\ Passed(cs, b, S) /\ cs \in Good
        /\ \A q \in Seqs : b[q] \in Nat
    BY <1>1, WindowIs
  <1>3. Tail(plan) = <<>>
    <2>1. PICK W : plan \in Seq(W)
      BY BooksAre DEF PlanFor, PlanOf
    <2> QED BY <1>2, <2>1, TailOne
  <1>4. 0 \in DOMAIN ub /\ d \in Good
    BY <1>1, SwaStream DEF IsUBatch, AppliedTo, Caches
  <1>5. n \in Nat /\ ub[0] \in [1 .. n -> Token] /\ SlotOf(idxs, n)
    BY <1>1, <1>4, UBatchType DEF IsSlot
  <1>6. RefilledSome(cs, d, idxs, ub[0], n)
    BY <1>4 DEF AppliedTo
  <1>7. S = SlotSet(idxs, n)
    BY <1>1 DEF PlanSet
  <1> HIDE DEF b, S, n, idxs, cs, d
  <1>8. ASSUME NEW q \in Seqs PROVE Window(d, q, b[q], S, S)
    <2>1. Window(cs, q, b[q], S, {})
      BY <1>2, WindowWeaker DEF Windowed
    <2> QED BY <1>2, <1>5, <1>6, <1>7, <2>1, FillWindow
  <1> QED BY <1>3, <1>4, <1>5, <1>6, <1>7, <1>8 DEF b, S, n, idxs, cs, d

\* The tokens of a micro batch reach from where the sequence ends to its new end.
LEMMA ComputeWindow ==
    ASSUME BooksInv, ExtraInv, WindowInv, mode = "swa", ~ Lookahead, ComputeUBatch
    PROVE  WindowNext
  <1>1. PICK ub, slot, c : Computes(ub, slot, c)
    BY ComputeDoes
  <1>2. UNCHANGED <<mode, saved>>
    BY DEF ComputeUBatch
  <1>3. /\ FirstOfPlan(ub, slot, c) /\ AppliedTo(cells, cells', ub, slot) /\ LensOf(mem') = c
        /\ plan' = Tail(plan)
    BY <1>1 DEF Computes
  <1>4. c \in Lens /\ IsUBatch(ub) /\ Takes(ub, LensOf(mem), c)
    BY <1>3 DEF FirstOfPlan
  <1> DEFINE b == LensOf(mem)
             S == PlanSet(plan)
             n == Len(ub[0])
             idxs == slot[0]
             toks == ub[0]
             cs == cells[0]
             d == cells'[0]
  <1>5. /\ Tail(plan) = <<>> /\ 0 \in DOMAIN ub /\ n \in Nat /\ toks \in [1 .. n -> Token]
        /\ SlotOf(idxs, n) /\ d \in Good /\ RefilledSome(cs, d, idxs, toks, n)
        /\ S = SlotSet(idxs, n) /\ \A q \in Seqs : Window(d, q, b[q], S, S)
    BY <1>3, OnlyUBatch
  <1>6. /\ cs \in Good /\ \A q \in Seqs : b[q] \in Nat /\ Held(cs, q, b[q])
        /\ b \in Lens /\ \A img \in saved : ImageWindow(img)
    BY WindowIs
  <1>7. ASSUME NEW q \in Seqs PROVE Window(d, q, c[q], {}, {})
    <2>1. Fits(toks, n, q, b[q], c[q])
      BY <1>4, <1>5, <1>6, TakesFits
    <2>2. \A p \in b[q] .. c[q] - 1 : \E j \in 1 .. n : toks[j].seq = q /\ toks[j].pos = p
      BY <1>4, <1>5, SwaStream DEF Takes
    <2>3. c[q] \in Nat
      BY <1>4, Consts DEF Lens
    <2> HIDE DEF b, S, n, idxs, cs, d, toks
    <2> QED BY <1>5, <1>6, <2>1, <2>2, <2>3, GrownWindow
  <1> HIDE DEF b, S, n, idxs, cs, toks
  <1>8. plan' = <<>> /\ PlanSet(plan') = {}
    BY <1>3, <1>5, NoPlanSet
  <1>9. Windowed(cells'[0], LensOf(mem'), PlanSet(plan'))
    BY <1>3, <1>7, <1>8 DEF Windowed
  <1> QED BY <1>2, <1>6, <1>8, <1>9 DEF WindowNext, Windows

\* The tokens of an aborted micro batch leave, the ones before them stay.
LEMMA AbortWindow ==
    ASSUME BooksInv, ExtraInv, WindowInv, mode = "swa", ~ Lookahead, AbortUBatch
    PROVE  WindowNext
  <1>1. PICK ub, slot, c, as : Aborts(ub, slot, c, as)
    BY AbortDoes
  <1>2. UNCHANGED <<mode, saved, mem>> /\ plan' = <<>>
    BY DEF AbortUBatch
  <1>3. /\ FirstOfPlan(ub, slot, c) /\ AppliedTo(cells, as, ub, slot)
        /\ \A s \in Streams : WithdrawnOf(cells'[s], as[s], LensOf(mem), Own(ub, s))
    BY <1>1 DEF Aborts
  <1>4. c \in Lens /\ IsUBatch(ub) /\ Takes(ub, LensOf(mem), c)
    BY <1>3 DEF FirstOfPlan
  <1> DEFINE b == LensOf(mem)
             S == PlanSet(plan)
             n == Len(ub[0])
             idxs == slot[0]
             toks == ub[0]
             cs == cells[0]
             d == as[0]
             e == cells'[0]
  <1>5. /\ 0 \in DOMAIN ub /\ n \in Nat /\ toks \in [1 .. n -> Token]
        /\ SlotOf(idxs, n) /\ d \in Good /\ RefilledSome(cs, d, idxs, toks, n)
        /\ S = SlotSet(idxs, n) /\ \A q \in Seqs : Window(d, q, b[q], S, S)
    BY <1>3, OnlyUBatch
  <1>6. /\ cs \in Good /\ \A q \in Seqs : b[q] \in Nat /\ Held(cs, q, b[q])
        /\ b \in Lens /\ \A img \in saved : ImageWindow(img)
    BY WindowIs
  <1>7. WithdrawnOf(e, d, b, Own(ub, 0))
    BY <1>3, SwaStream
  <1>8. ASSUME NEW q \in Seqs PROVE Window(e, q, b[q], {}, {})
    <2>1. \A j \in 1 .. n : toks[j].seq = q => toks[j].pos \in PosOf(ub, q) /\ b[q] <= toks[j].pos
      <3> SUFFICES ASSUME NEW j \in 1 .. n, toks[j].seq = q
                   PROVE  toks[j].pos \in PosOf(ub, q) /\ b[q] <= toks[j].pos
        OBVIOUS
      <3>1. toks[j] \in Range(ub[0])
        BY <1>5 DEF Range
      <3> QED BY <1>4, <1>5, <3>1 DEF PosOf, Tokens, Takes
    <2>2. PosOf(ub, q) # {} => q \in Own(ub, 0)
      BY SwaStream DEF Own
    <2>3. Held(cs, q, b[q]) /\ b[q] \in Nat
      BY <1>6
    <2>4. Window(d, q, b[q], S, S)
      BY <1>5
    <2>5. \A i \in Idx : e.pos[i] \in -1 .. MaxLen - 1
      BY <1>7, GoodType DEF WithdrawnOf
    <2> HIDE DEF b, S, n, idxs, cs, d, e, toks
    <2>6. ASSUME NEW i \in Idx, q \in e.seq[i]
          PROVE  q \in d.seq[i] /\ e.pos[i] = d.pos[i] /\ (q \in Own(ub, 0) => d.pos[i] < b[q])
      BY <1>7, <2>6 DEF WithdrawnOf
    <2>7. ASSUME NEW i \in Idx, q \in e.seq[i] PROVE i \notin S
      <3> SUFFICES ASSUME NEW j \in 1 .. n, i = idxs[j] PROVE FALSE
        BY <1>5 DEF SlotSet
      <3>1. toks[j].seq = q /\ d.pos[i] = toks[j].pos
        BY <1>5, <1>6, <2>3, <2>6, <2>7, TokenPlaced
      <3>2. q \in Own(ub, 0) /\ b[q] <= toks[j].pos
        BY <2>1, <2>2, <3>1
      <3>3. d.pos[i] < b[q] /\ d.pos[i] \in -1 .. MaxLen - 1
        BY <2>5, <2>6, <2>7, <3>2
      <3> QED BY <2>3, <3>1, <3>2, <3>3, Consts
    <2>8. ASSUME NEW i \in Idx, q \in d.seq[i], d.pos[i] < b[q]
          PROVE  q \in e.seq[i] /\ e.pos[i] = d.pos[i]
      BY <1>7, <2>8 DEF WithdrawnOf
    <2>9. PICK l \in Nat : l = b[q]
      BY <2>3
    <2> SUFFICES ASSUME NEW p \in 0 .. l - 1, l - p < NSwa \/ Reach(e, q, p, {})
                 PROVE  HasAt(e, q, p, {})
      BY <2>9 DEF Window
    <2>10. Reach(e, q, p, {}) => Reach(d, q, p, S)
      BY <2>6, <2>7 DEF Reach
    <2>11. PICK i \in Idx : q \in d.seq[i] /\ d.pos[i] = p
      BY <2>4, <2>9, <2>10 DEF Window, HasAt
    <2>12. q \in e.seq[i] /\ e.pos[i] = p
      BY <2>8, <2>9, <2>11
    <2> QED BY <2>12 DEF HasAt
  <1>9. PlanSet(plan') = {}
    BY <1>2, NoPlanSet
  <1>10. Windowed(cells'[0], LensOf(mem'), PlanSet(plan'))
    BY <1>2, <1>8, <1>9 DEF Windowed
  <1> QED BY <1>2, <1>6, <1>10 DEF WindowNext, Windows

\* A call that leaves the plan empty and the windows whole.
LEMMA CalledWindow ==
    ASSUME Called, plan' = plan, \A q \in Seqs : Window(cells'[0], q, Len(mem'[q]), {}, {}),
           \A img \in saved' : ImageWindow(img)
    PROVE  WindowNext
  <1>1. plan' = <<>> /\ PlanSet(plan') = {}
    BY NoPlanSet DEF Called
  <1>2. \A q \in Seqs : LensOf(mem')[q] = Len(mem'[q])
    BY DEF LensOf
  <1>3. Windowed(cells'[0], LensOf(mem'), {})
    BY <1>2 DEF Windowed
  <1> QED BY <1>1, <1>3 DEF WindowNext, Windows

\* Before a call there is no slot to leave out.
LEMMA CallWindow ==
    ASSUME BooksInv, ExtraInv, WindowInv, mode = "swa", ~ Lookahead, plan = <<>>
    PROVE  /\ \A q \in Seqs : /\ Window(cells[0], q, Len(mem[q]), {}, {})
                              /\ Held(cells[0], q, Len(mem[q])) /\ Len(mem[q]) \in Nat
           /\ \A img \in saved : ImageWindow(img)
           /\ cells[0] \in Good /\ DOMAIN mem = Seqs /\ 0 \in Streams /\ DOMAIN cells = Streams
  <1>1. Windowed(cells[0], LensOf(mem), {})
    BY WindowIs, NoPlanSet
  <1>2. \A q \in Seqs : Window(cells[0], q, Len(mem[q]), {}, {})
    BY <1>1, WindowIs DEF Windowed
  <1> QED BY <1>2, WindowIs, SwaStream, BooksAre DEF Mems, Caches

\* An empty sequence has no window.
LEMMA NoWindow ==
    ASSUME NEW c, NEW q, NEW S, NEW T
    PROVE  Window(c, q, Len(<<>>), S, T)
  <1>1. Len(<<>>) = 0 /\ 0 .. 0 - 1 = {}
    OBVIOUS
  <1> QED BY <1>1 DEF Window

\* What has the same cells of q has the same window.
LEMMA WindowKept ==
    ASSUME NEW c, NEW d, NEW q, Keeps(c, d, q), Shrinks(c, d, q), NEW l, Window(c, q, l, {}, {})
    PROVE  Window(d, q, l, {}, {})
  <1>1. \A p : Reach(d, q, p, {}) => Reach(c, q, p, {})
    BY DEF Shrinks, Reach
  <1>2. \A p : HasAt(c, q, p, {}) => HasAt(d, q, p, {})
    BY DEF Keeps, HasAt
  <1> QED BY <1>1, <1>2 DEF Window

\* One sequence changes, the others keep their cells.
LEMMA OneWindow ==
    ASSUME BooksInv, ExtraInv, WindowInv, mode = "swa", ~ Lookahead, plan = <<>>,
           NEW d, cells' = [cells EXCEPT ![0] = d], NEW q \in Seqs,
           \A r \in Seqs \ {q} : mem'[r] = mem[r], Window(d, q, Len(mem'[q]), {}, {}),
           \A r \in Seqs \ {q} : Keeps(cells[0], d, r) /\ Shrinks(cells[0], d, r)
    PROVE  \A r \in Seqs : Window(cells'[0], r, Len(mem'[r]), {}, {})
  <1> SUFFICES ASSUME NEW r \in Seqs \ {q} PROVE Window(d, r, Len(mem'[r]), {}, {})
    BY CallWindow
  <1>1. Window(cells[0], r, Len(mem[r]), {}, {})
    BY CallWindow
  <1> QED BY <1>1, WindowKept

\* What is kept of a truncated sequence has its whole window: this is what the
\* caller's look at the smallest position is for.
LEMMA KeptWindow ==
    ASSUME mode = "swa", NEW q \in Seqs, NEW c, c = cells[0], c \in Good, NEW l \in Nat,
           Window(c, q, l, {}, {}), NEW p \in 0 .. MaxLen, p < l, Kept(q, p) = p, p # 0,
           NEW x \in 0 .. p - 1, p - x < NSwa
    PROVE  HasAt(c, q, x, {})
  <1> DEFINE P == SeqPosSet(c, q)
             m == SeqPosMin(c, q)
  <1>1. /\ P \subseteq 0 .. MaxLen
        /\ \A i \in Idx : q \in c.seq[i] => c.pos[i] \in P
        /\ \A y \in P : \E i \in Idx : q \in c.seq[i] /\ c.pos[i] = y
    BY HeldIs
  <1>2. m = IF P = {} THEN -1 ELSE Min(P)
    BY DEF SeqPosMin
  <1>3. ~ (m >= Max({0, p - NSwa}))
    BY DEF Kept
  <1>4. Max({0, p - NSwa}) = IF 0 >= p - NSwa THEN 0 ELSE p - NSwa
    BY MaxOfTwo, Consts
  <1> HIDE DEF P, m
  <1>5. x \in 0 .. l - 1
    OBVIOUS
  <1>6. CASE P = {}
    <2>1. \A i \in Idx : q \notin c.seq[i]
      BY <1>1, <1>6
    <2>2. 1 < NSwa /\ l - 1 \in 0 .. l - 1 /\ l - (l - 1) < NSwa
      BY Consts
    <2>3. HasAt(c, q, l - 1, {})
      BY <2>2 DEF Window
    <2> QED BY <2>1, <2>3 DEF HasAt
  <1>7. CASE P # {}
    <2>1. P \subseteq Int /\ 0 \in Int /\ \A y \in P : 0 <= y
      BY <1>1, Consts
    <2>2. m \in P
      BY <1>2, <1>7, <2>1, MinIs
    <2>3. m \in Nat
      BY <1>1, <2>2, Consts
    <2>4. m <= x
      BY <1>3, <1>4, <2>3, Consts
    <2>5. PICK i \in Idx : q \in c.seq[i] /\ c.pos[i] = m
      BY <1>1, <2>2
    <2>6. Reach(c, q, x, {})
      BY <2>4, <2>5 DEF Reach
    <2> QED BY <1>5, <2>6 DEF Window
  <1> QED BY <1>6, <1>7

\* What is kept of a truncated sequence is a whole window.
LEMMA TruncateWindow ==
    ASSUME BooksInv, ExtraInv, WindowInv, mode = "swa", ~ Lookahead,
           NEW q \in Seqs, NEW p \in 0 .. MaxLen, Truncate(q, p)
    PROVE  WindowNext
  <1> DEFINE k == Kept(q, p)
             c == cells[0]
             d == SeqRmRange(c, q, k, Infinite)
             t == SubSeq(mem[q], 1, k)
  <1>1. p < Len(mem[q]) /\ Called /\ plan = <<>> /\ plan' = plan /\ saved' = saved
    BY DEF Truncate, Called
  <1>2. k \in {0, p} /\ k \in Int /\ Infinite \in Int
    BY Consts DEF Kept, Infinite
  <1>3. cells' = [cells EXCEPT ![0] = d] /\ mem' = [mem EXCEPT ![q] = t]
    BY SwaStream DEF Truncate, Becomes
  <1>4. /\ c \in Good /\ Window(c, q, Len(mem[q]), {}, {}) /\ DOMAIN mem = Seqs
        /\ Len(mem[q]) \in Nat /\ mem[q] \in Seq(Seqs \X Nat)
    BY <1>1, CallWindow, BooksAre
  <1>5. c = cells[0] /\ k = Kept(q, p)
    OBVIOUS
  <1> HIDE DEF c, k
  <1>6. RangeRemoved(c, d, q, k, Infinite)
    BY <1>2, <1>4, SeqRmRangeIs
  <1>7. Len(t) = k
    <2>1. k \in 0 .. Len(mem[q])
      BY <1>1, <1>2, <1>4
    <2>2. PICK m : m = mem[q]
      OBVIOUS
    <2>3. Len(SubSeq(m, 1, k)) = k
      BY <1>4, <2>1, <2>2
    <2> QED BY <2>2, <2>3
  <1> HIDE DEF d, t
  <1>8. mem'[q] = t /\ \A r \in Seqs \ {q} : mem'[r] = mem[r]
    BY <1>3, <1>4
  <1>9. /\ \A r : r # q => Keeps(c, d, r)
        /\ \A i \in Idx : q \in c.seq[i] /\ ~ (c.pos[i] >= k /\ c.pos[i] < Infinite)
                               => q \in d.seq[i] /\ d.pos[i] = c.pos[i]
        /\ \A r : Shrinks(c, d, r)
    BY <1>2, <1>4, <1>6, RemovedKeeps, RemovedShrinks
  <1>10. Window(d, q, k, {}, {})
    <2> SUFFICES ASSUME NEW x \in 0 .. k - 1, k - x < NSwa \/ Reach(d, q, x, {})
                 PROVE  HasAt(d, q, x, {})
      BY DEF Window
    <2>1. k = p /\ p # 0 /\ x \in 0 .. Len(mem[q]) - 1 /\ x < k /\ x \in 0 .. p - 1
      BY <1>1, <1>2, <1>4
    <2>2. HasAt(c, q, x, {})
      <3>1. CASE k - x < NSwa
        <4> DEFINE l == Len(mem[q])
        <4>1. l \in Nat /\ Window(c, q, l, {}, {}) /\ p < l
          BY <1>1, <1>4
        <4> HIDE DEF l
        <4> QED BY <1>4, <1>5, <2>1, <3>1, <4>1, KeptWindow
      <3>2. CASE Reach(d, q, x, {})
        <4>1. Reach(c, q, x, {})
          BY <1>9, <3>2 DEF Reach, Shrinks
        <4> QED BY <1>4, <2>1, <4>1 DEF Window
      <3> QED BY <3>1, <3>2
    <2>3. PICK i \in Idx : q \in c.seq[i] /\ c.pos[i] = x
      BY <2>2 DEF HasAt
    <2>4. ~ (c.pos[i] >= k)
      BY <1>2, <2>1, <2>3
    <2> QED BY <1>9, <2>3, <2>4 DEF HasAt
  <1>11. Window(d, q, Len(mem'[q]), {}, {})
    BY <1>7, <1>8, <1>10
  <1>12. \A r \in Seqs : Window(cells'[0], r, Len(mem'[r]), {}, {})
    BY <1>1, <1>3, <1>5, <1>8, <1>9, <1>11, OneWindow
  <1> QED BY <1>1, <1>12, CallWindow, CalledWindow

\* A copy of a sequence has the window of the one it is a copy of.
LEMMA CopyWindow ==
    ASSUME BooksInv, ExtraInv, WindowInv, mode = "swa", ~ Lookahead,
           NEW q \in Seqs, NEW r \in Seqs, CopySequence(q, r)
    PROVE  WindowNext
  <1> DEFINE b == cells[0]
             c == SeqRmRange(b, r, 0, Infinite)
             d == SeqCpCells(c, q, r)
  <1>1. /\ mem' = [mem EXCEPT ![r] = mem[q]] /\ saved' = saved /\ plan' = plan /\ q # r
        /\ Called /\ plan = <<>> /\ cells' = [cells EXCEPT ![0] = d]
    BY DEF CopySequence, Called
  <1>2. mem'[r] = mem[q] /\ \A x \in Seqs \ {r} : mem'[x] = mem[x]
    BY <1>1, CallWindow
  <1>3. b \in Good /\ Window(b, q, Len(mem[q]), {}, {})
    BY <1>1, CallWindow
  <1>4. Infinite \in Int /\ 0 \in Int
    BY Consts DEF Infinite
  <1>b. b = cells[0]
    OBVIOUS
  <1> HIDE DEF b
  <1>5. RangeRemoved(b, c, r, 0, Infinite)
    BY <1>3, <1>4, SeqRmRangeIs
  <1> HIDE DEF c
  <1>6. c \in Good /\ \A i \in Idx : r \notin c.seq[i]
    BY <1>3, <1>5, RangeAll
  <1>7. SharedWith(c, d, q, r)
    BY <1>6, ShareIs
  <1> HIDE DEF d
  <1>8. (\A x : x # r => Keeps(b, c, x)) /\ \A x : Shrinks(b, c, x)
    BY <1>3, <1>4, <1>5, RemovedKeeps, RemovedShrinks
  <1>9. Window(c, q, Len(mem[q]), {}, {})
    BY <1>1, <1>3, <1>8, WindowKept
  <1>10. Window(d, r, Len(mem'[r]), {}, {})
    <2>1. \A i \in Idx : (r \in d.seq[i] <=> q \in c.seq[i]) /\ d.pos[i] = c.pos[i]
      BY <1>6, <1>7 DEF SharedWith
    <2>2. \A p : (HasAt(c, q, p, {}) <=> HasAt(d, r, p, {})) /\ (Reach(c, q, p, {}) <=> Reach(d, r, p, {}))
      BY <2>1 DEF HasAt, Reach
    <2>3. Window(d, r, Len(mem[q]), {}, {})
      BY <1>9, <2>2 DEF Window
    <2> QED BY <1>2, <2>3
  <1>11. \A x \in Seqs \ {r} : Keeps(b, d, x) /\ Shrinks(b, d, x)
    BY <1>7, <1>8 DEF SharedWith, Keeps, Shrinks
  <1>12. \A x \in Seqs : Window(cells'[0], x, Len(mem'[x]), {}, {})
    BY <1>1, <1>2, <1>10, <1>11, <1>b, OneWindow
  <1> QED BY <1>1, <1>12, CallWindow, CalledWindow

\* The sequence that is kept keeps its window, the others are empty.
LEMMA KeepWindow ==
    ASSUME BooksInv, ExtraInv, WindowInv, mode = "swa", ~ Lookahead,
           NEW q \in Seqs, KeepSequence(q)
    PROVE  WindowNext
  <1> DEFINE c == cells[0]
             d == SeqKeepCells(c, q)
  <1>1. saved' = saved /\ plan' = plan /\ Called /\ plan = <<>> /\ cells' = [cells EXCEPT ![0] = d]
    BY SwaStream DEF KeepSequence, Becomes, Called
  <1>2. mem' = [r \in Seqs |-> IF r # q THEN <<>> ELSE mem[r]]
    BY SwaStream DEF KeepSequence
  <1>3. c \in Good /\ Window(c, q, Len(mem[q]), {}, {}) /\ DOMAIN cells = Streams /\ 0 \in Streams
    BY <1>1, CallWindow
  <1>c. c = cells[0]
    OBVIOUS
  <1> HIDE DEF c
  <1>4. KeptOnly(c, d, q)
    BY <1>3, KeepIs
  <1> HIDE DEF d
  <1>5. Keeps(c, d, q) /\ Shrinks(c, d, q)
    BY <1>4 DEF KeptOnly, Keeps, Shrinks
  <1>6. Window(d, q, Len(mem[q]), {}, {})
    BY <1>3, <1>5, WindowKept
  <1>7. cells'[0] = d
    BY <1>1, <1>3
  <1>8. ASSUME NEW x \in Seqs PROVE Window(cells'[0], x, Len(mem'[x]), {}, {})
    <2>1. CASE x = q
      BY <1>2, <1>6, <1>7, <2>1
    <2>2. CASE x # q
      <3>1. mem'[x] = <<>>
        BY <1>2, <2>2
      <3> QED BY <3>1, NoWindow
    <2> QED BY <2>1, <2>2
  <1> QED BY <1>1, <1>8, CallWindow, CalledWindow

\* An empty sequence lacks nothing.
LEMMA ClearWindow ==
    ASSUME BooksInv, ExtraInv, WindowInv, mode = "swa", ~ Lookahead, Clear
    PROVE  WindowNext
  <1>1. mem' = [q \in Seqs |-> <<>>] /\ saved' = saved /\ plan' = plan /\ Called /\ plan = <<>>
    BY DEF Clear, Called
  <1>2. \A q \in Seqs : Window(cells'[0], q, Len(mem'[q]), {}, {})
    BY <1>1, NoWindow
  <1> QED BY <1>1, <1>2, CallWindow, CalledWindow

\* An image has the window of the sequence that was saved.
LEMMA SaveWindow ==
    ASSUME BooksInv, ExtraInv, WindowInv, mode = "swa", ~ Lookahead,
           NEW q \in Seqs, SaveSequence(q)
    PROVE  WindowNext
  <1> DEFINE s == StreamOf(q)
             K == {i \in Idx : q \in cells[s].seq[i]}
             own == Ordered(K)
             img == [mem |-> mem[q],
                     cells |-> [j \in DOMAIN own |->
                         [pos |-> cells[s].pos[own[j]], kv |-> data[s][own[j]]]]]
  <1>1. saved' = {img} /\ UNCHANGED <<cells, mem>> /\ plan' = plan /\ Called /\ plan = <<>>
    BY DEF SaveSequence, Called
  <1>2. Window(cells[s], q, Len(mem[q]), {}, {})
    BY <1>1, CallWindow, SwaStream
  <1> HIDE DEF s
  <1>3. Lists(own, K)
    BY OwnCells
  <1> HIDE DEF own
  <1>4. /\ \A p : HasAt(cells[s], q, p, {}) => \E i \in K : cells[s].pos[i] = p
        /\ \A p : (\E i \in K : cells[s].pos[i] <= p) => Reach(cells[s], q, p, {})
    BY DEF HasAt, Reach
  <1> HIDE DEF K
  <1> DEFINE n == Cardinality(K)
  <1>5. /\ n \in Nat /\ DOMAIN own = 1 .. n /\ \A j \in 1 .. n : own[j] \in K
        /\ \A i \in K : \E j \in 1 .. n : own[j] = i
    BY <1>3 DEF Lists
  <1> HIDE DEF n
  <1>6. ImageWindow(img)
    <2> DEFINE ic == [j \in 1 .. n |-> [pos |-> cells[s].pos[own[j]], kv |-> data[s][own[j]]]]
    <2>1. img.mem = mem[q] /\ img.cells = ic
      BY <1>5
    <2>2. Len(ic) = n /\ \A j \in 1 .. n : ic[j].pos = cells[s].pos[own[j]]
      BY <1>5
    <2> HIDE DEF img, ic
    <2>3. ASSUME NEW p \in 0 .. Len(mem[q]) - 1,
                 Len(mem[q]) - p < NSwa \/ \E j \in 1 .. n : ic[j].pos <= p
          PROVE  \E j \in 1 .. n : ic[j].pos = p
      <3>1. (\E j \in 1 .. n : ic[j].pos <= p) => Reach(cells[s], q, p, {})
        BY <1>4, <1>5, <2>2
      <3>2. HasAt(cells[s], q, p, {})
        BY <1>2, <2>3, <3>1 DEF Window
      <3>3. PICK i \in K : cells[s].pos[i] = p
        BY <1>4, <3>2
      <3>4. PICK j \in 1 .. n : own[j] = i
        BY <1>5
      <3> QED BY <2>2, <3>3, <3>4
    <2> QED BY <2>1, <2>2, <2>3 DEF ImageWindow
  <1> HIDE DEF img
  <1>7. \A x \in Seqs : Window(cells'[0], x, Len(mem'[x]), {}, {})
    BY <1>1, CallWindow
  <1> QED BY <1>1, <1>6, <1>7, CalledWindow

\* The other sequences lose what no token of theirs sees, the restored one has the
\* window of its image.
LEMMA FilledOther ==
    ASSUME NEW c \in Good, NEW n \in Nat, NEW idxs, SlotOf(idxs, n), NEW toks \in [1 .. n -> Token],
           NEW d, RefilledSome(c, d, idxs, toks, n), NEW x \in Seqs, \A j \in 1 .. n : toks[j].seq # x,
           NEW l \in Nat, Held(c, x, l), NEW S, S = SlotSet(idxs, n), Window(d, x, l, S, S)
    PROVE  Window(d, x, l, {}, {})
  <1>1. \A i \in S : x \notin d.seq[i]
    BY TokenPlaced DEF SlotSet
  <1>2. \A p : Reach(d, x, p, {}) => Reach(d, x, p, S)
    BY <1>1 DEF Reach
  <1>3. \A p : HasAt(d, x, p, S) => HasAt(d, x, p, {})
    BY DEF HasAt
  <1> QED BY <1>2, <1>3 DEF Window

\* The sequence that is restored has the window of its image.
LEMMA FilledImage ==
    ASSUME NEW c \in Good, NEW n \in Nat, NEW idxs, SlotOf(idxs, n), NEW toks \in [1 .. n -> Token],
           NEW d, RefilledSome(c, d, idxs, toks, n), NEW r \in Seqs, \A i \in Idx : r \notin c.seq[i],
           NEW img, Len(img.cells) = n, ImageWindow(img),
           \A j \in 1 .. n : toks[j].seq = r /\ toks[j].pos = img.cells[j].pos
    PROVE  Window(d, r, Len(img.mem), {}, {})
  <1>1. Held(c, r, 0) /\ 0 \in Nat
    BY DEF Held
  <1>2. \A j \in 1 .. n : 0 <= toks[j].pos /\ idxs[j] \in Idx
    BY DEF Token, SlotOf
  <1>3. \A j \in 1 .. n : r \in d.seq[idxs[j]] /\ d.pos[idxs[j]] = img.cells[j].pos
    <2> TAKE j \in 1 .. n
    <2>1. toks[j].seq = r /\ 0 <= toks[j].pos
      BY <1>2
    <2>2. r \in d.seq[idxs[j]] /\ d.pos[idxs[j]] = toks[j].pos
      BY <1>1, <2>1, TokenPlaced
    <2> QED BY <2>2
  <1>4. PICK rm : Refilled(c, d, idxs, toks, n, rm)
    BY DEF RefilledSome
  <1>5. ASSUME NEW i \in Idx, r \in d.seq[i] PROVE \E j \in 1 .. n : idxs[j] = i
    <2> SUFFICES ASSUME \A j \in 1 .. n : idxs[j] # i PROVE FALSE
      OBVIOUS
    <2>1. LeftAt(d, i, c.pos[i], c.seq[i], rm)
      BY <1>4 DEF Refilled
    <2> QED BY <1>5, <2>1 DEF LeftAt
  <1> SUFFICES ASSUME NEW p \in 0 .. Len(img.mem) - 1,
                      Len(img.mem) - p < NSwa \/ Reach(d, r, p, {})
               PROVE  HasAt(d, r, p, {})
    BY DEF Window
  <1>6. Reach(d, r, p, {}) => \E j \in 1 .. n : img.cells[j].pos <= p
    <2> SUFFICES ASSUME Reach(d, r, p, {}) PROVE \E j \in 1 .. n : img.cells[j].pos <= p
      OBVIOUS
    <2>1. PICK i \in Idx : r \in d.seq[i] /\ d.pos[i] <= p
      BY DEF Reach
    <2>2. PICK j \in 1 .. n : idxs[j] = i
      BY <1>5, <2>1
    <2> QED BY <1>3, <2>1, <2>2
  <1>7. PICK j \in 1 .. n : img.cells[j].pos = p
    BY <1>6 DEF ImageWindow
  <1> QED BY <1>2, <1>3, <1>7 DEF HasAt

\* A restore loses nothing that another sequence sees, and has the window of its
\* image.
LEMMA RestoreWindow ==
    ASSUME BooksInv, ExtraInv, WindowInv, mode = "swa", ~ Lookahead,
           NEW r \in Seqs, RestoreSequence(r)
    PROVE  WindowNext
  <1>1. PICK c, n, idxs : Restores(r, c, n, idxs)
    BY RestoreDoes
  <1>2. saved' = saved /\ saved # {} /\ plan' = plan /\ Called /\ plan = <<>>
    BY DEF RestoreSequence, Called
  <1> DEFINE a == cells[0]
             toks == ImageToks(r)
             img == ImageOf
             b == LensOf(mem)
  <1>3. /\ a \in Good /\ DOMAIN mem = Seqs /\ b \in Lens
        /\ \A x \in Seqs : b[x] = Len(mem[x]) /\ b[x] \in Nat /\ Held(a, x, b[x])
                           /\ Window(a, x, b[x], {}, {})
    BY <1>2, CallWindow, WindowIs
  <1>0. Infinite \in Int /\ 0 \in Int
    BY Consts DEF Infinite
  <1>4. RangeRemoved(a, c, r, 0, Infinite) /\ n = Len(img.cells)
    BY <1>1, SwaStream DEF Restores
  <1>5. /\ img \in saved /\ IsImage(img) /\ n \in Nat /\ toks \in [1 .. n -> Token]
        /\ \A j \in 1 .. n : toks[j].seq = r /\ toks[j].pos = img.cells[j].pos
    BY <1>2, <1>4, ImageIs
  <1>6. \/ /\ SlotOf(idxs, n) /\ \A j \in 1 .. n : idxs[j] \in Usable(c)
           /\ \E d : RefilledSome(c, d, idxs, toks, n) /\ cells' = [cells EXCEPT ![0] = d]
           /\ mem' = [mem EXCEPT ![r] = img.mem]
        \/ /\ cells' = [cells EXCEPT ![0] = c]
           /\ mem' = [mem EXCEPT ![r] = <<>>]
    BY <1>1, SwaStream DEF Restores
  <1>a. a = cells[0]
    OBVIOUS
  <1> HIDE DEF a, toks, img, b
  <1>7. c \in Good /\ \A i \in Idx : r \notin c.seq[i]
    BY <1>3, <1>4, RangeAll
  <1>8. (\A x : x # r => Keeps(a, c, x)) /\ \A x : Shrinks(a, c, x)
    BY <1>0, <1>3, <1>4, RemovedKeeps, RemovedShrinks
  <1>9. \A x \in Seqs : Held(c, x, b[x])
    BY <1>3, <1>8, HeldShrinks
  <1>10. CASE /\ SlotOf(idxs, n) /\ \A j \in 1 .. n : idxs[j] \in Usable(c)
              /\ \E d : RefilledSome(c, d, idxs, toks, n) /\ cells' = [cells EXCEPT ![0] = d]
              /\ mem' = [mem EXCEPT ![r] = img.mem]
    <2>1. PICK d : RefilledSome(c, d, idxs, toks, n) /\ cells' = [cells EXCEPT ![0] = d]
      BY <1>10
    <2>2. mem'[r] = img.mem /\ \A x \in Seqs \ {r} : mem'[x] = mem[x]
      BY <1>3, <1>10
    <2>3. ImageWindow(img)
      BY <1>2, <1>5, CallWindow
    <2>4. Window(d, r, Len(mem'[r]), {}, {})
      <3>1. Window(d, r, Len(img.mem), {}, {})
        BY <1>4, <1>5, <1>7, <1>10, <2>1, <2>3, FilledImage
      <3> QED BY <2>2, <3>1
    <2> DEFINE S == SlotSet(idxs, n)
    <2>s. S = SlotSet(idxs, n)
      OBVIOUS
    <2> HIDE DEF S
    <2>5. Passed(c, b, S)
      BY <1>3, <1>5, <1>7, <1>9, <1>10, <2>s, UsablePassed
    <2>6. ASSUME NEW x \in Seqs \ {r} PROVE Window(d, x, Len(mem'[x]), {}, {})
      <3>1. Window(c, x, b[x], {}, {})
        BY <1>3, <1>8, WindowKept
      <3>2. Window(c, x, b[x], S, {})
        BY <3>1, WindowWeaker
      <3>3. Window(d, x, b[x], S, S)
        BY <1>3, <1>5, <1>7, <1>10, <2>1, <2>5, <2>s, <3>2, FillWindow
      <3>l. PICK l \in Nat : l = b[x]
        BY <1>3
      <3>4. Window(d, x, l, {}, {})
        <4>1. Held(c, x, l) /\ Window(d, x, l, S, S) /\ \A j \in 1 .. n : toks[j].seq # x
          BY <1>5, <1>9, <3>3, <3>l
        <4> QED BY <1>5, <1>7, <1>10, <2>1, <2>s, <4>1, FilledOther
      <3> QED BY <1>3, <2>2, <3>4, <3>l
    <2>7. cells'[0] = d
      BY <1>2, <2>1, CallWindow
    <2>8. \A x \in Seqs : Window(cells'[0], x, Len(mem'[x]), {}, {})
      BY <2>4, <2>6, <2>7
    <2> QED BY <1>2, <2>8, CallWindow, CalledWindow
  <1>11. CASE cells' = [cells EXCEPT ![0] = c] /\ mem' = [mem EXCEPT ![r] = <<>>]
    <2>1. mem'[r] = <<>> /\ \A x \in Seqs \ {r} : mem'[x] = mem[x]
      BY <1>3, <1>11
    <2>2. Window(c, r, Len(mem'[r]), {}, {})
      BY <2>1, NoWindow
    <2>3. \A x \in Seqs : Window(cells'[0], x, Len(mem'[x]), {}, {})
      BY <1>2, <1>8, <1>11, <1>a, <2>1, <2>2, OneWindow
    <2> QED BY <1>2, <2>3, CallWindow, CalledWindow
  <1> QED BY <1>6, <1>10, <1>11

-----------------------------------------------------------------------------
(* The theorems about gaps and about what attention reads.                 *)

\* The invariant in terms of the next state.
LEMMA WindowKeptInv ==
    ASSUME mode' = mode, mode = "swa" /\ ~ Lookahead => WindowNext
    PROVE  WindowInv'
  <1> SUFFICES ASSUME mode = "swa", ~ Lookahead PROVE Windows(cells, mem, plan, saved)'
    BY DEF WindowInv
  <1>1. /\ \A q \in Seqs : Window(cells'[0], q, LensOf(mem')[q], PlanSet(plan'), PlanSet(plan'))
        /\ plan' # <<>> => Len(plan') = 1 /\ Passed(cells'[0], LensOf(mem'), PlanSet(plan'))
        /\ \A img \in saved' : ImageWindow(img)
    BY DEF WindowNext, Windows, Windowed
  <1>2. (\A q \in Seqs : Window(cells[0], q, LensOf(mem)[q], PlanSet(plan), PlanSet(plan)))'
    BY <1>1
  <1>3. (plan # <<>> => Len(plan) = 1 /\ Passed(cells[0], LensOf(mem), PlanSet(plan)))'
    BY <1>1
  <1>4. (\A img \in saved : ImageWindow(img))'
    BY <1>1
  <1> QED BY <1>2, <1>3, <1>4 DEF Windows, Windowed

\* Nothing is missing in the beginning.
LEMMA WindowInit == Init => WindowInv
  <1> SUFFICES ASSUME Init PROVE Windows(cells, mem, plan, saved)
    BY DEF WindowInv
  <1>1. mem = [q \in Seqs |-> <<>>] /\ plan = <<>> /\ saved = {}
    BY DEF Init
  <1>2. \A q \in Seqs : LensOf(mem)[q] = Len(<<>>)
    BY <1>1 DEF LensOf
  <1>3. Windowed(cells[0], LensOf(mem), PlanSet(plan))
    BY <1>2, NoWindow DEF Windowed
  <1> QED BY <1>1, <1>3 DEF Windows

\* No step loses a token inside the window, when batches are single micro batches.
LEMMA WindowStep == BooksInv /\ ExtraInv /\ WindowInv /\ Next => WindowInv'
  <1> SUFFICES ASSUME BooksInv, ExtraInv, WindowInv, Next, mode = "swa", ~ Lookahead PROVE WindowNext
    BY WindowKeptInv, ModeStays
  <1>1. ASSUME NEW batch \in Batches, Decode(batch) PROVE WindowNext
    BY <1>1, DecodeWindow
  <1>2. CASE ComputeUBatch
    BY <1>2, ComputeWindow
  <1>3. CASE AbortUBatch
    BY <1>3, AbortWindow
  <1>4. ASSUME NEW q \in Seqs, NEW p \in 0 .. MaxLen, Truncate(q, p) PROVE WindowNext
    BY <1>4, TruncateWindow
  <1>5. ASSUME NEW q \in Seqs, NEW to \in 0 .. MaxLen, NEW from \in 0 .. MaxLen,
               NEW n \in 0 .. MaxLen, CutAndShift(q, to, from, n)
        PROVE  WindowNext
    BY <1>5 DEF CutAndShift, MayShift
  <1>6. ASSUME NEW q \in Seqs, NEW r \in Seqs, CopySequence(q, r) PROVE WindowNext
    BY <1>6, CopyWindow
  <1>7. ASSUME NEW q \in Seqs, KeepSequence(q) PROVE WindowNext
    BY <1>7, KeepWindow
  <1>8. ASSUME NEW q \in Seqs, SaveSequence(q) PROVE WindowNext
    BY <1>8, SaveWindow
  <1>9. ASSUME NEW q \in Seqs, RestoreSequence(q) PROVE WindowNext
    BY <1>9, RestoreWindow
  <1>10. CASE Clear
    BY <1>10, ClearWindow
  <1> QED BY <1>1, <1>2, <1>3, <1>4, <1>5, <1>6, <1>7, <1>8, <1>9, <1>10 DEF Next

\* No token inside the window is ever lost, when batches are single micro batches.
LEMMA WindowAlways == Spec => []WindowInv
  <1>1. WindowInv /\ UNCHANGED vars => WindowInv'
    <2> SUFFICES ASSUME WindowInv, UNCHANGED vars PROVE WindowInv'
      OBVIOUS
    <2>1. (mode = "swa" /\ ~ Lookahead => WindowNext) /\ mode' = mode
      BY DEF WindowInv, WindowNext, vars
    <2> QED BY <2>1, WindowKeptInv
  <1> QED BY WindowInit, WindowStep, <1>1, BooksAlways, ExtraAlways, PTL DEF Spec

Places(c, q) == {c.pos[i] : i \in {x \in Idx : q \in c.seq[x]}}

\* With a window, what lies between two positions of a sequence is there too.
LEMMA WindowNoGap ==
    ASSUME NEW c, NEW q, NEW l \in Nat, Window(c, q, l, {}, {}), NEW P, P # {},
           P = Places(c, q), P \subseteq 0 .. l - 1
    PROVE  Min(P) .. Max(P) = P
  <1>0. \A p : p \in P <=> \E i \in Idx : q \in c.seq[i] /\ c.pos[i] = p
    BY DEF Places
  <1>1. P \subseteq Int /\ 0 \in Int /\ l - 1 \in Int /\ \A x \in P : 0 <= x /\ x <= l - 1
    OBVIOUS
  <1>2. Min(P) \in P /\ \A y \in P : Min(P) <= y
    BY <1>1, MinIs
  <1>3. Max(P) \in P /\ \A y \in P : y <= Max(P)
    BY <1>1, MaxIs
  <1>4. PICK a \in Int, z \in Int : a = Min(P) /\ z = Max(P)
    BY <1>1, <1>2, <1>3
  <1>5. \A y \in P : y \in a .. z
    BY <1>1, <1>2, <1>3, <1>4
  <1>6. ASSUME NEW y \in a .. z PROVE y \in P
    <2>1. a \in P /\ z \in P
      BY <1>2, <1>3, <1>4
    <2>2. y \in 0 .. l - 1
      BY <1>1, <2>1
    <2>3. PICK i \in Idx : q \in c.seq[i] /\ c.pos[i] = a
      BY <1>0, <2>1
    <2>4. Reach(c, q, y, {})
      BY <2>3 DEF Reach
    <2>5. HasAt(c, q, y, {})
      BY <2>2, <2>4 DEF Window
    <2> QED BY <1>0, <2>5 DEF HasAt
  <1>7. a .. z = P
    BY <1>5, <1>6
  <1> QED BY <1>4, <1>7

\* A sequence has no gap between its smallest and its largest position, whatever
\* was decoded, aborted, cut, copied or restored: without a window it holds exactly
\* the positions of its tokens, and with one what was purged lies behind what is
\* left, as long as a batch is one micro batch.
THEOREM NoGapsAlways == Spec => []((mode = "swa" => ~ Lookahead) => NoGaps)
  <1>1. BooksInv /\ ExtraInv /\ WholeInv /\ WindowInv => ((mode = "swa" => ~ Lookahead) => NoGaps)
    <2> SUFFICES ASSUME BooksInv, ExtraInv, WholeInv, WindowInv, mode = "swa" => ~ Lookahead,
                        plan = <<>>, NEW q \in Seqs, PositionsOf(q) # {}
                 PROVE  Min(PositionsOf(q)) .. Max(PositionsOf(q)) = PositionsOf(q)
      BY DEF NoGaps
    <2> DEFINE c == cells[StreamOf(q)]
               l == Len(mem[q])
               P == PositionsOf(q)
    <2>1. c \in Good /\ l \in Nat
      BY BooksAre, StreamsAre
    <2>2. Held(c, q, l)
      BY DEF ExtraInv, ExtraOf
    <2>3. mode # "swa" => Full(c, q, l)
      BY WholeIs
    <2>4. mode = "swa" => Window(c, q, l, {}, {})
      BY SwaStream, CallWindow
    <2>5. P = {c.pos[i] : i \in {x \in Idx : q \in c.seq[x]}} /\ P # {}
      BY DEF PositionsOf, CellsOf
    <2> HIDE DEF c, l, P
    <2>6. ASSUME NEW i \in Idx, q \in c.seq[i] PROVE c.pos[i] \in 0 .. l - 1
      <3>1. c.pos[i] < l /\ c.pos[i] \in -1 .. MaxLen - 1 /\ c.pos[i] # -1
        BY <2>1, <2>2, <2>6, GoodType DEF Held
      <3> QED BY <2>1, <3>1, Consts
    <2>7. \A p \in P : p \in 0 .. l - 1
      BY <2>5, <2>6
    <2>8. Min(P) .. Max(P) = P
      <3>1. CASE mode = "swa"
        <4>1. P \subseteq 0 .. l - 1 /\ Window(c, q, l, {}, {})
          BY <2>4, <2>7, <3>1
        <4>2. P = Places(c, q)
          BY <2>5 DEF Places
        <4> QED BY <2>1, <2>5, <4>1, <4>2, WindowNoGap
      <3>2. CASE mode # "swa"
        <4>1. \A p \in 0 .. l - 1 : p \in P
          BY <2>3, <2>5, <3>2 DEF Full
        <4>2. P = 0 .. l - 1
          BY <2>7, <4>1
        <4> QED BY <2>1, <2>5, <4>2, NoGapIn
      <3> QED BY <3>1, <3>2
    <2> QED BY <2>8 DEF P
  <1> QED BY <1>1, BooksAlways, ExtraAlways, WholeAlways, WindowAlways, PTL

\* What the next update makes of a cell.
LEMMA UpdatedIs ==
    ASSUME BooksInv, RightInv, NEW q \in Seqs, NEW i \in Idx, i \in CellsOf(q)
    PROVE  UpdatedData[StreamOf(q)][i]
             = [tok |-> mem[q][cells[StreamOf(q)].pos[i] + 1], at |-> cells[StreamOf(q)].pos[i]]
  <1> DEFINE s == StreamOf(q)
             c == cells[s]
             m == mem[q]
  <1>1. UpdatedData = [x \in Streams |-> Shifted(cells[x], Effective[x])]
    BY DEF UpdatedData, AfterCopies, Effective, CopiesDone
  <1>2. s \in Streams /\ c \in Good /\ q \in c.seq[i]
    BY StreamsAre, BooksAre DEF CellsOf
  <1>3. RightIn(c, Effective[s], q, m) /\ Effective[s][i] \in Value
    BY <1>2, RightsAre
  <1>4. c.pos[i] # -1 /\ c.shift[i] \in Int /\ c.pos[i] \in Int
    BY <1>2, GoodType, Consts
  <1>5. PICK e : e = Effective[s][i]
    OBVIOUS
  <1>6. PICK k : k = c.shift[i]
    OBVIOUS
  <1>7. PICK p : p = c.pos[i]
    OBVIOUS
  <1>8. UpdatedData[s][i] = [e EXCEPT !.at = @ + k]
    BY <1>1, <1>2, <1>4, <1>5, <1>6 DEF Shifted
  <1>9. e.tok = m[p + 1] /\ e.at + k = p /\ e \in Value
    BY <1>2, <1>3, <1>5, <1>6, <1>7 DEF RightIn
  <1> HIDE DEF s, c, m
  <1>10. [e EXCEPT !.at = @ + k] = [tok |-> m[p + 1], at |-> p]
    BY <1>9 DEF Value
  <1>11. UpdatedData[s][i] = [tok |-> m[c.pos[i] + 1], at |-> c.pos[i]]
    BY <1>7, <1>8, <1>10
  <1> QED BY <1>11 DEF s, c, m

\* Attention reads what the caller believes is there: the token that the next one
\* can see is in a cell of its sequence, and the data of that cell is the token's,
\* rotated to its position, as soon as the pending copies and shifts are done; if
\* nothing is saved or restored while they are pending, and with a window as long
\* as a batch is one micro batch.
THEOREM IntactAlways ==
    ASSUME ~ EagerState
    PROVE  Spec => []((mode = "swa" => ~ Lookahead) => Intact)
  <1>1. BooksInv /\ ExtraInv /\ WholeInv /\ WindowInv /\ RightInv
            => ((mode = "swa" => ~ Lookahead) => Intact)
    <2> SUFFICES ASSUME BooksInv, ExtraInv, WholeInv, WindowInv, RightInv, mode = "swa" => ~ Lookahead,
                        NEW q \in Seqs, NEW p \in 0 .. Len(mem[q]) - 1, ~ Masked(p, Len(mem[q]))
                 PROVE  \E i \in CellsOf(q) :
                            /\ cells[StreamOf(q)].pos[i] = p
                            /\ UpdatedData[StreamOf(q)][i] = [tok |-> mem[q][p + 1], at |-> p]
      BY DEF Intact
    <2>1. \E i \in Idx : q \in cells[StreamOf(q)].seq[i] /\ cells[StreamOf(q)].pos[i] = p
      <3>1. CASE mode # "swa"
        <4>1. Full(cells[StreamOf(q)], q, Len(mem[q]))
          BY <3>1, WholeIs
        <4> QED BY <4>1 DEF Full
      <3>2. CASE mode = "swa"
        <4> DEFINE S == PlanSet(plan)
        <4>1. Window(cells[0], q, LensOf(mem)[q], S, S) /\ LensOf(mem)[q] = Len(mem[q])
              /\ LensOf(mem)[q] \in Nat
          BY <3>2, WindowIs DEF Windowed
        <4> HIDE DEF S
        <4>2. PICK l \in Nat : l = Len(mem[q])
          BY <4>1
        <4>3. p \in 0 .. l - 1 /\ l - p < NSwa
          BY <3>2, <4>2, Consts DEF Masked
        <4>4. HasAt(cells[0], q, p, S)
          BY <4>1, <4>2, <4>3 DEF Window
        <4> QED BY <3>2, <4>4, SwaStream DEF HasAt
      <3> QED BY <3>1, <3>2
    <2>2. PICK i \in Idx : q \in cells[StreamOf(q)].seq[i] /\ cells[StreamOf(q)].pos[i] = p
      BY <2>1
    <2>3. i \in CellsOf(q)
      BY <2>2 DEF CellsOf
    <2>4. UpdatedData[StreamOf(q)][i] = [tok |-> mem[q][p + 1], at |-> p]
      BY <2>2, <2>3, UpdatedIs
    <2> QED BY <2>2, <2>3, <2>4
  <1>2. Spec => []RightInv
    BY RightAlways
  <1> QED BY <1>1, <1>2, BooksAlways, ExtraAlways, WholeAlways, WindowAlways, PTL
=============================================================================
