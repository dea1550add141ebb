---------------------------- MODULE KVCacheProof ----------------------------
(***************************************************************************)
(* Proofs about KVCache, for any sizes: what the operations of             *)
(* llama_kv_cells and llama_kv_cache do to the cells, and two invariants   *)
(* of every reachable state. Bookkeeping: the types, and the redundant     *)
(* state of llama_kv_cells agrees. RoomIsFound: a batch for which there is *)
(* room finds its slots.                                                   *)
(*                                                                         *)
(* The operators of KVCache are folds over sets and sequences. The first   *)
(* section proves, by induction on numbers and on finite sets, that such a *)
(* fold exists, that it is the only one and what it has after each         *)
(* element; the sections after it say what each operation leaves in the    *)
(* cells (Good, Turned, At). BooksInv is the inductive invariant: the      *)
(* types, the books of every stream, and that a pending plan is a split of *)
(* new tokens of the sequences. KVCacheTokensProof continues with what the *)
(* cells hold.                                                             *)
(***************************************************************************)
EXTENDS KVCache, TLAPS, FiniteSetTheorems, WellFoundedInduction

-----------------------------------------------------------------------------
(* Sets that are listed, and folds over them.                              *)

Less == {x \in Nat \X Nat : x[1] < x[2]}

\* The numbers are well founded.
LEMMA LessWellFounded == IsWellFoundedOn(Less, Nat)
  <1>1. Less = OpToRel(<, Nat)
    BY DEF Less, OpToRel
  <1> QED BY <1>1, NatLessThanWellFounded

\* Induction over the numbers, on a set.
LEMMA Induct ==
    ASSUME NEW S, 0 \in S, \A n \in Nat : n \in S => n + 1 \in S
    PROVE  Nat \subseteq S
  <1> DEFINE T == Nat \ S
  <1> SUFFICES ASSUME T # {} PROVE FALSE
    OBVIOUS
  <1>1. T \subseteq Nat
    OBVIOUS
  <1> HIDE DEF T
  <1>2. PICK n \in T : \A y \in T : ~ (<<y, n>> \in Less)
    BY <1>1, LessWellFounded, WFMin
  <1>3. n \in Nat /\ n \notin S /\ n # 0
    BY <1>2 DEF T
  <1>4. n - 1 \in Nat /\ n - 1 \notin S
    BY <1>3
  <1>5. n - 1 \in T /\ <<n - 1, n>> \in Less
    BY <1>3, <1>4 DEF T, Less
  <1> QED BY <1>2, <1>5

\* p picks an element of every non-empty subset of S.
PicksFrom(p, S) == \A s \in SUBSET S : s # {} => p[s] \in s

\* W has the empty set, and every subset of S that it has without p's pick.
Inductive(S, p, W) ==
    /\ IsFiniteSet(S) /\ PicksFrom(p, S) /\ {} \in W
    /\ \A s \in SUBSET S : s # {} /\ s \ {p[s]} \in W => s \in W

\* Induction over the subsets of a finite set that takes the element p[s] from s.
LEMMA SubsetInduct ==
    ASSUME NEW S, NEW p, NEW W, Inductive(S, p, W)
    PROVE  \A s \in SUBSET S : s \in W
  <1> USE DEF Inductive, PicksFrom
  <1> DEFINE D(n) == {s \in SUBSET S : Cardinality(s) = n}
             N == {n \in Nat : D(n) \subseteq W}
  <1>1. \A s \in SUBSET S : IsFiniteSet(s) /\ Cardinality(s) \in Nat
    BY FS_Subset, FS_CardinalityType
  <1>2. 0 \in N
    BY <1>1, FS_EmptySet
  <1>3. ASSUME NEW n \in Nat, n \in N PROVE n + 1 \in N
    <2> SUFFICES ASSUME NEW s \in D(n + 1) PROVE s \in W
      OBVIOUS
    <2>1. s # {}
      BY <1>1, FS_EmptySet
    <2>2. p[s] \in s /\ s \ {p[s]} \in SUBSET S
      BY <2>1
    <2>3. Cardinality(s \ {p[s]}) = n
      <3>1. IsFiniteSet(s) /\ Cardinality(s) = n + 1
        BY <1>1
      <3>2. Cardinality(s \ {p[s]}) = Cardinality(s) - 1
        BY <3>1, <2>2, FS_RemoveElement
      <3> QED BY <3>1, <3>2
    <2> QED BY <1>3, <2>1, <2>2, <2>3
  <1> HIDE DEF N
  <1>4. Nat \subseteq N
    BY <1>2, <1>3, Induct
  <1> QED BY <1>1, <1>4 DEF N

\* h does not leave V, and f is the fold of h over the subsets of S
\* that takes the elements in p's order.
StaysIn(h, S, V) == \A x \in S, v \in V : h[<<x, v>>] \in V
FoldOf(f, S, p, base, h) ==
    \A s \in SUBSET S : f[s] = IF s = {} THEN base ELSE h[<<p[s], f[s \ {p[s]}]>>]

\* A fold over a finite set has a value for every subset, in a set V that it
\* does not leave.
LEMMA FoldExists ==
    ASSUME NEW S, IsFiniteSet(S), NEW p, PicksFrom(p, S),
           NEW V, NEW base \in V, NEW h, StaysIn(h, S, V)
    PROVE  \E f \in [SUBSET S -> V] : FoldOf(f, S, p, base, h)
  <1> USE DEF StaysIn, PicksFrom, FoldOf
  <1> DEFINE D(n) == {s \in SUBSET S : Cardinality(s) <= n}
             Is(f, n) == \A s \in D(n) :
                           f[s] = IF s = {} THEN base ELSE h[<<p[s], f[s \ {p[s]}]>>]
             N == {n \in Nat : \E f \in [D(n) -> V] : Is(f, n)}
  <1>1. \A s \in SUBSET S : IsFiniteSet(s) /\ Cardinality(s) \in Nat
    BY FS_Subset, FS_CardinalityType
  <1>2. 0 \in N
    <2>1. \A s \in D(0) : s = {}
      BY <1>1, FS_EmptySet
    <2>2. [s \in D(0) |-> base] \in [D(0) -> V]
      OBVIOUS
    <2>3. Is([s \in D(0) |-> base], 0)
      BY <2>1
    <2> QED BY <2>2, <2>3
  <1>3. ASSUME NEW n \in Nat, n \in N PROVE n + 1 \in N
    <2>1. PICK f \in [D(n) -> V] : Is(f, n)
      BY <1>3
    <2> DEFINE g == [s \in D(n + 1) |->
                       IF s = {} THEN base ELSE h[<<p[s], f[s \ {p[s]}]>>]]
    <2>2. \A s \in D(n + 1) : s # {} => p[s] \in s /\ s \ {p[s]} \in D(n) /\ s \ {p[s]} \in D(n + 1)
      <3> TAKE s \in D(n + 1)
      <3> HAVE s # {}
      <3>1. p[s] \in s
        OBVIOUS
      <3>2. Cardinality(s \ {p[s]}) = Cardinality(s) - 1
        BY <3>1, <1>1, FS_RemoveElement
      <3> QED BY <3>1, <3>2, <1>1
    <2>3. g \in [D(n + 1) -> V]
      <3> SUFFICES ASSUME NEW s \in D(n + 1), s # {}
                   PROVE  h[<<p[s], f[s \ {p[s]}]>>] \in V
        OBVIOUS
      <3>1. p[s] \in S /\ f[s \ {p[s]}] \in V
        BY <2>2
      <3> QED BY <3>1
    <2>4. \A t \in D(n) : t \in D(n + 1) /\ g[t] = f[t]
      <3> TAKE t \in D(n)
      <3>1. t \in D(n + 1)
        BY <1>1
      <3>2. g[t] = IF t = {} THEN base ELSE h[<<p[t], f[t \ {p[t]}]>>]
        BY <3>1
      <3> QED BY <2>1, <3>1, <3>2
    <2>5. Is(g, n + 1)
      <3> SUFFICES ASSUME NEW s \in D(n + 1)
                   PROVE  g[s] = IF s = {} THEN base ELSE h[<<p[s], g[s \ {p[s]}]>>]
        OBVIOUS
      <3>1. g[s] = IF s = {} THEN base ELSE h[<<p[s], f[s \ {p[s]}]>>]
        OBVIOUS
      <3> HIDE DEF g
      <3> QED BY <3>1, <2>2, <2>4
    <2>6. \E f2 \in [D(n + 1) -> V] : Is(f2, n + 1)
      <3> HIDE DEF g, Is, D
      <3> QED BY <2>3, <2>5
    <2> HIDE DEF Is, D
    <2> QED BY <2>6
  <1> HIDE DEF N
  <1>4. Nat \subseteq N
    BY <1>2, <1>3, Induct
  <1>5. Cardinality(S) \in N
    BY <1>4, <1>1
  <1>6. D(Cardinality(S)) = SUBSET S
    <2> SUFFICES ASSUME NEW s \in SUBSET S PROVE Cardinality(s) <= Cardinality(S)
      OBVIOUS
    <2> QED BY FS_Subset
  <1>7. PICK f \in [D(Cardinality(S)) -> V] : Is(f, Cardinality(S))
    BY <1>5 DEF N
  <1> HIDE DEF D
  <1> QED BY <1>6, <1>7

\* Induction over the numbers up to n, on a set.
LEMMA IntervalInduct ==
    ASSUME NEW n \in Nat, NEW W, 0 \in W, \A k \in 1 .. n : k - 1 \in W => k \in W
    PROVE  \A k \in 0 .. n : k \in W
  <1> DEFINE S == {k \in Nat : k <= n => k \in W}
  <1>1. 0 \in S
    OBVIOUS
  <1>2. ASSUME NEW k \in Nat, k \in S PROVE k + 1 \in S
    <2> SUFFICES ASSUME k + 1 <= n PROVE k + 1 \in W
      OBVIOUS
    <2>1. k + 1 \in 1 .. n /\ (k + 1) - 1 = k /\ k \in W
      BY <1>2
    <2> QED BY <2>1
  <1>3. Nat \subseteq S
    <2> HIDE DEF S
    <2> QED BY <1>1, <1>2, Induct
  <1> QED BY <1>3

\* A non-empty set of integers with a lower bound has a smallest element.
LEMMA MinIs ==
    ASSUME NEW S, S \subseteq Int, S # {}, NEW b \in Int, \A x \in S : b <= x
    PROVE  Min(S) \in S /\ \A y \in S : Min(S) <= y
  <1> DEFINE T == {n \in Nat : n + b \in S}
  <1>1. T \subseteq Nat
    OBVIOUS
  <1>2. PICK x \in S : TRUE
    OBVIOUS
  <1>3. x - b \in T
    BY <1>2
  <1> HIDE DEF T
  <1>4. PICK n \in T : \A y \in T : ~ (<<y, n>> \in Less)
    BY <1>1, <1>3, LessWellFounded, WFMin
  <1>5. n \in Nat /\ n + b \in S
    BY <1>4 DEF T
  <1>6. \A y \in S : n + b <= y
    <2> TAKE y \in S
    <2>1. y - b \in T
      BY DEF T
    <2>2. y - b \in Nat
      BY <2>1, <1>1
    <2>3. ~ (y - b < n)
      BY <2>1, <2>2, <1>4, <1>5 DEF Less
    <2> QED BY <2>2, <2>3, <1>5
  <1>7. \E z \in S : \A y \in S : z <= y
    BY <1>5, <1>6
  <1> QED BY <1>7 DEF Min

\* A non-empty set of integers with an upper bound has a largest element.
LEMMA MaxIs ==
    ASSUME NEW S, S \subseteq Int, S # {}, NEW b \in Int, \A x \in S : x <= b
    PROVE  Max(S) \in S /\ \A y \in S : y <= Max(S)
  <1> DEFINE T == {n \in Nat : b - n \in S}
  <1>1. T \subseteq Nat
    OBVIOUS
  <1>2. PICK x \in S : TRUE
    OBVIOUS
  <1>3. b - x \in T
    BY <1>2
  <1> HIDE DEF T
  <1>4. PICK n \in T : \A y \in T : ~ (<<y, n>> \in Less)
    BY <1>1, <1>3, LessWellFounded, WFMin
  <1>5. n \in Nat /\ b - n \in S
    BY <1>4 DEF T
  <1>6. \A y \in S : y <= b - n
    <2> TAKE y \in S
    <2>0. b - (b - y) = y /\ b - y \in Nat
      OBVIOUS
    <2>1. b - y \in T
      BY <2>0 DEF T
    <2>3. ~ (b - y < n)
      BY <2>0, <2>1, <1>4, <1>5 DEF Less
    <2> QED BY <2>0, <2>3, <1>5
  <1>7. \E z \in S : \A y \in S : z >= y
    BY <1>5, <1>6
  <1>8. Max(S) \in S /\ \A y \in S : Max(S) >= y
    BY <1>7 DEF Max
  <1> QED BY <1>8

\* The folds over the numbers up to n, the largest last, and the smallest last.
LeftFoldOf(f, n, V, base, h) ==
    /\ f \in [SUBSET (1 .. n) -> V]
    /\ \A s \in SUBSET (1 .. n) : f[s] = IF s = {} THEN base ELSE h[<<Max(s), f[s \ {Max(s)}]>>]

RightFoldOf(f, n, V, base, h) ==
    /\ f \in [SUBSET (1 .. n) -> V]
    /\ \A s \in SUBSET (1 .. n) : f[s] = IF s = {} THEN base ELSE h[<<Min(s), f[s \ {Min(s)}]>>]

\* What FoldLeft and FoldRight need of a sequence of length n.
LEMMA LeftExists ==
    ASSUME NEW n \in Nat, NEW V, NEW base \in V, NEW h, StaysIn(h, 1 .. n, V)
    PROVE  \E f : LeftFoldOf(f, n, V, base, h)
  <1> DEFINE p == [s \in SUBSET (1 .. n) |-> Max(s)]
  <1>1. ASSUME NEW s \in SUBSET (1 .. n), s # {} PROVE Max(s) \in s
    <2>1. s \subseteq Int
      OBVIOUS
    <2>2. \A x \in s : x <= n
      OBVIOUS
    <2>3. n \in Int /\ s # {}
      BY <1>1
    <2> QED BY <2>1, <2>2, <2>3, MaxIs
  <1>2. PicksFrom(p, 1 .. n)
    BY <1>1 DEF PicksFrom
  <1>3. \A s \in SUBSET (1 .. n) : p[s] = Max(s)
    OBVIOUS
  <1>4. IsFiniteSet(1 .. n)
    BY FS_Interval
  <1> DEFINE I == 1 .. n
  <1>6. IsFiniteSet(I) /\ PicksFrom(p, I) /\ StaysIn(h, I, V)
    BY <1>2, <1>4
  <1> HIDE DEF p, I
  <1>7. \E f \in [SUBSET I -> V] : FoldOf(f, I, p, base, h)
    BY <1>6, FoldExists
  <1>5. \E f \in [SUBSET (1 .. n) -> V] : FoldOf(f, 1 .. n, p, base, h)
    BY <1>7 DEF I
  <1> QED BY <1>3, <1>5 DEF FoldOf, LeftFoldOf

\* A fold over 1 .. n from the right exists, and stays in its set.
LEMMA RightExists ==
    ASSUME NEW n \in Nat, NEW V, NEW base \in V, NEW h, StaysIn(h, 1 .. n, V)
    PROVE  \E f : RightFoldOf(f, n, V, base, h)
  <1> DEFINE p == [s \in SUBSET (1 .. n) |-> Min(s)]
  <1>1. ASSUME NEW s \in SUBSET (1 .. n), s # {} PROVE Min(s) \in s
    <2>1. s \subseteq Int
      OBVIOUS
    <2>2. PICK b \in Int : \A x \in s : b <= x
      <3>1. \A x \in s : 0 <= x
        OBVIOUS
      <3> QED BY <3>1
    <2>3. s # {}
      BY <1>1
    <2> QED BY <2>1, <2>2, <2>3, MinIs
  <1>2. PicksFrom(p, 1 .. n)
    BY <1>1 DEF PicksFrom
  <1>3. \A s \in SUBSET (1 .. n) : p[s] = Min(s)
    OBVIOUS
  <1>4. IsFiniteSet(1 .. n)
    BY FS_Interval
  <1> DEFINE I == 1 .. n
  <1>6. IsFiniteSet(I) /\ PicksFrom(p, I) /\ StaysIn(h, I, V)
    BY <1>2, <1>4
  <1> HIDE DEF p, I
  <1>7. \E f \in [SUBSET I -> V] : FoldOf(f, I, p, base, h)
    BY <1>6, FoldExists
  <1>5. \E f \in [SUBSET (1 .. n) -> V] : FoldOf(f, 1 .. n, p, base, h)
    BY <1>7 DEF I
  <1> QED BY <1>3, <1>5 DEF FoldOf, RightFoldOf

\* The largest element of 1 .. k, and what is left without it.
LEMMA MaxUpTo ==
    ASSUME NEW k \in Nat \ {0}
    PROVE  Max(1 .. k) = k /\ (1 .. k) \ {k} = 1 .. (k - 1)
  <1>1. Max(1 .. k) \in 1 .. k /\ \A y \in 1 .. k : y <= Max(1 .. k)
    BY MaxIs
  <1> QED BY <1>1

\* The smallest element of k .. n, and what is left without it.
LEMMA MinFrom ==
    ASSUME NEW k \in Int, NEW n \in Int, k <= n
    PROVE  Min(k .. n) = k /\ (k .. n) \ {k} = (k + 1) .. n
  <1>1. Min(k .. n) \in k .. n /\ \A y \in k .. n : Min(k .. n) <= y
    BY MinIs
  <1> QED BY <1>1

-----------------------------------------------------------------------------
(* llama_kv_cells: one cell.                                               *)

\* The types of llama_kv_cells, and what its redundant parts say of each other.
CellsType ==
    [pos : [Idx -> -1 .. MaxLen - 1], shift : [Idx -> Int], seq : [Idx -> SUBSET Seqs],
     used : SUBSET Idx, has_shift : BOOLEAN, seq_pos : [Seqs -> [0 .. MaxLen -> Int]]]

Holders(c, q, p) == {i \in Idx : q \in c.seq[i] /\ c.pos[i] = p}
One(c, i, q, p) == IF q \in c.seq[i] /\ c.pos[i] = p THEN 1 ELSE 0

Counted(c) == \A q \in Seqs, p \in 0 .. MaxLen : c.seq_pos[q][p] = Cardinality(Holders(c, q, p))
Marked(c) == \A i \in Idx : /\ (i \in c.used) <=> (c.pos[i] # -1)
                            /\ (c.pos[i] # -1) <=> (c.seq[i] # {})
Announced(c) == c.has_shift \/ \A i \in Idx : c.shift[i] = 0

Good == {c \in CellsType : Counted(c) /\ Marked(c) /\ Announced(c)}

\* The other cells are the same in c and d.
OthersSame(c, d, i) ==
    \A j \in Idx \ {i} : /\ d.pos[j] = c.pos[j] /\ d.seq[j] = c.seq[j]
                         /\ d.shift[j] = c.shift[j]
                         /\ (j \in d.used) <=> (j \in c.used)

\* The counts of d are those of c with cell i replaced.
Recounted(c, d, i) ==
    \A q \in Seqs, p \in 0 .. MaxLen :
        d.seq_pos[q][p] = c.seq_pos[q][p] - One(c, i, q, p) + One(d, i, q, p)

\* The constants are positive numbers.
LEMMA Consts ==
    /\ NSeq \in Nat \ {0} /\ Size \in Nat \ {0} /\ NSwa \in Nat \ {0}
    /\ UBatch \in Nat \ {0} /\ MaxLen \in Nat \ {0} /\ MaxNew \in Nat \ {0}
    /\ MaxOps \in Nat \ {0}
  BY KVAssumption DEF KVAssumption

\* The sequences and the cells are finitely many.
LEMMA Finite ==
    /\ IsFiniteSet(Idx) /\ IsFiniteSet(Seqs)
    /\ Idx \subseteq Nat /\ Seqs \subseteq Nat
  BY Consts, FS_Interval DEF Idx, Seqs

\* The cells that hold a position change by the one cell that changes.
LEMMA CountChange ==
    ASSUME NEW c \in CellsType, NEW d \in CellsType, NEW i \in Idx, OthersSame(c, d, i),
           NEW q \in Seqs, NEW p \in 0 .. MaxLen
    PROVE  Cardinality(Holders(d, q, p))
             = Cardinality(Holders(c, q, p)) - One(c, i, q, p) + One(d, i, q, p)
  <1> DEFINE R == Holders(c, q, p) \ {i}
  <1>1. R = Holders(d, q, p) \ {i}
    BY DEF Holders, OthersSame
  <1>2. IsFiniteSet(R) /\ Cardinality(R) \in Nat
    <2>1. R \subseteq Idx
      BY DEF Holders
    <2> QED BY <2>1, Finite, FS_Subset, FS_CardinalityType
  <1>3. Holders(c, q, p) = IF One(c, i, q, p) = 1 THEN R \cup {i} ELSE R
    BY DEF Holders, One
  <1>4. Holders(d, q, p) = IF One(d, i, q, p) = 1 THEN R \cup {i} ELSE R
    BY <1>1 DEF Holders, One
  <1>5. Cardinality(R \cup {i}) = Cardinality(R) + 1
    BY <1>2, FS_AddElement
  <1>6. One(c, i, q, p) \in {0, 1} /\ One(d, i, q, p) \in {0, 1}
    BY DEF One
  <1> HIDE DEF R
  <1> QED BY <1>2, <1>3, <1>4, <1>5, <1>6

\* A change of one cell that keeps the books keeps them all.
LEMMA OneCell ==
    ASSUME NEW c \in Good, NEW d \in CellsType, NEW i \in Idx, OthersSame(c, d, i),
           Recounted(c, d, i),
           (i \in d.used) <=> (d.pos[i] # -1),
           (d.pos[i] # -1) <=> (d.seq[i] # {}),
           d.has_shift \/ (~ c.has_shift /\ d.shift[i] \in {0, c.shift[i]})
    PROVE  d \in Good
  <1>1. c \in CellsType /\ Counted(c) /\ Marked(c) /\ Announced(c)
    BY DEF Good
  <1>2. Counted(d)
    <2> SUFFICES ASSUME NEW q \in Seqs, NEW p \in 0 .. MaxLen
                 PROVE  d.seq_pos[q][p] = Cardinality(Holders(d, q, p))
      BY DEF Counted
    <2>1. Cardinality(Holders(d, q, p))
            = Cardinality(Holders(c, q, p)) - One(c, i, q, p) + One(d, i, q, p)
      BY <1>1, CountChange
    <2>2. c.seq_pos[q][p] = Cardinality(Holders(c, q, p))
      BY <1>1 DEF Counted
    <2>3. d.seq_pos[q][p] = c.seq_pos[q][p] - One(c, i, q, p) + One(d, i, q, p)
      BY DEF Recounted
    <2> QED BY <2>1, <2>2, <2>3
  <1>3. Marked(d)
    BY <1>1 DEF Marked, OthersSame
  <1>4. Announced(d)
    <2>1. CASE d.has_shift
      BY <2>1 DEF Announced
    <2>2. CASE ~ c.has_shift /\ d.shift[i] \in {0, c.shift[i]}
      <3>1. \A j \in Idx : c.shift[j] = 0
        BY <1>1, <2>2 DEF Announced
      <3> QED BY <3>1, <2>2 DEF Announced, OthersSame
    <2> QED BY <2>1, <2>2
  <1> QED BY <1>2, <1>3, <1>4 DEF Good

\* What SeqPosCount changes.
CountedAs(c, r, i, qs, n) ==
    /\ r \in CellsType
    /\ r.pos = c.pos /\ r.seq = c.seq /\ r.shift = c.shift /\ r.used = c.used
    /\ r.has_shift = c.has_shift
    /\ \A q \in Seqs, p \in 0 .. MaxLen :
          r.seq_pos[q][p] = c.seq_pos[q][p] + IF q \in qs /\ p = c.pos[i] THEN n ELSE 0

\* seq_pos_inc() and seq_pos_dec() change the counts of one position, and nothing
\* else.
LEMMA CountIs ==
    ASSUME NEW c \in CellsType, NEW i \in Idx, NEW qs \in SUBSET Seqs, NEW n \in Int
    PROVE  CountedAs(c, SeqPosCount(c, i, qs, n), i, qs, n)
  <1> DEFINE sp == [q \in Seqs |-> IF q \in qs THEN [c.seq_pos[q] EXCEPT ![c.pos[i]] = @ + n]
                                  ELSE c.seq_pos[q]]
  <1>1. SeqPosCount(c, i, qs, n) = [c EXCEPT !.seq_pos = sp]
    BY Zenon DEF SeqPosCount
  <1>0. c.seq_pos \in [Seqs -> [0 .. MaxLen -> Int]]
    BY DEF CellsType
  <1> DEFINE one(f, x) == [f EXCEPT ![x] = @ + n]
  <1>4. \A f \in [0 .. MaxLen -> Int] : \A x : one(f, x) \in [0 .. MaxLen -> Int]
    <2> TAKE f \in [0 .. MaxLen -> Int]
    <2> TAKE x
    <2>1. CASE x \in 0 .. MaxLen
      <3>1. f[x] + n \in Int
        BY <2>1
      <3> QED BY <3>1
    <2>2. CASE x \notin 0 .. MaxLen
      <3>1. one(f, x) = f
        BY <2>2
      <3> QED BY <3>1
    <2> QED BY <2>1, <2>2
  <1>5. \A f \in [0 .. MaxLen -> Int] : \A x : \A p \in 0 .. MaxLen :
            one(f, x)[p] = f[p] + IF p = x THEN n ELSE 0
    OBVIOUS
  <1>6. sp = [q \in Seqs |-> IF q \in qs THEN one(c.seq_pos[q], c.pos[i]) ELSE c.seq_pos[q]]
    OBVIOUS
  <1> HIDE DEF one, sp
  <1>2. sp \in [Seqs -> [0 .. MaxLen -> Int]]
    BY <1>0, <1>4, <1>6
  <1>3. \A q \in Seqs, p \in 0 .. MaxLen :
             sp[q][p] = c.seq_pos[q][p] + IF q \in qs /\ p = c.pos[i] THEN n ELSE 0
    <2> TAKE q \in Seqs, p \in 0 .. MaxLen
    <2>1. c.seq_pos[q] \in [0 .. MaxLen -> Int] /\ c.seq_pos[q][p] \in Int
      BY <1>0
    <2>2. CASE q \in qs
      <3>1. sp[q] = one(c.seq_pos[q], c.pos[i])
        BY <1>6, <2>2
      <3> QED BY <2>1, <3>1, <1>5, <2>2
    <2>3. CASE q \notin qs
      BY <1>6, <2>1, <2>3
    <2> QED BY <2>2, <2>3
  <1> HIDE DEF sp
  <1> QED BY <1>1, <1>2, <1>3 DEF CellsType, CountedAs

\* What cell i of d is.
At(d, i, p, S) == d.pos[i] = p /\ d.seq[i] = S

\* What the bookkeeping of a stream says of one cell.
LEMMA GoodType ==
    ASSUME NEW c \in Good, NEW i \in Idx
    PROVE  /\ c \in CellsType
           /\ c.pos[i] \in -1 .. MaxLen - 1 /\ c.seq[i] \in SUBSET Seqs /\ c.shift[i] \in Int
           /\ (i \in c.used) <=> (c.pos[i] # -1)
           /\ (c.pos[i] # -1) <=> (c.seq[i] # {})
           /\ c.has_shift \in BOOLEAN
           /\ ~ c.has_shift => c.shift[i] = 0
  BY DEF Good, CellsType, Marked, Announced

\* r is c with cell i emptied.
EmptiedAs(c, r, i) ==
    /\ r \in CellsType /\ OthersSame(c, r, i) /\ At(r, i, -1, {})
    /\ i \notin r.used /\ r.shift[i] = 0
    /\ r.has_shift = c.has_shift /\ r.seq_pos = c.seq_pos

\* r is a good successor of c, where cell i has position p and sequences S.
Turned(c, r, i, p, S) ==
    /\ r \in Good /\ OthersSame(c, r, i) /\ At(r, i, p, S) /\ r.has_shift = c.has_shift

\* A cell that is emptied has no position, no shift and no sequence.
LEMMA EmptiedIs ==
    ASSUME NEW c \in CellsType, NEW i \in Idx
    PROVE  EmptiedAs(c, Emptied(c, i), i)
  <1>1. -1 \in -1 .. MaxLen - 1
    BY Consts
  <1> DEFINE r == Emptied(c, i)
  <1>2. /\ r.pos = [c.pos EXCEPT ![i] = -1] /\ r.shift = [c.shift EXCEPT ![i] = 0]
        /\ r.seq = [c.seq EXCEPT ![i] = {}] /\ r.used = c.used \ {i}
        /\ r.has_shift = c.has_shift /\ r.seq_pos = c.seq_pos
    BY DEF Emptied, CellsType
  <1>5. /\ [c.pos EXCEPT ![i] = -1] \in [Idx -> -1 .. MaxLen - 1]
        /\ [c.shift EXCEPT ![i] = 0] \in [Idx -> Int]
        /\ [c.seq EXCEPT ![i] = {}] \in [Idx -> SUBSET Seqs]
        /\ c.used \ {i} \in SUBSET Idx
    BY <1>1 DEF CellsType
  <1>3. r \in CellsType
    BY <1>5 DEF Emptied, CellsType
  <1> HIDE DEF r
  <1>4. OthersSame(c, r, i) /\ At(r, i, -1, {}) /\ r.shift[i] = 0 /\ i \notin r.used
    BY <1>2 DEF CellsType, OthersSame, At
  <1> QED BY <1>2, <1>3, <1>4 DEF EmptiedAs, r

\* rm() empties a cell and keeps the bookkeeping.
LEMMA RmIs ==
    ASSUME NEW c \in Good, NEW i \in Idx
    PROVE  Turned(c, Rm(c, i), i, -1, {})
  <1> DEFINE a == SeqPosRm(c, i)
             r == Rm(c, i)
  <1>1. c \in CellsType /\ c.seq[i] \in SUBSET Seqs
    BY GoodType
  <1>20. CountedAs(c, a, i, c.seq[i], -1)
    BY <1>1, CountIs DEF SeqPosRm
  <1> HIDE DEF a
  <1>2. /\ a \in CellsType
        /\ a.pos = c.pos /\ a.seq = c.seq /\ a.shift = c.shift /\ a.used = c.used
        /\ a.has_shift = c.has_shift
        /\ \A q \in Seqs, p \in 0 .. MaxLen :
              a.seq_pos[q][p] = c.seq_pos[q][p] + IF q \in c.seq[i] /\ p = c.pos[i] THEN -1 ELSE 0
    BY <1>1, <1>20 DEF CountedAs
  <1>3. r = Emptied(a, i)
    BY DEF Rm, a
  <1> HIDE DEF a, r
  <1>4. /\ r \in CellsType /\ OthersSame(a, r, i) /\ At(r, i, -1, {})
        /\ i \notin r.used /\ r.shift[i] = 0
        /\ r.has_shift = a.has_shift /\ r.seq_pos = a.seq_pos
    BY <1>2, <1>3, EmptiedIs DEF EmptiedAs
  <1>5. OthersSame(c, r, i)
    BY <1>2, <1>4 DEF OthersSame
  <1>6. Recounted(c, r, i)
    <2> SUFFICES ASSUME NEW q \in Seqs, NEW p \in 0 .. MaxLen
                 PROVE  r.seq_pos[q][p] = c.seq_pos[q][p] - One(c, i, q, p) + One(r, i, q, p)
      BY DEF Recounted
    <2>1. One(r, i, q, p) = 0
      BY <1>4 DEF One, At
    <2>2. c.seq_pos[q][p] \in Int
      BY <1>1 DEF CellsType
    <2> QED BY <1>2, <1>4, <2>1, <2>2 DEF One
  <1>7. r \in Good
    BY <1>2, <1>4, <1>5, <1>6, OneCell, GoodType DEF At
  <1> QED BY <1>2, <1>4, <1>5, <1>7 DEF r, Turned

\* seq_rm() takes one sequence out of a cell and empties a cell that was only its.
LEMMA SeqRmIs ==
    ASSUME NEW c \in Good, NEW i \in Idx, NEW q \in Seqs, q \in c.seq[i]
    PROVE  /\ Turned(c, SeqRm(c, i, q), i,
                     IF c.seq[i] \ {q} = {} THEN -1 ELSE c.pos[i], c.seq[i] \ {q})
           /\ c.seq[i] \ {q} # {} => SeqRm(c, i, q).shift[i] = c.shift[i]
  <1> DEFINE a == SeqPosCount(c, i, {q}, -1)
             b == [a EXCEPT !.seq[i] = @ \ {q}]
             r == SeqRm(c, i, q)
             S == c.seq[i] \ {q}
  <1>1. c \in CellsType /\ {q} \in SUBSET Seqs /\ S \in SUBSET Seqs
    BY GoodType
  <1>20. CountedAs(c, a, i, {q}, -1)
    BY <1>1, CountIs
  <1> HIDE DEF a
  <1>2. /\ a \in CellsType
        /\ a.pos = c.pos /\ a.seq = c.seq /\ a.shift = c.shift /\ a.used = c.used
        /\ a.has_shift = c.has_shift
        /\ \A x \in Seqs, p \in 0 .. MaxLen :
              a.seq_pos[x][p] = c.seq_pos[x][p] + IF x \in {q} /\ p = c.pos[i] THEN -1 ELSE 0
    BY <1>1, <1>20 DEF CountedAs
  <1> HIDE DEF a
  <1>3. /\ b \in CellsType /\ b.seq[i] = S
        /\ b.pos = a.pos /\ b.shift = a.shift /\ b.used = a.used /\ b.has_shift = a.has_shift
        /\ b.seq_pos = a.seq_pos
        /\ \A j \in Idx \ {i} : b.seq[j] = a.seq[j]
    BY <1>1, <1>2 DEF CellsType
  <1>4. r = IF b.seq[i] = {} THEN Emptied(b, i) ELSE b
    BY DEF SeqRm, a
  <1> HIDE DEF b, r
  <1>5. Emptied(b, i) = r \/ (S # {} /\ r = b)
    BY <1>3, <1>4
  <1>6. /\ r \in CellsType /\ OthersSame(b, r, i)
        /\ At(r, i, IF S = {} THEN -1 ELSE c.pos[i], S)
        /\ S = {} => i \notin r.used /\ r.shift[i] = 0
        /\ S # {} => r.shift[i] = c.shift[i] /\ r.used = c.used
        /\ r.has_shift = c.has_shift /\ r.seq_pos = a.seq_pos
    <2>1. CASE S = {}
      <3>1. r = Emptied(b, i)
        BY <1>3, <1>4, <2>1
      <3> QED BY <1>2, <1>3, <2>1, <3>1, EmptiedIs DEF At, EmptiedAs
    <2>2. CASE S # {}
      <3>1. r = b
        BY <1>3, <1>4, <2>2
      <3> QED BY <1>2, <1>3, <2>2, <3>1 DEF At, OthersSame
    <2> QED BY <2>1, <2>2
  <1>7. OthersSame(c, r, i)
    BY <1>2, <1>3, <1>6 DEF OthersSame
  <1>8. Recounted(c, r, i)
    <2> SUFFICES ASSUME NEW x \in Seqs, NEW p \in 0 .. MaxLen
                 PROVE  r.seq_pos[x][p] = c.seq_pos[x][p] - One(c, i, x, p) + One(r, i, x, p)
      BY DEF Recounted
    <2>1. c.seq_pos \in [Seqs -> [0 .. MaxLen -> Int]]
      BY <1>1 DEF CellsType
    <2>2. c.seq_pos[x][p] \in Int
      BY <2>1
    <2>3. r.seq_pos[x][p] = c.seq_pos[x][p] + IF x = q /\ p = c.pos[i] THEN -1 ELSE 0
      BY <1>2, <1>6
    <2>4. One(r, i, x, p) = IF x # q THEN One(c, i, x, p) ELSE 0
      BY <1>6 DEF At, One
    <2> QED BY <2>2, <2>3, <2>4 DEF One
  <1>9. r \in Good
    <2>1. (i \in r.used) <=> (r.pos[i] # -1)
      BY <1>6, GoodType DEF At
    <2>2. (r.pos[i] # -1) <=> (r.seq[i] # {})
      BY <1>6, GoodType DEF At
    <2>3. r.has_shift \/ (~ c.has_shift /\ r.shift[i] \in {0, c.shift[i]})
      BY <1>6, GoodType
    <2> QED BY <1>6, <1>7, <1>8, <2>1, <2>2, <2>3, OneCell
  <1> QED BY <1>6, <1>7, <1>9 DEF r, Turned

\* seq_add() puts one more sequence into a cell that has a position.
LEMMA SeqAddIs ==
    ASSUME NEW c \in Good, NEW i \in Idx, NEW q \in Seqs, q \notin c.seq[i], c.seq[i] # {}
    PROVE  /\ Turned(c, SeqAdd(c, i, q), i, c.pos[i], c.seq[i] \cup {q})
           /\ SeqAdd(c, i, q).shift[i] = c.shift[i]
  <1> DEFINE a == SeqPosCount(c, i, {q}, 1)
             r == SeqAdd(c, i, q)
             S == c.seq[i] \cup {q}
  <1>1. c \in CellsType /\ {q} \in SUBSET Seqs /\ S \in SUBSET Seqs
    BY GoodType
  <1>20. CountedAs(c, a, i, {q}, 1)
    BY <1>1, CountIs
  <1> HIDE DEF a
  <1>2. /\ a \in CellsType
        /\ a.pos = c.pos /\ a.seq = c.seq /\ a.shift = c.shift /\ a.used = c.used
        /\ a.has_shift = c.has_shift
        /\ \A x \in Seqs, p \in 0 .. MaxLen :
              a.seq_pos[x][p] = c.seq_pos[x][p] + IF x \in {q} /\ p = c.pos[i] THEN 1 ELSE 0
    BY <1>1, <1>20 DEF CountedAs
  <1>4. r = [a EXCEPT !.seq[i] = @ \cup {q}]
    BY DEF SeqAdd, a
  <1> HIDE DEF a, r
  <1>3. /\ r \in CellsType /\ r.seq[i] = S
        /\ r.pos = a.pos /\ r.shift = a.shift /\ r.used = a.used /\ r.has_shift = a.has_shift
        /\ r.seq_pos = a.seq_pos
        /\ \A j \in Idx \ {i} : r.seq[j] = a.seq[j]
    BY <1>1, <1>2, <1>4 DEF CellsType
  <1>6. At(r, i, c.pos[i], S) /\ r.shift[i] = c.shift[i] /\ r.used = c.used
    BY <1>2, <1>3 DEF At
  <1>7. OthersSame(c, r, i)
    BY <1>2, <1>3 DEF OthersSame
  <1>8. Recounted(c, r, i)
    <2> SUFFICES ASSUME NEW x \in Seqs, NEW p \in 0 .. MaxLen
                 PROVE  r.seq_pos[x][p] = c.seq_pos[x][p] - One(c, i, x, p) + One(r, i, x, p)
      BY DEF Recounted
    <2>1. c.seq_pos \in [Seqs -> [0 .. MaxLen -> Int]]
      BY <1>1 DEF CellsType
    <2>2. c.seq_pos[x][p] \in Int
      BY <2>1
    <2>3. r.seq_pos[x][p] = c.seq_pos[x][p] + IF x = q /\ p = c.pos[i] THEN 1 ELSE 0
      BY <1>2, <1>3
    <2>4. One(r, i, x, p) = IF x # q THEN One(c, i, x, p) ELSE IF p = c.pos[i] THEN 1 ELSE 0
      BY <1>6 DEF At, One
    <2> QED BY <2>2, <2>3, <2>4 DEF One
  <1>9. r \in Good
    <2>1. (i \in r.used) <=> (r.pos[i] # -1)
      BY <1>6, GoodType DEF At
    <2>2. (r.pos[i] # -1) <=> (r.seq[i] # {})
      BY <1>6, GoodType DEF At
    <2>3. r.has_shift \/ (~ c.has_shift /\ r.shift[i] \in {0, c.shift[i]})
      BY <1>2, <1>3, <1>6, GoodType
    <2> QED BY <1>3, <1>7, <1>8, <2>1, <2>2, <2>3, OneCell
  <1> QED BY <1>2, <1>3, <1>6, <1>7, <1>9 DEF r, Turned

\* A count is a number.
LEMMA CountType ==
    ASSUME NEW c \in CellsType, NEW q \in Seqs, NEW p \in 0 .. MaxLen
    PROVE  c.seq_pos[q][p] \in Int
  <1>1. c.seq_pos \in [Seqs -> [0 .. MaxLen -> Int]]
    BY DEF CellsType
  <1> QED BY <1>1

\* Changes of the same cell, one after the other.
LEMMA TurnedTwice ==
    ASSUME NEW c, NEW d, NEW e, NEW i, NEW p, NEW S, NEW p2, NEW S2,
           Turned(c, d, i, p, S), Turned(d, e, i, p2, S2)
    PROVE  Turned(c, e, i, p2, S2)
  BY DEF Turned, OthersSame

\* seq_keep() leaves one sequence in a cell, or none.
LEMMA SeqKeepIs ==
    ASSUME NEW c \in Good, NEW i \in Idx, NEW q \in Seqs
    PROVE  /\ Turned(c, SeqKeep(c, i, q), i,
                     IF q \in c.seq[i] THEN c.pos[i] ELSE -1, c.seq[i] \cap {q})
           /\ q \in c.seq[i] => SeqKeep(c, i, q).shift[i] = c.shift[i]
  <1>0. CASE q \notin c.seq[i] /\ c.seq[i] # {}
    <2>1. SeqKeep(c, i, q) = Rm(c, i) /\ c.seq[i] \cap {q} = {}
      BY <1>0 DEF SeqKeep
    <2> QED BY <1>0, <2>1, RmIs
  <1>1. CASE c.seq[i] = {}
    <2>1. SeqKeep(c, i, q) = c /\ c.seq[i] \cap {q} = {} /\ c.pos[i] = -1
      BY <1>1, GoodType DEF SeqKeep
    <2> QED BY <1>1, <2>1 DEF Turned, OthersSame, At
  <1>2. CASE q \in c.seq[i]
    <2> DEFINE a == SeqPosCount(c, i, c.seq[i], -1)
               b == [a EXCEPT !.seq[i] = {q}]
               r == SeqPosCount(b, i, {q}, 1)
    <2>1. c \in CellsType /\ c.seq[i] \in SUBSET Seqs
      BY GoodType
    <2>20. CountedAs(c, a, i, c.seq[i], -1)
      BY <2>1, CountIs
    <2>2. SeqKeep(c, i, q) = SeqPosAdd(b, i)
      BY <1>2 DEF SeqKeep, SeqPosRm
    <2> HIDE DEF a
    <2>3. /\ a \in CellsType
          /\ a.pos = c.pos /\ a.seq = c.seq /\ a.shift = c.shift /\ a.used = c.used
          /\ a.has_shift = c.has_shift
          /\ \A x \in Seqs, p \in 0 .. MaxLen :
                a.seq_pos[x][p] = c.seq_pos[x][p] + IF x \in c.seq[i] /\ p = c.pos[i] THEN -1 ELSE 0
      BY <2>20 DEF CountedAs
    <2>4. [a.seq EXCEPT ![i] = {q}] \in [Idx -> SUBSET Seqs]
      BY <2>3 DEF CellsType
    <2>5. /\ b \in CellsType /\ b.seq[i] = {q}
          /\ b.pos = a.pos /\ b.shift = a.shift /\ b.used = a.used /\ b.has_shift = a.has_shift
          /\ b.seq_pos = a.seq_pos
          /\ \A j \in Idx \ {i} : b.seq[j] = a.seq[j]
      BY <2>3, <2>4 DEF CellsType
    <2> HIDE DEF b
    <2>6. SeqKeep(c, i, q) = r
      BY <2>2, <2>5 DEF SeqPosAdd
    <2>7. CountedAs(b, r, i, {q}, 1)
      BY <2>5, CountIs
    <2> HIDE DEF r
    <2>8. /\ r \in CellsType
          /\ r.pos = c.pos /\ r.seq = b.seq /\ r.shift = c.shift /\ r.used = c.used
          /\ r.has_shift = c.has_shift
          /\ \A x \in Seqs, p \in 0 .. MaxLen :
                r.seq_pos[x][p] = b.seq_pos[x][p] + IF x \in {q} /\ p = b.pos[i] THEN 1 ELSE 0
      BY <2>3, <2>5, <2>7 DEF CountedAs
    <2>9. OthersSame(c, r, i) /\ At(r, i, c.pos[i], {q}) /\ r.shift[i] = c.shift[i]
      BY <2>3, <2>5, <2>8 DEF OthersSame, At
    <2>10. Recounted(c, r, i)
      <3> SUFFICES ASSUME NEW x \in Seqs, NEW p \in 0 .. MaxLen
                   PROVE  r.seq_pos[x][p] = c.seq_pos[x][p] - One(c, i, x, p) + One(r, i, x, p)
        BY DEF Recounted
      <3>1. c.seq_pos[x][p] \in Int
        BY <2>1, CountType
      <3>2. a.seq_pos[x][p] = c.seq_pos[x][p] - One(c, i, x, p)
        BY <2>3, <3>1 DEF One
      <3>3. r.seq_pos[x][p] = a.seq_pos[x][p] + IF x = q /\ p = c.pos[i] THEN 1 ELSE 0
        BY <2>3, <2>5, <2>8
      <3>4. One(r, i, x, p) = IF x = q /\ p = c.pos[i] THEN 1 ELSE 0
        BY <2>9 DEF One, At
      <3> QED BY <3>2, <3>3, <3>4
    <2>11. c.pos[i] # -1 /\ i \in r.used /\ r.seq[i] # {}
      BY <1>2, <2>8, <2>5, GoodType
    <2>12. r.has_shift \/ (~ c.has_shift /\ r.shift[i] \in {0, c.shift[i]})
      BY <2>8, <2>9, GoodType
    <2>13. r \in Good
      BY <2>8, <2>9, <2>10, <2>11, <2>12, OneCell
    <2>14. c.seq[i] \cap {q} = {q}
      BY <1>2
    <2> QED BY <1>2, <2>6, <2>8, <2>9, <2>13, <2>14 DEF Turned
  <1> QED BY <1>0, <1>1, <1>2

\* A token comes into an empty cell.
LEMMA FillIs ==
    ASSUME NEW c \in Good, NEW i \in Idx, NEW q \in Seqs, NEW p \in 0 .. MaxLen - 1,
           c.pos[i] = -1
    PROVE  /\ Turned(c, SeqAdd(PosSet(c, i, p), i, q), i, p, {q})
           /\ SeqAdd(PosSet(c, i, p), i, q).shift[i] = c.shift[i]
  <1> DEFINE a == PosSet(c, i, p)
             b == SeqPosCount(a, i, {q}, 1)
             r == SeqAdd(a, i, q)
  <1>1. c \in CellsType /\ c.seq[i] = {} /\ p \in -1 .. MaxLen - 1 /\ p # -1
    BY GoodType
  <1>2. /\ [c.pos EXCEPT ![i] = p] \in [Idx -> -1 .. MaxLen - 1]
        /\ c.used \cup {i} \in SUBSET Idx
    BY <1>1 DEF CellsType
  <1>3. /\ a \in CellsType /\ a.pos = [c.pos EXCEPT ![i] = p] /\ a.used = c.used \cup {i}
        /\ a.seq = c.seq /\ a.shift = c.shift /\ a.has_shift = c.has_shift
        /\ a.seq_pos = c.seq_pos
    BY <1>1, <1>2 DEF PosSet, CellsType
  <1>4. a.pos[i] = p /\ \A j \in Idx \ {i} : a.pos[j] = c.pos[j]
    BY <1>1, <1>3 DEF CellsType
  <1> HIDE DEF a
  <1>5. CountedAs(a, b, i, {q}, 1)
    BY <1>3, CountIs
  <1>6. r = [b EXCEPT !.seq[i] = @ \cup {q}]
    BY DEF SeqAdd
  <1> HIDE DEF b, r
  <1>7. /\ b \in CellsType
        /\ b.pos = a.pos /\ b.seq = c.seq /\ b.shift = c.shift /\ b.used = a.used
        /\ b.has_shift = c.has_shift
        /\ \A x \in Seqs, y \in 0 .. MaxLen :
              b.seq_pos[x][y] = a.seq_pos[x][y] + IF x \in {q} /\ y = a.pos[i] THEN 1 ELSE 0
    BY <1>3, <1>5 DEF CountedAs
  <1>8. [b.seq EXCEPT ![i] = @ \cup {q}] \in [Idx -> SUBSET Seqs]
    BY <1>7 DEF CellsType
  <1>9. /\ r \in CellsType /\ r.seq = [b.seq EXCEPT ![i] = @ \cup {q}]
        /\ r.pos = b.pos /\ r.shift = b.shift /\ r.used = b.used /\ r.has_shift = b.has_shift
        /\ r.seq_pos = b.seq_pos
    BY <1>6, <1>7, <1>8 DEF CellsType
  <1>10. r.seq[i] = {q} /\ \A j \in Idx \ {i} : r.seq[j] = c.seq[j]
    BY <1>1, <1>7, <1>9 DEF CellsType
  <1>11. OthersSame(c, r, i) /\ At(r, i, p, {q}) /\ r.shift[i] = c.shift[i]
    BY <1>3, <1>4, <1>7, <1>9, <1>10 DEF OthersSame, At
  <1>12. Recounted(c, r, i)
    <2> SUFFICES ASSUME NEW x \in Seqs, NEW y \in 0 .. MaxLen
                 PROVE  r.seq_pos[x][y] = c.seq_pos[x][y] - One(c, i, x, y) + One(r, i, x, y)
      BY DEF Recounted
    <2>1. c.seq_pos[x][y] \in Int
      BY <1>1, CountType
    <2>2. One(c, i, x, y) = 0
      BY <1>1 DEF One
    <2>3. One(r, i, x, y) = IF x = q /\ y = p THEN 1 ELSE 0
      BY <1>11 DEF One, At
    <2>4. r.seq_pos[x][y] = c.seq_pos[x][y] + IF x = q /\ y = p THEN 1 ELSE 0
      BY <1>3, <1>4, <1>7, <1>9
    <2> QED BY <2>1, <2>2, <2>3, <2>4
  <1>13. i \in r.used /\ r.pos[i] # -1 /\ r.seq[i] # {}
    BY <1>1, <1>3, <1>4, <1>7, <1>9, <1>10
  <1>14. r.has_shift \/ (~ c.has_shift /\ r.shift[i] \in {0, c.shift[i]})
    BY <1>7, <1>9, <1>11, GoodType
  <1>15. r \in Good
    BY <1>9, <1>11, <1>12, <1>13, <1>14, OneCell
  <1> QED BY <1>7, <1>9, <1>11, <1>15 DEF Turned, r, a

\* pos_add() moves a cell and its shift by the same distance, as long as the position
\* stays in range.
LEMMA PosAddIs ==
    ASSUME NEW c \in Good, NEW i \in Idx, NEW n \in Int, c.pos[i] # -1,
           c.pos[i] + n \in 0 .. MaxLen - 1
    PROVE  LET r == PosAdd(c, i, n)
           IN  /\ r \in Good /\ OthersSame(c, r, i) /\ At(r, i, c.pos[i] + n, c.seq[i])
               /\ r.shift[i] = c.shift[i] + n
  <1> DEFINE a == SeqPosRm(c, i)
             b == [a EXCEPT !.pos[i] = @ + n, !.shift[i] = @ + n, !.has_shift = TRUE]
             r == SeqPosAdd(b, i)
  <1>1. c \in CellsType /\ c.seq[i] \in SUBSET Seqs /\ c.seq[i] # {}
    BY GoodType
  <1>2. CountedAs(c, a, i, c.seq[i], -1)
    BY <1>1, CountIs DEF SeqPosRm
  <1>3. PosAdd(c, i, n) = IF b.pos[i] < 0 THEN Emptied(b, i) ELSE r
    BY Zenon DEF PosAdd
  <1> HIDE DEF a
  <1>4. /\ a \in CellsType
        /\ a.pos = c.pos /\ a.seq = c.seq /\ a.shift = c.shift /\ a.used = c.used
        /\ a.has_shift = c.has_shift
        /\ \A x \in Seqs, p \in 0 .. MaxLen :
              a.seq_pos[x][p] = c.seq_pos[x][p] + IF x \in c.seq[i] /\ p = c.pos[i] THEN -1 ELSE 0
    BY <1>2 DEF CountedAs
  <1>5. /\ [a.pos EXCEPT ![i] = @ + n] \in [Idx -> -1 .. MaxLen - 1]
        /\ [a.shift EXCEPT ![i] = @ + n] \in [Idx -> Int]
    BY <1>4 DEF CellsType
  <1>6. /\ b \in CellsType /\ b.pos = [a.pos EXCEPT ![i] = @ + n]
        /\ b.shift = [a.shift EXCEPT ![i] = @ + n] /\ b.has_shift = TRUE
        /\ b.seq = a.seq /\ b.used = a.used /\ b.seq_pos = a.seq_pos
    BY <1>4, <1>5 DEF CellsType
  <1> HIDE DEF b
  <1>7. /\ b.pos[i] = c.pos[i] + n /\ b.shift[i] = c.shift[i] + n
        /\ \A j \in Idx \ {i} : b.pos[j] = c.pos[j] /\ b.shift[j] = c.shift[j]
    BY <1>4, <1>6 DEF CellsType
  <1>8. PosAdd(c, i, n) = r
    BY <1>3, <1>7
  <1>9. CountedAs(b, r, i, c.seq[i], 1)
    BY <1>1, <1>4, <1>6, CountIs DEF SeqPosAdd
  <1> HIDE DEF r
  <1>10. /\ r \in CellsType
         /\ r.pos = b.pos /\ r.seq = c.seq /\ r.shift = b.shift /\ r.used = c.used
         /\ r.has_shift = TRUE
         /\ \A x \in Seqs, p \in 0 .. MaxLen :
               r.seq_pos[x][p] = a.seq_pos[x][p]
                                 + IF x \in c.seq[i] /\ p = c.pos[i] + n THEN 1 ELSE 0
    BY <1>4, <1>6, <1>7, <1>9 DEF CountedAs
  <1>11. OthersSame(c, r, i) /\ At(r, i, c.pos[i] + n, c.seq[i])
         /\ r.shift[i] = c.shift[i] + n
    BY <1>7, <1>10 DEF OthersSame, At
  <1>12. Recounted(c, r, i)
    <2> SUFFICES ASSUME NEW x \in Seqs, NEW p \in 0 .. MaxLen
                 PROVE  r.seq_pos[x][p] = c.seq_pos[x][p] - One(c, i, x, p) + One(r, i, x, p)
      BY DEF Recounted
    <2>1. c.seq_pos[x][p] \in Int
      BY <1>1, CountType
    <2>2. a.seq_pos[x][p] = c.seq_pos[x][p] - One(c, i, x, p)
      BY <1>4, <2>1 DEF One
    <2>3. One(r, i, x, p) = IF x \in c.seq[i] /\ p = c.pos[i] + n THEN 1 ELSE 0
      BY <1>11 DEF One, At
    <2> QED BY <1>10, <2>2, <2>3
  <1>13. i \in r.used /\ r.pos[i] # -1 /\ r.seq[i] # {}
    BY <1>1, <1>10, <1>7, GoodType
  <1>14. r \in Good
    BY <1>10, <1>11, <1>12, <1>13, OneCell
  <1> QED BY <1>8, <1>11, <1>14

\* set() of a cell makes it what it was in the copy.
LEMMA SetCellIs ==
    ASSUME NEW c \in Good, NEW i \in Idx, NEW old,
           old.pos \in -1 .. MaxLen - 1, old.seq \in SUBSET Seqs,
           (old.pos # -1) <=> (old.seq # {})
    PROVE  /\ Turned(c, SetCell(c, i, old), i, old.pos, old.seq)
           /\ SetCell(c, i, old).shift[i] = c.shift[i]
  <1> DEFINE p == old.pos
             S == old.seq
             a == IF c.pos[i] # -1 THEN SeqPosRm(c, i) ELSE c
             b == [a EXCEPT !.pos[i] = p, !.seq[i] = S,
                            !.used = IF p = -1 THEN @ \ {i} ELSE @ \cup {i}]
             r == SetCell(c, i, old)
  <1>1. c \in CellsType /\ c.seq[i] \in SUBSET Seqs /\ ((c.pos[i] # -1) <=> (c.seq[i] # {}))
    BY GoodType
  <1>2. /\ a \in CellsType
        /\ a.pos = c.pos /\ a.seq = c.seq /\ a.shift = c.shift /\ a.used = c.used
        /\ a.has_shift = c.has_shift
        /\ \A x \in Seqs, y \in 0 .. MaxLen :
              a.seq_pos[x][y] = c.seq_pos[x][y] + IF x \in c.seq[i] /\ y = c.pos[i] THEN -1 ELSE 0
    <2>1. CASE c.pos[i] # -1
      <3>1. CountedAs(c, a, i, c.seq[i], -1)
        BY <1>1, <2>1, CountIs DEF SeqPosRm
      <3> HIDE DEF a
      <3> QED BY <3>1 DEF CountedAs
    <2>2. CASE c.pos[i] = -1
      <3>1. a = c /\ c.seq[i] = {}
        BY <1>1, <2>2
      <3> HIDE DEF a
      <3>2. \A x \in Seqs, y \in 0 .. MaxLen : c.seq_pos[x][y] \in Int
        BY <1>1, CountType
      <3> QED BY <1>1, <3>1, <3>2
    <2> QED BY <2>1, <2>2
  <1>3. r = IF p # -1 THEN SeqPosAdd(b, i) ELSE b
    BY Zenon DEF SetCell
  <1>30. p \in -1 .. MaxLen - 1 /\ S \in SUBSET Seqs /\ ((p # -1) <=> (S # {}))
    OBVIOUS
  <1> HIDE DEF a, p, S
  <1>4. /\ [a.pos EXCEPT ![i] = p] \in [Idx -> -1 .. MaxLen - 1]
        /\ [a.seq EXCEPT ![i] = S] \in [Idx -> SUBSET Seqs]
        /\ (IF p = -1 THEN a.used \ {i} ELSE a.used \cup {i}) \in SUBSET Idx
    BY <1>2, <1>30 DEF CellsType
  <1>5. /\ b \in CellsType /\ b.pos = [a.pos EXCEPT ![i] = p]
        /\ b.seq = [a.seq EXCEPT ![i] = S]
        /\ b.used = (IF p = -1 THEN a.used \ {i} ELSE a.used \cup {i})
        /\ b.shift = a.shift /\ b.has_shift = a.has_shift /\ b.seq_pos = a.seq_pos
    BY <1>2, <1>4 DEF CellsType
  <1> HIDE DEF b
  <1>6. /\ b.pos[i] = p /\ b.seq[i] = S
        /\ \A j \in Idx \ {i} : b.pos[j] = c.pos[j] /\ b.seq[j] = c.seq[j]
    BY <1>2, <1>5 DEF CellsType
  <1> HIDE DEF r
  <1>7. /\ r \in CellsType
        /\ r.pos = b.pos /\ r.seq = b.seq /\ r.shift = c.shift /\ r.used = b.used
        /\ r.has_shift = c.has_shift
        /\ \A x \in Seqs, y \in 0 .. MaxLen :
              r.seq_pos[x][y] = a.seq_pos[x][y] + IF x \in S /\ y = p THEN 1 ELSE 0
    <2>1. CASE p # -1
      <3>0. r = SeqPosCount(b, i, S, 1)
        BY <1>3, <1>6, <2>1 DEF SeqPosAdd
      <3>1. CountedAs(b, r, i, S, 1)
        BY <1>5, <1>30, <3>0, CountIs
      <3> QED BY <1>2, <1>5, <1>6, <3>1 DEF CountedAs
    <2>2. CASE p = -1
      <3>1. r = b /\ S = {}
        BY <1>3, <1>30, <2>2
      <3>2. \A x \in Seqs, y \in 0 .. MaxLen : b.seq_pos[x][y] \in Int
        BY <1>5, CountType
      <3> QED BY <1>2, <1>5, <3>1, <3>2
    <2> QED BY <2>1, <2>2
  <1>8. OthersSame(c, r, i) /\ At(r, i, p, S) /\ r.shift[i] = c.shift[i]
    <2>1. \A j \in Idx \ {i} : (j \in r.used) <=> (j \in c.used)
      BY <1>2, <1>5, <1>7
    <2> QED BY <1>6, <1>7, <2>1 DEF OthersSame, At
  <1>9. Recounted(c, r, i)
    <2> SUFFICES ASSUME NEW x \in Seqs, NEW y \in 0 .. MaxLen
                 PROVE  r.seq_pos[x][y] = c.seq_pos[x][y] - One(c, i, x, y) + One(r, i, x, y)
      BY DEF Recounted
    <2>1. c.seq_pos[x][y] \in Int
      BY <1>1, CountType
    <2>2. a.seq_pos[x][y] = c.seq_pos[x][y] - One(c, i, x, y)
      BY <1>2, <2>1 DEF One
    <2>3. One(r, i, x, y) = IF x \in S /\ y = p THEN 1 ELSE 0
      BY <1>8, <1>30 DEF One, At
    <2> QED BY <1>7, <2>2, <2>3
  <1>10. (i \in r.used) <=> (r.pos[i] # -1)
    BY <1>5, <1>6, <1>7, <1>30
  <1>11. (r.pos[i] # -1) <=> (r.seq[i] # {})
    BY <1>6, <1>7, <1>30
  <1>12. r.has_shift \/ (~ c.has_shift /\ r.shift[i] \in {0, c.shift[i]})
    BY <1>7, <1>8, GoodType
  <1>13. r \in Good
    BY <1>7, <1>8, <1>9, <1>10, <1>11, <1>12, OneCell
  <1> QED BY <1>7, <1>8, <1>13 DEF Turned, r, p, S

-----------------------------------------------------------------------------
(* llama_kv_cache: the sequence operations.                                *)

\* v is c after the cells of s were turned to the positions np and the sequences ns.
Midway(c, v, s, np, ns, nh) ==
    \A i \in Idx :
        IF i \in s THEN At(v, i, np[i], ns[i]) /\ (ns[i] # {} => v.shift[i] = nh[i])
        ELSE At(v, i, c.pos[i], c.seq[i]) /\ v.shift[i] = c.shift[i]

\* h turns a cell of S that is as it was in c.
Turns(h, c, S, np, ns, nh, same) ==
    \A v \in Good, i \in S :
        At(v, i, c.pos[i], c.seq[i]) /\ v.shift[i] = c.shift[i] =>
            /\ OthersSame(v, h[<<i, v>>], i) /\ At(h[<<i, v>>], i, np[i], ns[i])
            /\ ns[i] # {} => h[<<i, v>>].shift[i] = nh[i]
            /\ same => h[<<i, v>>].has_shift = v.has_shift

Chosen(s) == CHOOSE x \in s : TRUE

\* A fold over cells that turns each of them.
CellFoldOf(f, h, c, S, np, ns, nh, same) ==
    /\ f \in [SUBSET S -> Good]
    /\ \A s \in SUBSET S : f[s] = IF s = {} THEN c ELSE h[<<Chosen(s), f[s \ {Chosen(s)}]>>]
    /\ \A s \in SUBSET S : /\ Midway(c, f[s], s, np, ns, nh)
                           /\ same => f[s].has_shift = c.has_shift

\* An operation on every cell of a set changes these cells, each once, and no other.
LEMMA CellFold ==
    ASSUME NEW c \in Good, NEW S \in SUBSET Idx, NEW np, NEW ns, NEW nh, NEW same \in BOOLEAN,
           NEW h, StaysIn(h, S, Good), Turns(h, c, S, np, ns, nh, same)
    PROVE  \E f : CellFoldOf(f, h, c, S, np, ns, nh, same)
  <1> DEFINE p == [s \in SUBSET S |-> Chosen(s)]
  <1>1. \A s \in SUBSET S : s # {} => Chosen(s) \in s
    BY DEF Chosen
  <1>2. PicksFrom(p, S)
    BY <1>1 DEF PicksFrom
  <1>3. \A s \in SUBSET S : p[s] = Chosen(s)
    OBVIOUS
  <1>4. IsFiniteSet(S)
    BY Finite, FS_Subset
  <1> HIDE DEF p
  <1>5. PICK f \in [SUBSET S -> Good] : FoldOf(f, S, p, c, h)
    BY <1>2, <1>4, FoldExists
  <1>6. \A s \in SUBSET S : f[s] = IF s = {} THEN c ELSE h[<<Chosen(s), f[s \ {Chosen(s)}]>>]
    BY <1>3, <1>5 DEF FoldOf
  <1> DEFINE W == {s \in SUBSET S : /\ Midway(c, f[s], s, np, ns, nh)
                                    /\ same => f[s].has_shift = c.has_shift}
  <1>7. {} \in W
    <2>1. f[{}] = c
      BY <1>6
    <2> QED BY <2>1 DEF Midway, At
  <1>8. ASSUME NEW s \in SUBSET S, s # {}, s \ {p[s]} \in W PROVE s \in W
    <2> DEFINE x == Chosen(s)
               v == f[s \ {x}]
    <2>1. x \in s /\ p[s] = x /\ x \in Idx
      BY <1>1, <1>3, <1>8
    <2>2. Midway(c, v, s \ {x}, np, ns, nh) /\ (same => v.has_shift = c.has_shift)
      BY <1>8, <2>1
    <2>3. f[s] = h[<<x, v>>]
      BY <1>6, <1>8
    <2>4. v \in Good
      BY <2>1
    <2> HIDE DEF x, v
    <2>5. At(v, x, c.pos[x], c.seq[x]) /\ v.shift[x] = c.shift[x]
      BY <2>1, <2>2 DEF Midway
    <2>6. /\ OthersSame(v, f[s], x) /\ At(f[s], x, np[x], ns[x])
          /\ ns[x] # {} => f[s].shift[x] = nh[x]
          /\ same => f[s].has_shift = v.has_shift
      BY <2>1, <2>3, <2>4, <2>5 DEF Turns
    <2>7. Midway(c, f[s], s, np, ns, nh)
      <3> SUFFICES ASSUME NEW i \in Idx
                   PROVE  IF i \in s THEN /\ At(f[s], i, np[i], ns[i])
                                          /\ ns[i] # {} => f[s].shift[i] = nh[i]
                          ELSE /\ At(f[s], i, c.pos[i], c.seq[i])
                               /\ f[s].shift[i] = c.shift[i]
        BY DEF Midway
      <3>1. CASE i = x
        BY <2>1, <2>6, <3>1
      <3>2. CASE i # x
        <4>1. i \in s <=> i \in s \ {x}
          BY <3>2
        <4>2. f[s].pos[i] = v.pos[i] /\ f[s].seq[i] = v.seq[i] /\ f[s].shift[i] = v.shift[i]
          BY <2>6, <3>2 DEF OthersSame
        <4> QED BY <2>2, <4>1, <4>2 DEF Midway, At
      <3> QED BY <3>1, <3>2
    <2>8. same => f[s].has_shift = c.has_shift
      BY <2>2, <2>6
    <2> QED BY <2>7, <2>8
  <1> HIDE DEF W
  <1>9. \A s \in SUBSET S : s \in W
    <2>1. Inductive(S, p, W)
      BY <1>2, <1>4, <1>7, <1>8 DEF Inductive
    <2> QED BY <2>1, SubsetInduct
  <1>10. \A s \in SUBSET S : /\ Midway(c, f[s], s, np, ns, nh)
                             /\ same => f[s].has_shift = c.has_shift
    BY <1>9 DEF W
  <1> QED BY <1>5, <1>6, <1>10 DEF CellFoldOf

\* A function that takes the elements in the same order and does the same is the fold.
LEMMA SameFold ==
    ASSUME NEW S, IsFiniteSet(S), NEW f, NEW g, f[{}] = g[{}],
           \A s \in SUBSET S : s # {} /\ g[s \ {Chosen(s)}] = f[s \ {Chosen(s)}] => g[s] = f[s]
    PROVE  g[S] = f[S]
  <1> DEFINE p == [s \in SUBSET S |-> Chosen(s)]
             W == {s \in SUBSET S : g[s] = f[s]}
  <1>1. \A s \in SUBSET S : s # {} => p[s] \in s
    BY DEF Chosen
  <1>2. {} \in W
    OBVIOUS
  <1>3. \A s \in SUBSET S : s # {} /\ s \ {p[s]} \in W => s \in W
    OBVIOUS
  <1> HIDE DEF p, W
  <1>4. \A s \in SUBSET S : s \in W
    <2>1. Inductive(S, p, W)
      BY <1>1, <1>2, <1>3 DEF Inductive, PicksFrom
    <2> QED BY <2>1, SubsetInduct
  <1> QED BY <1>4 DEF W

\* What seq_rm() of a range of positions does to the cells.
RangeRemoved(c, d, q, p0, p1) ==
    /\ d \in Good /\ d.has_shift = c.has_shift
    /\ \A i \in Idx :
          IF q \in c.seq[i] /\ c.pos[i] >= p0 /\ c.pos[i] < p1
          THEN /\ d.seq[i] = c.seq[i] \ {q}
               /\ d.pos[i] = IF c.seq[i] \ {q} = {} THEN -1 ELSE c.pos[i]
               /\ c.seq[i] \ {q} # {} => d.shift[i] = c.shift[i]
          ELSE d.seq[i] = c.seq[i] /\ d.pos[i] = c.pos[i] /\ d.shift[i] = c.shift[i]

\* seq_rm() of a range takes the sequence out of the cells with a position in it.
LEMMA SeqRmRangeIs ==
    ASSUME NEW c \in Good, NEW q \in Seqs, NEW p0 \in Int, NEW p1 \in Int
    PROVE  RangeRemoved(c, SeqRmRange(c, q, p0, p1), q, p0, p1)
  <1> DEFINE S == {i \in PosIn(c, p0, p1) : q \in c.seq[i]}
             ns == [i \in Idx |-> c.seq[i] \ {q}]
             np == [i \in Idx |-> IF c.seq[i] \ {q} = {} THEN -1 ELSE c.pos[i]]
             h == [x \in S \X Good |-> IF q \in x[2].seq[x[1]] THEN SeqRm(x[2], x[1], q) ELSE x[2]]
             Eq(it) == it = [s \in SUBSET S |->
                              IF s = {} THEN c ELSE SeqRm(it[s \ {Chosen(s)}], Chosen(s), q)]
             it == CHOOSE g : Eq(g)
  <1>1. SeqRmRange(c, q, p0, p1) = it[S]
    BY Zenon DEF SeqRmRange, FoldSet, MapThenFoldSet, Chosen
  <1>2. S \in SUBSET Idx
    BY DEF PosIn
  <1>3. \A i \in S : q \in c.seq[i]
    OBVIOUS
  <1>4. \A i \in S, v \in Good :
            h[<<i, v>>] = IF q \in v.seq[i] THEN SeqRm(v, i, q) ELSE v
    OBVIOUS
  <1>40. \A i \in Idx : i \in S <=> q \in c.seq[i] /\ c.pos[i] >= p0 /\ c.pos[i] < p1
    BY DEF PosIn
  <1>41. \A i \in Idx : ns[i] = c.seq[i] \ {q} /\ np[i] = IF c.seq[i] \ {q} = {} THEN -1 ELSE c.pos[i]
    OBVIOUS
  <1> HIDE DEF S, h, np, ns
  <1>5. StaysIn(h, S, Good)
    <2> SUFFICES ASSUME NEW i \in S, NEW v \in Good PROVE h[<<i, v>>] \in Good
      BY DEF StaysIn
    <2>1. i \in Idx
      BY <1>2
    <2>2. CASE q \in v.seq[i]
      <3>1. Turned(v, SeqRm(v, i, q), i,
                   IF v.seq[i] \ {q} = {} THEN -1 ELSE v.pos[i], v.seq[i] \ {q})
        BY <2>1, <2>2, SeqRmIs
      <3> QED BY <1>4, <2>2, <3>1 DEF Turned
    <2>3. CASE q \notin v.seq[i]
      BY <1>4, <2>3
    <2> QED BY <2>2, <2>3
  <1>6. Turns(h, c, S, np, ns, c.shift, TRUE)
    <2> SUFFICES ASSUME NEW v \in Good, NEW i \in S,
                        At(v, i, c.pos[i], c.seq[i]), v.shift[i] = c.shift[i]
                 PROVE  /\ OthersSame(v, h[<<i, v>>], i) /\ At(h[<<i, v>>], i, np[i], ns[i])
                        /\ ns[i] # {} => h[<<i, v>>].shift[i] = c.shift[i]
                        /\ h[<<i, v>>].has_shift = v.has_shift
      BY DEF Turns
    <2>1. i \in Idx /\ q \in v.seq[i] /\ v.seq[i] = c.seq[i] /\ v.pos[i] = c.pos[i]
      BY <1>2, <1>3 DEF At
    <2>2. h[<<i, v>>] = SeqRm(v, i, q)
      BY <1>4, <2>1
    <2>3. /\ Turned(v, SeqRm(v, i, q), i,
                     IF v.seq[i] \ {q} = {} THEN -1 ELSE v.pos[i], v.seq[i] \ {q})
          /\ v.seq[i] \ {q} # {} => SeqRm(v, i, q).shift[i] = v.shift[i]
      BY <2>1, SeqRmIs
    <2> QED BY <1>41, <2>1, <2>2, <2>3 DEF Turned
  <1>7. PICK f : CellFoldOf(f, h, c, S, np, ns, c.shift, TRUE)
    BY <1>2, <1>5, <1>6, CellFold
  <1>8. /\ f \in [SUBSET S -> Good]
        /\ \A s \in SUBSET S : f[s] = IF s = {} THEN c ELSE h[<<Chosen(s), f[s \ {Chosen(s)}]>>]
        /\ \A s \in SUBSET S : /\ Midway(c, f[s], s, np, ns, c.shift)
                               /\ f[s].has_shift = c.has_shift
    BY <1>7 DEF CellFoldOf
  <1>9. \A s \in SUBSET S : s # {} =>
            f[s] = SeqRm(f[s \ {Chosen(s)}], Chosen(s), q)
    <2> SUFFICES ASSUME NEW s \in SUBSET S, s # {}
                 PROVE  f[s] = SeqRm(f[s \ {Chosen(s)}], Chosen(s), q)
      OBVIOUS
    <2>1. Chosen(s) \in s /\ Chosen(s) \in S /\ s \ {Chosen(s)} \in SUBSET S
      BY DEF Chosen
    <2>2. q \in f[s \ {Chosen(s)}].seq[Chosen(s)]
      BY <1>2, <1>3, <1>8, <2>1 DEF Midway, At
    <2>3. f[s \ {Chosen(s)}] \in Good /\ f[s] = h[<<Chosen(s), f[s \ {Chosen(s)}]>>]
      BY <1>8, <2>1
    <2> QED BY <1>4, <2>1, <2>2, <2>3
  <1>10. Eq(f)
    BY <1>8, <1>9
  <1>11. Eq(it)
    BY <1>10
  <1> HIDE DEF it
  <1>12. it[S] = f[S]
    <2>1. IsFiniteSet(S)
      BY <1>2, Finite, FS_Subset
    <2>2. \A s \in SUBSET S : it[s] = IF s = {} THEN c ELSE SeqRm(it[s \ {Chosen(s)}], Chosen(s), q)
      BY <1>11
    <2>3. f[{}] = it[{}]
      BY <1>8, <2>2
    <2>4. \A s \in SUBSET S : s # {} /\ it[s \ {Chosen(s)}] = f[s \ {Chosen(s)}] => it[s] = f[s]
      BY <1>9, <2>2
    <2> QED BY <2>1, <2>3, <2>4, SameFold
  <1>13. Midway(c, f[S], S, np, ns, c.shift) /\ f[S].has_shift = c.has_shift /\ f[S] \in Good
    BY <1>8
  <1> QED BY <1>1, <1>12, <1>13, <1>40, <1>41 DEF RangeRemoved, Midway, At

\* What pos_add() does to a cell.
Moved(c, r, i, n) ==
    /\ r \in Good /\ OthersSame(c, r, i) /\ At(r, i, c.pos[i] + n, c.seq[i])
    /\ r.shift[i] = c.shift[i] + n

\* One cell that moves.
LEMMA MovedIs ==
    ASSUME NEW c \in Good, NEW i \in Idx, NEW n \in Int, c.pos[i] # -1,
           c.pos[i] + n \in 0 .. MaxLen - 1
    PROVE  Moved(c, PosAdd(c, i, n), i, n)
  BY PosAddIs DEF Moved

\* What seq_add() of a range of positions does to the cells.
RangeMoved(c, d, q, p0, p1, n) ==
    /\ d \in Good
    /\ \A i \in Idx :
          IF q \in c.seq[i] /\ c.pos[i] >= p0 /\ c.pos[i] < p1
          THEN d.seq[i] = c.seq[i] /\ d.pos[i] = c.pos[i] + n /\ d.shift[i] = c.shift[i] + n
          ELSE d.seq[i] = c.seq[i] /\ d.pos[i] = c.pos[i] /\ d.shift[i] = c.shift[i]

\* seq_add() of a range moves the cells of the sequence that have a position in it.
LEMMA SeqAddRangeIs ==
    ASSUME NEW c \in Good, NEW q \in Seqs, NEW p0 \in Int, NEW p1 \in Int, NEW n \in Int,
           \A i \in Idx : q \in c.seq[i] /\ c.pos[i] >= p0 /\ c.pos[i] < p1
                             => c.pos[i] + n \in 0 .. MaxLen - 1
    PROVE  RangeMoved(c, SeqAddRange(c, q, p0, p1, n), q, p0, p1, n)
  <1> DEFINE S == {i \in PosIn(c, p0, p1) : q \in c.seq[i]}
             ns == [i \in Idx |-> c.seq[i]]
             np == [i \in Idx |-> c.pos[i] + n]
             nh == [i \in Idx |-> c.shift[i] + n]
             h == [x \in S \X Good |-> IF x[2].pos[x[1]] # -1 /\ x[2].pos[x[1]] + n \in 0 .. MaxLen - 1 THEN PosAdd(x[2], x[1], n) ELSE x[2]]
             Eq(it) == it = [s \in SUBSET S |->
                              IF s = {} THEN c ELSE PosAdd(it[s \ {Chosen(s)}], Chosen(s), n)]
             it == CHOOSE g : Eq(g)
  <1>1. SeqAddRange(c, q, p0, p1, n) = it[S]
    BY Zenon DEF SeqAddRange, FoldSet, MapThenFoldSet, Chosen
  <1>2. S \in SUBSET Idx
    BY DEF PosIn
  <1>3. \A i \in S : q \in c.seq[i] /\ c.pos[i] # -1 /\ c.pos[i] + n \in 0 .. MaxLen - 1
    BY GoodType DEF PosIn
  <1>4. \A i \in S, v \in Good : h[<<i, v>>] = IF v.pos[i] # -1 /\ v.pos[i] + n \in 0 .. MaxLen - 1 THEN PosAdd(v, i, n) ELSE v
    OBVIOUS
  <1>40. \A i \in Idx : i \in S <=> q \in c.seq[i] /\ c.pos[i] >= p0 /\ c.pos[i] < p1
    BY DEF PosIn
  <1>41. \A i \in Idx : ns[i] = (c.seq[i]) /\ np[i] = (c.pos[i] + n) /\ nh[i] = (c.shift[i] + n)
    OBVIOUS
  <1> HIDE DEF S, h, np, ns, nh
  <1>42. ASSUME NEW i \in S, NEW v \in Good, v.pos[i] # -1 /\ v.pos[i] + n \in 0 .. MaxLen - 1
         PROVE  /\ PosAdd(v, i, n) \in Good /\ OthersSame(v, PosAdd(v, i, n), i)
                /\ At(PosAdd(v, i, n), i, v.pos[i] + n, v.seq[i])
                /\ PosAdd(v, i, n).shift[i] = v.shift[i] + n
    <2>1. Moved(v, PosAdd(v, i, n), i, n)
      BY <1>2, <1>42, MovedIs
    <2> QED BY <2>1 DEF Moved
  <1>5. StaysIn(h, S, Good)
    <2> SUFFICES ASSUME NEW i \in S, NEW v \in Good PROVE h[<<i, v>>] \in Good
      BY DEF StaysIn
    <2>1. CASE v.pos[i] # -1 /\ v.pos[i] + n \in 0 .. MaxLen - 1
      <3>1. PosAdd(v, i, n) \in Good
        BY <1>42, <2>1
      <3> QED BY <1>4, <2>1, <3>1
    <2>2. CASE ~ (v.pos[i] # -1 /\ v.pos[i] + n \in 0 .. MaxLen - 1)
      BY <1>4, <2>2
    <2> QED BY <2>1, <2>2
  <1>6. Turns(h, c, S, np, ns, nh, FALSE)
    <2> SUFFICES ASSUME NEW v \in Good, NEW i \in S,
                        At(v, i, c.pos[i], c.seq[i]), v.shift[i] = c.shift[i]
                 PROVE  /\ OthersSame(v, h[<<i, v>>], i) /\ At(h[<<i, v>>], i, np[i], ns[i])
                        /\ ns[i] # {} => h[<<i, v>>].shift[i] = nh[i]
                        /\ FALSE => h[<<i, v>>].has_shift = v.has_shift
      BY DEF Turns
    <2>1. i \in Idx /\ v.seq[i] = c.seq[i] /\ v.pos[i] = c.pos[i]
      BY <1>2 DEF At
    <2>2. v.pos[i] # -1 /\ v.pos[i] + n \in 0 .. MaxLen - 1 /\ h[<<i, v>>] = PosAdd(v, i, n)
      BY <1>3, <1>4, <2>1
    <2>3. At(h[<<i, v>>], i, np[i], ns[i])
      BY <1>41, <1>42, <2>1, <2>2
    <2>4. h[<<i, v>>].shift[i] = nh[i]
      BY <1>41, <1>42, <2>1, <2>2
    <2> QED BY <1>42, <2>2, <2>3, <2>4
  <1>7. PICK f : CellFoldOf(f, h, c, S, np, ns, nh, FALSE)
    BY <1>2, <1>5, <1>6, CellFold
  <1>8. /\ f \in [SUBSET S -> Good]
        /\ \A s \in SUBSET S : f[s] = IF s = {} THEN c ELSE h[<<Chosen(s), f[s \ {Chosen(s)}]>>]
        /\ \A s \in SUBSET S : /\ Midway(c, f[s], s, np, ns, nh)
                               /\ FALSE => f[s].has_shift = c.has_shift
    BY <1>7 DEF CellFoldOf
  <1>9. ASSUME NEW s \in SUBSET S, s # {}
        PROVE  f[s] = PosAdd(f[s \ {Chosen(s)}], Chosen(s), n)
    <2>1. Chosen(s) \in s /\ Chosen(s) \in S /\ Chosen(s) \in Idx /\ s \ {Chosen(s)} \in SUBSET S
      BY <1>2, <1>9 DEF Chosen
    <2>2. At(f[s \ {Chosen(s)}], Chosen(s), c.pos[Chosen(s)], c.seq[Chosen(s)])
      BY <1>8, <2>1 DEF Midway
    <2>3. f[s \ {Chosen(s)}].pos[Chosen(s)] # -1 /\ f[s \ {Chosen(s)}].pos[Chosen(s)] + n \in 0 .. MaxLen - 1
      BY <1>3, <2>1, <2>2 DEF At
    <2>4. f[s] = h[<<Chosen(s), f[s \ {Chosen(s)}]>>] /\ f[s \ {Chosen(s)}] \in Good
      BY <1>8, <1>9, <2>1
    <2> QED BY <1>4, <2>1, <2>3, <2>4
  <1>10. Eq(f)
    BY <1>8, <1>9
  <1>11. Eq(it)
    BY <1>10
  <1> HIDE DEF it
  <1>12. it[S] = f[S]
    <2>1. IsFiniteSet(S)
      BY <1>2, Finite, FS_Subset
    <2>2. \A s \in SUBSET S : it[s] = IF s = {} THEN c ELSE PosAdd(it[s \ {Chosen(s)}], Chosen(s), n)
      BY <1>11
    <2>3. f[{}] = it[{}]
      BY <1>8, <2>2
    <2>4. \A s \in SUBSET S : s # {} /\ it[s \ {Chosen(s)}] = f[s \ {Chosen(s)}] => it[s] = f[s]
      BY <1>9, <2>2
    <2> QED BY <2>1, <2>3, <2>4, SameFold
  <1>13. Midway(c, f[S], S, np, ns, nh) /\ (FALSE => f[S].has_shift = c.has_shift) /\ f[S] \in Good
    BY <1>8
  <1> QED BY <1>1, <1>12, <1>13, <1>40, <1>41 DEF RangeMoved, Midway, At

\* What seq_cp() within a stream does to the cells: r joins q.
SharedWith(c, d, q, r) ==
    /\ d \in Good
    /\ \A i \in Idx : /\ d.seq[i] = IF q \in c.seq[i] THEN c.seq[i] \cup {r} ELSE c.seq[i]
                      /\ d.pos[i] = c.pos[i] /\ d.shift[i] = c.shift[i]

\* seq_cp() within a stream: the copy is in the cells of the original, and in no
\* other.
LEMMA ShareIs ==
    ASSUME NEW c \in Good, NEW q \in Seqs, NEW r \in Seqs, \A i \in Idx : r \notin c.seq[i]
    PROVE  SharedWith(c, SeqCpCells(c, q, r), q, r)
  <1> DEFINE S == {i \in Idx : q \in c.seq[i]}
             ns == [i \in Idx |-> c.seq[i] \cup {r}]
             np == [i \in Idx |-> c.pos[i]]
             nh == [i \in Idx |-> c.shift[i]]
             h == [x \in S \X Good |-> IF r \notin x[2].seq[x[1]] /\ x[2].seq[x[1]] # {} THEN SeqAdd(x[2], x[1], r) ELSE x[2]]
             Eq(it) == it = [s \in SUBSET S |->
                              IF s = {} THEN c ELSE SeqAdd(it[s \ {Chosen(s)}], Chosen(s), r)]
             it == CHOOSE g : Eq(g)
  <1>1. SeqCpCells(c, q, r) = it[S]
    BY Zenon DEF SeqCpCells, FoldSet, MapThenFoldSet, Chosen
  <1>2. S \in SUBSET Idx
    BY DEF PosIn
  <1>3. \A i \in S : r \notin c.seq[i] /\ c.seq[i] # {}
    OBVIOUS
  <1>4. \A i \in S, v \in Good : h[<<i, v>>] = IF r \notin v.seq[i] /\ v.seq[i] # {} THEN SeqAdd(v, i, r) ELSE v
    OBVIOUS
  <1>40. \A i \in Idx : i \in S <=> q \in c.seq[i]
    BY DEF PosIn
  <1>41. \A i \in Idx : ns[i] = (c.seq[i] \cup {r}) /\ np[i] = (c.pos[i]) /\ nh[i] = (c.shift[i])
    OBVIOUS
  <1> HIDE DEF S, h, np, ns, nh
  <1>42. ASSUME NEW i \in S, NEW v \in Good, r \notin v.seq[i] /\ v.seq[i] # {}
         PROVE  /\ SeqAdd(v, i, r) \in Good /\ OthersSame(v, SeqAdd(v, i, r), i)
                /\ At(SeqAdd(v, i, r), i, v.pos[i], v.seq[i] \cup {r})
                /\ SeqAdd(v, i, r).shift[i] = v.shift[i]
    <2>1. /\ Turned(v, SeqAdd(v, i, r), i, v.pos[i], v.seq[i] \cup {r})
          /\ SeqAdd(v, i, r).shift[i] = v.shift[i]
      BY <1>2, <1>42, SeqAddIs
    <2> QED BY <2>1 DEF Turned
  <1>5. StaysIn(h, S, Good)
    <2> SUFFICES ASSUME NEW i \in S, NEW v \in Good PROVE h[<<i, v>>] \in Good
      BY DEF StaysIn
    <2>1. CASE r \notin v.seq[i] /\ v.seq[i] # {}
      <3>1. SeqAdd(v, i, r) \in Good
        BY <1>42, <2>1
      <3> QED BY <1>4, <2>1, <3>1
    <2>2. CASE ~ (r \notin v.seq[i] /\ v.seq[i] # {})
      BY <1>4, <2>2
    <2> QED BY <2>1, <2>2
  <1>6. Turns(h, c, S, np, ns, nh, FALSE)
    <2> SUFFICES ASSUME NEW v \in Good, NEW i \in S,
                        At(v, i, c.pos[i], c.seq[i]), v.shift[i] = c.shift[i]
                 PROVE  /\ OthersSame(v, h[<<i, v>>], i) /\ At(h[<<i, v>>], i, np[i], ns[i])
                        /\ ns[i] # {} => h[<<i, v>>].shift[i] = nh[i]
                        /\ FALSE => h[<<i, v>>].has_shift = v.has_shift
      BY DEF Turns
    <2>1. i \in Idx /\ v.seq[i] = c.seq[i] /\ v.pos[i] = c.pos[i]
      BY <1>2 DEF At
    <2>2. r \notin v.seq[i] /\ v.seq[i] # {} /\ h[<<i, v>>] = SeqAdd(v, i, r)
      BY <1>3, <1>4, <2>1
    <2>3. At(h[<<i, v>>], i, np[i], ns[i])
      BY <1>41, <1>42, <2>1, <2>2
    <2>4. h[<<i, v>>].shift[i] = nh[i]
      BY <1>41, <1>42, <2>1, <2>2
    <2> QED BY <1>42, <2>2, <2>3, <2>4
  <1>7. PICK f : CellFoldOf(f, h, c, S, np, ns, nh, FALSE)
    BY <1>2, <1>5, <1>6, CellFold
  <1>8. /\ f \in [SUBSET S -> Good]
        /\ \A s \in SUBSET S : f[s] = IF s = {} THEN c ELSE h[<<Chosen(s), f[s \ {Chosen(s)}]>>]
        /\ \A s \in SUBSET S : /\ Midway(c, f[s], s, np, ns, nh)
                               /\ FALSE => f[s].has_shift = c.has_shift
    BY <1>7 DEF CellFoldOf
  <1>9. ASSUME NEW s \in SUBSET S, s # {}
        PROVE  f[s] = SeqAdd(f[s \ {Chosen(s)}], Chosen(s), r)
    <2>1. Chosen(s) \in s /\ Chosen(s) \in S /\ Chosen(s) \in Idx /\ s \ {Chosen(s)} \in SUBSET S
      BY <1>2, <1>9 DEF Chosen
    <2>2. At(f[s \ {Chosen(s)}], Chosen(s), c.pos[Chosen(s)], c.seq[Chosen(s)])
      BY <1>8, <2>1 DEF Midway
    <2>3. r \notin f[s \ {Chosen(s)}].seq[Chosen(s)] /\ f[s \ {Chosen(s)}].seq[Chosen(s)] # {}
      BY <1>3, <2>1, <2>2 DEF At
    <2>4. f[s] = h[<<Chosen(s), f[s \ {Chosen(s)}]>>] /\ f[s \ {Chosen(s)}] \in Good
      BY <1>8, <1>9, <2>1
    <2> QED BY <1>4, <2>1, <2>3, <2>4
  <1>10. Eq(f)
    BY <1>8, <1>9
  <1>11. Eq(it)
    BY <1>10
  <1> HIDE DEF it
  <1>12. it[S] = f[S]
    <2>1. IsFiniteSet(S)
      BY <1>2, Finite, FS_Subset
    <2>2. \A s \in SUBSET S : it[s] = IF s = {} THEN c ELSE SeqAdd(it[s \ {Chosen(s)}], Chosen(s), r)
      BY <1>11
    <2>3. f[{}] = it[{}]
      BY <1>8, <2>2
    <2>4. \A s \in SUBSET S : s # {} /\ it[s \ {Chosen(s)}] = f[s \ {Chosen(s)}] => it[s] = f[s]
      BY <1>9, <2>2
    <2> QED BY <2>1, <2>3, <2>4, SameFold
  <1>13. Midway(c, f[S], S, np, ns, nh) /\ (FALSE => f[S].has_shift = c.has_shift) /\ f[S] \in Good
    BY <1>8
  <1>14. ASSUME NEW i \in Idx
         PROVE  /\ f[S].seq[i] = IF q \in c.seq[i] THEN c.seq[i] \cup {r} ELSE c.seq[i]
                /\ f[S].pos[i] = c.pos[i] /\ f[S].shift[i] = c.shift[i]
    <2>1. CASE i \in S
      <3>1. At(f[S], i, np[i], ns[i]) /\ (ns[i] # {} => f[S].shift[i] = nh[i])
        BY <1>13, <2>1 DEF Midway
      <3>2. ns[i] = c.seq[i] \cup {r} /\ np[i] = c.pos[i] /\ nh[i] = c.shift[i] /\ q \in c.seq[i]
        BY <1>40, <1>41, <2>1
      <3> QED BY <3>1, <3>2 DEF At
    <2>2. CASE i \notin S
      BY <1>13, <1>40, <2>2 DEF Midway, At
    <2> QED BY <2>1, <2>2
  <1>15. SharedWith(c, f[S], q, r)
    BY <1>13, <1>14 DEF SharedWith
  <1> QED BY <1>1, <1>12, <1>15

\* What seq_keep() does to the cells: only q stays.
KeptOnly(c, d, q) ==
    /\ d \in Good
    /\ \A i \in Idx : /\ d.seq[i] = c.seq[i] \cap {q}
                      /\ q \in c.seq[i] => d.pos[i] = c.pos[i] /\ d.shift[i] = c.shift[i]

\* seq_keep(): what the sequence has stays, everything else goes.
LEMMA KeepIs ==
    ASSUME NEW c \in Good, NEW q \in Seqs
    PROVE  KeptOnly(c, SeqKeepCells(c, q), q)
  <1> DEFINE S == Idx
             ns == [i \in Idx |-> c.seq[i] \cap {q}]
             np == [i \in Idx |-> IF q \in c.seq[i] THEN c.pos[i] ELSE -1]
             nh == [i \in Idx |-> c.shift[i]]
             h == [x \in S \X Good |-> IF TRUE THEN SeqKeep(x[2], x[1], q) ELSE x[2]]
             Eq(it) == it = [s \in SUBSET S |->
                              IF s = {} THEN c ELSE SeqKeep(it[s \ {Chosen(s)}], Chosen(s), q)]
             it == CHOOSE g : Eq(g)
  <1>1. SeqKeepCells(c, q) = it[S]
    BY Zenon DEF SeqKeepCells, FoldSet, MapThenFoldSet, Chosen
  <1>2. S \in SUBSET Idx
    BY DEF PosIn
  <1>3. \A i \in S : TRUE
    OBVIOUS
  <1>4. \A i \in S, v \in Good : h[<<i, v>>] = IF TRUE THEN SeqKeep(v, i, q) ELSE v
    OBVIOUS
  <1>41. \A i \in Idx : ns[i] = (c.seq[i] \cap {q}) /\ np[i] = (IF q \in c.seq[i] THEN c.pos[i] ELSE -1) /\ nh[i] = (c.shift[i])
    OBVIOUS
  <1>44. S = Idx
    OBVIOUS
  <1> HIDE DEF S, h, np, ns, nh
  <1>43. \A i \in Idx : ns[i] # {} <=> q \in c.seq[i]
    BY <1>41
  <1>42. ASSUME NEW i \in S, NEW v \in Good, TRUE
         PROVE  /\ SeqKeep(v, i, q) \in Good /\ OthersSame(v, SeqKeep(v, i, q), i)
                /\ At(SeqKeep(v, i, q), i, IF q \in v.seq[i] THEN v.pos[i] ELSE -1, v.seq[i] \cap {q})
                /\ q \in v.seq[i] => SeqKeep(v, i, q).shift[i] = v.shift[i]
    <2>1. /\ Turned(v, SeqKeep(v, i, q), i,
                     IF q \in v.seq[i] THEN v.pos[i] ELSE -1, v.seq[i] \cap {q})
          /\ q \in v.seq[i] => SeqKeep(v, i, q).shift[i] = v.shift[i]
      BY <1>2, SeqKeepIs
    <2> QED BY <2>1 DEF Turned
  <1>5. StaysIn(h, S, Good)
    <2> SUFFICES ASSUME NEW i \in S, NEW v \in Good PROVE h[<<i, v>>] \in Good
      BY DEF StaysIn
    <2>1. CASE TRUE
      <3>1. SeqKeep(v, i, q) \in Good
        BY <1>42, <2>1
      <3> QED BY <1>4, <2>1, <3>1
    <2>2. CASE ~ (TRUE)
      BY <1>4, <2>2
    <2> QED BY <2>1, <2>2
  <1>6. Turns(h, c, S, np, ns, nh, FALSE)
    <2> SUFFICES ASSUME NEW v \in Good, NEW i \in S,
                        At(v, i, c.pos[i], c.seq[i]), v.shift[i] = c.shift[i]
                 PROVE  /\ OthersSame(v, h[<<i, v>>], i) /\ At(h[<<i, v>>], i, np[i], ns[i])
                        /\ ns[i] # {} => h[<<i, v>>].shift[i] = nh[i]
                        /\ FALSE => h[<<i, v>>].has_shift = v.has_shift
      BY DEF Turns
    <2>1. i \in Idx /\ v.seq[i] = c.seq[i] /\ v.pos[i] = c.pos[i]
      BY <1>2 DEF At
    <2>2. TRUE /\ h[<<i, v>>] = SeqKeep(v, i, q)
      BY <1>3, <1>4, <2>1
    <2>5. At(SeqKeep(v, i, q), i, IF q \in v.seq[i] THEN v.pos[i] ELSE -1, v.seq[i] \cap {q})
      BY <1>42
    <2>6. ns[i] = v.seq[i] \cap {q} /\ np[i] = IF q \in v.seq[i] THEN v.pos[i] ELSE -1
      BY <1>41, <2>1
    <2>3. At(h[<<i, v>>], i, np[i], ns[i])
      BY <2>2, <2>5, <2>6
    <2>4. ns[i] # {} => h[<<i, v>>].shift[i] = nh[i]
      <3>1. q \in v.seq[i] => SeqKeep(v, i, q).shift[i] = v.shift[i]
        BY <1>42
      <3>2. nh[i] = c.shift[i] /\ (ns[i] # {} => q \in v.seq[i])
        BY <1>41, <1>43, <2>1
      <3> QED BY <2>2, <3>1, <3>2
    <2> QED BY <1>42, <2>2, <2>3, <2>4
  <1>7. PICK f : CellFoldOf(f, h, c, S, np, ns, nh, FALSE)
    BY <1>2, <1>5, <1>6, CellFold
  <1>8. /\ f \in [SUBSET S -> Good]
        /\ \A s \in SUBSET S : f[s] = IF s = {} THEN c ELSE h[<<Chosen(s), f[s \ {Chosen(s)}]>>]
        /\ \A s \in SUBSET S : /\ Midway(c, f[s], s, np, ns, nh)
                               /\ FALSE => f[s].has_shift = c.has_shift
    BY <1>7 DEF CellFoldOf
  <1>9. ASSUME NEW s \in SUBSET S, s # {}
        PROVE  f[s] = SeqKeep(f[s \ {Chosen(s)}], Chosen(s), q)
    <2>1. Chosen(s) \in s /\ Chosen(s) \in S /\ Chosen(s) \in Idx /\ s \ {Chosen(s)} \in SUBSET S
      BY <1>2, <1>9 DEF Chosen
    <2>2. At(f[s \ {Chosen(s)}], Chosen(s), c.pos[Chosen(s)], c.seq[Chosen(s)])
      BY <1>8, <2>1 DEF Midway
    <2>3. TRUE
      BY <1>3, <2>1, <2>2 DEF At
    <2>4. f[s] = h[<<Chosen(s), f[s \ {Chosen(s)}]>>] /\ f[s \ {Chosen(s)}] \in Good
      BY <1>8, <1>9, <2>1
    <2> QED BY <1>4, <2>1, <2>3, <2>4
  <1>10. Eq(f)
    BY <1>8, <1>9
  <1>11. Eq(it)
    BY <1>10
  <1> HIDE DEF it
  <1>12. it[S] = f[S]
    <2>1. IsFiniteSet(S)
      BY <1>2, Finite, FS_Subset
    <2>2. \A s \in SUBSET S : it[s] = IF s = {} THEN c ELSE SeqKeep(it[s \ {Chosen(s)}], Chosen(s), q)
      BY <1>11
    <2>3. f[{}] = it[{}]
      BY <1>8, <2>2
    <2>4. \A s \in SUBSET S : s # {} /\ it[s \ {Chosen(s)}] = f[s \ {Chosen(s)}] => it[s] = f[s]
      BY <1>9, <2>2
    <2> QED BY <2>1, <2>3, <2>4, SameFold
  <1>13. Midway(c, f[S], S, np, ns, nh) /\ (FALSE => f[S].has_shift = c.has_shift) /\ f[S] \in Good
    BY <1>8
  <1>14. Midway(c, f[Idx], Idx, np, ns, nh)
    BY <1>13, <1>44
  <1> DEFINE d == SeqKeepCells(c, q)
  <1>15. d = f[Idx] /\ f[Idx] \in Good
    BY <1>1, <1>12, <1>13, <1>44
  <1> HIDE DEF d
  <1>16. ASSUME NEW i \in Idx
         PROVE  /\ d.seq[i] = c.seq[i] \cap {q}
                /\ q \in c.seq[i] => d.pos[i] = c.pos[i] /\ d.shift[i] = c.shift[i]
    <2>1. At(f[Idx], i, np[i], ns[i]) /\ (ns[i] # {} => f[Idx].shift[i] = nh[i])
      BY <1>14 DEF Midway
    <2>2. d.seq[i] = ns[i] /\ d.pos[i] = np[i]
      BY <1>15, <2>1 DEF At
    <2> QED BY <1>15, <1>41, <1>43, <2>1, <2>2
  <1>17. KeptOnly(c, d, q)
    BY <1>15, <1>16 DEF KeptOnly
  <1> QED BY <1>17 DEF d

-----------------------------------------------------------------------------
(* Clearing, shifting and copying a stream; folds over sequences.          *)

\* An empty stream keeps the books.
LEMMA EmptyIsGood == EmptyCells \in Good
  <1>1. EmptyCells \in CellsType
    BY Consts DEF EmptyCells, CellsType
  <1>2. ASSUME NEW q \in Seqs, NEW p \in 0 .. MaxLen
        PROVE  EmptyCells.seq_pos[q][p] = 0 /\ Holders(EmptyCells, q, p) = {}
    BY <1>2 DEF EmptyCells, Holders
  <1>3. Counted(EmptyCells)
    BY <1>2, FS_EmptySet DEF Counted
  <1>4. Marked(EmptyCells)
    BY DEF EmptyCells, Marked
  <1>5. Announced(EmptyCells)
    BY DEF EmptyCells, Announced
  <1> QED BY <1>1, <1>3, <1>4, <1>5 DEF Good

\* d is c without any shift.
Unshifted(c, d) ==
    /\ d \in Good /\ d.pos = c.pos /\ d.seq = c.seq /\ d.has_shift = FALSE
    /\ \A i \in Idx : d.shift[i] = 0

\* reset_shift() changes shifts only.
LEMMA ResetShiftIs ==
    ASSUME NEW c \in Good
    PROVE  Unshifted(c, ResetShift(c))
  <1> DEFINE d == ResetShift(c)
  <1>1. c \in CellsType /\ Counted(c) /\ Marked(c)
    BY DEF Good
  <1>2. [i \in Idx |-> 0] \in [Idx -> Int]
    OBVIOUS
  <1>3. /\ d \in CellsType /\ d.pos = c.pos /\ d.seq = c.seq /\ d.used = c.used
        /\ d.seq_pos = c.seq_pos /\ d.has_shift = FALSE /\ d.shift = [i \in Idx |-> 0]
    BY <1>1, <1>2 DEF ResetShift, CellsType
  <1> HIDE DEF d
  <1>4. Counted(d)
    BY <1>1, <1>3 DEF Counted, Holders
  <1>5. Marked(d) /\ Announced(d)
    BY <1>1, <1>3 DEF Marked, Announced
  <1>6. Unshifted(c, d)
    BY <1>3, <1>4, <1>5 DEF Good, Unshifted
  <1> QED BY <1>6 DEF d

\* d holds for r what c holds for q.
CopiedFrom(c, d, q, r) ==
    /\ d \in Good
    /\ \A i \in Idx : /\ d.seq[i] = IF q \in c.seq[i] THEN {r} ELSE {}
                      /\ d.pos[i] = IF q \in c.seq[i] THEN c.pos[i] ELSE -1
                      /\ q \in c.seq[i] => d.shift[i] = c.shift[i]

\* seq_cp() across streams: the target has the cells of the source, as its own.
LEMMA StreamCopyIs ==
    ASSUME NEW c \in Good, NEW q \in Seqs, NEW r \in Seqs
    PROVE  CopiedFrom(c, StreamCopy(c, q, r), q, r)
  <1> DEFINE d == StreamCopy(c, q, r)
             ps == [i \in Idx |-> IF q \in c.seq[i] THEN c.pos[i] ELSE -1]
             ss == [i \in Idx |-> IF q \in c.seq[i] THEN {r} ELSE {}]
             hs == [i \in Idx |-> IF q \in c.seq[i] THEN c.shift[i] ELSE 0]
             us == {i \in Idx : q \in c.seq[i]}
             b == \E i \in Idx : q \in c.seq[i] /\ c.shift[i] # 0
             sp == [x \in Seqs |-> IF x = r THEN c.seq_pos[q] ELSE [p \in 0 .. MaxLen |-> 0]]
  <1>1. c \in CellsType /\ Counted(c) /\ Marked(c)
    BY DEF Good
  <1>2. ps \in [Idx -> -1 .. MaxLen - 1]
    BY <1>1, Consts DEF CellsType
  <1>3. ss \in [Idx -> SUBSET Seqs] /\ hs \in [Idx -> Int] /\ us \in SUBSET Idx /\ b \in BOOLEAN
    BY <1>1 DEF CellsType
  <1>4. sp \in [Seqs -> [0 .. MaxLen -> Int]]
    <2>1. c.seq_pos[q] \in [0 .. MaxLen -> Int]
      BY <1>1 DEF CellsType
    <2> QED BY <2>1
  <1>5. d = [c EXCEPT !.seq = ss, !.pos = ps, !.shift = hs, !.used = us, !.has_shift = b,
                      !.seq_pos = sp]
    BY DEF StreamCopy
  <1>6. \A i \in Idx : /\ ps[i] = IF q \in c.seq[i] THEN c.pos[i] ELSE -1
                       /\ ss[i] = IF q \in c.seq[i] THEN {r} ELSE {}
                       /\ hs[i] = IF q \in c.seq[i] THEN c.shift[i] ELSE 0
                       /\ i \in us <=> q \in c.seq[i]
    OBVIOUS
  <1>7. \A x \in Seqs, p \in 0 .. MaxLen : sp[x][p] = IF x = r THEN c.seq_pos[q][p] ELSE 0
    OBVIOUS
  <1>70. b \/ \A i \in Idx : q \in c.seq[i] => c.shift[i] = 0
    OBVIOUS
  <1> HIDE DEF ps, ss, hs, us, b, sp
  <1>8. /\ d \in CellsType /\ d.pos = ps /\ d.seq = ss /\ d.shift = hs /\ d.used = us
        /\ d.has_shift = b /\ d.seq_pos = sp
    BY <1>1, <1>2, <1>3, <1>4, <1>5 DEF CellsType
  <1> HIDE DEF d
  <1>9. Counted(d)
    <2> SUFFICES ASSUME NEW x \in Seqs, NEW p \in 0 .. MaxLen
                 PROVE  d.seq_pos[x][p] = Cardinality(Holders(d, x, p))
      BY DEF Counted
    <2>1. CASE x = r
      <3>1. Holders(d, x, p) = Holders(c, q, p)
        BY <1>6, <1>8, <2>1 DEF Holders
      <3> QED BY <1>1, <1>7, <1>8, <2>1, <3>1 DEF Counted
    <2>2. CASE x # r
      <3>1. Holders(d, x, p) = {}
        BY <1>6, <1>8, <2>2 DEF Holders
      <3> QED BY <1>7, <1>8, <2>2, <3>1, FS_EmptySet
    <2> QED BY <2>1, <2>2
  <1>10. Marked(d)
    BY <1>1, <1>6, <1>8 DEF Marked
  <1>11. Announced(d)
    BY <1>6, <1>8, <1>70 DEF Announced
  <1>12. CopiedFrom(c, d, q, r)
    BY <1>6, <1>8, <1>9, <1>10, <1>11 DEF Good, CopiedFrom
  <1> QED BY <1>12 DEF d

----
\* The values of a fold from left to right, one after the other.
Trace(g, n, V, base, h) ==
    /\ g \in [0 .. n -> V] /\ g[0] = base
    /\ \A k \in 1 .. n : g[k] = h[<<k, g[k - 1]>>]

\* A set of indices that is not empty has its maximum.
LEMMA MaxElement ==
    ASSUME NEW n \in Nat, NEW s \in SUBSET (1 .. n), s # {}
    PROVE  Max(s) \in s
  <1>1. s \subseteq Int /\ n \in Int
    OBVIOUS
  <1>2. \A x \in s : x <= n
    OBVIOUS
  <1> QED BY <1>1, <1>2, MaxIs

\* A fold from the left, step by step.
LEMMA LeftTrace ==
    ASSUME NEW n \in Nat, NEW V, NEW base, NEW h, NEW f, LeftFoldOf(f, n, V, base, h)
    PROVE  \E g : Trace(g, n, V, base, h) /\ g[n] = f[1 .. n]
  <1> DEFINE g == [k \in 0 .. n |-> f[1 .. k]]
  <1>1. \A k \in 0 .. n : 1 .. k \in SUBSET (1 .. n) /\ g[k] = f[1 .. k]
    OBVIOUS
  <1>2. g \in [0 .. n -> V]
    BY <1>1 DEF LeftFoldOf
  <1> HIDE DEF g
  <1>3. 1 .. 0 = {} /\ 0 \in 0 .. n
    OBVIOUS
  <1>4. g[0] = base
    BY <1>1, <1>3 DEF LeftFoldOf
  <1>5. ASSUME NEW k \in 1 .. n PROVE g[k] = h[<<k, g[k - 1]>>]
    <2>1. Max(1 .. k) = k /\ (1 .. k) \ {k} = 1 .. (k - 1)
      BY MaxUpTo
    <2>2. k \in 0 .. n /\ k - 1 \in 0 .. n /\ 1 .. k # {}
      OBVIOUS
    <2>3. f[1 .. k] = h[<<Max(1 .. k), f[(1 .. k) \ {Max(1 .. k)}]>>]
      BY <1>1, <2>2 DEF LeftFoldOf
    <2> QED BY <1>1, <2>1, <2>2, <2>3
  <1>6. Trace(g, n, V, base, h) /\ g[n] = f[1 .. n]
    BY <1>1, <1>2, <1>4, <1>5 DEF Trace
  <1> QED BY <1>6

\* The fold is the only one.
LEMMA SameLeft ==
    ASSUME NEW n \in Nat, NEW f, NEW g, f[{}] = g[{}],
           \A s \in SUBSET (1 .. n) :
               s # {} /\ g[s \ {Max(s)}] = f[s \ {Max(s)}] => g[s] = f[s]
    PROVE  g[1 .. n] = f[1 .. n]
  <1> DEFINE I == 1 .. n
             p == [s \in SUBSET I |-> Max(s)]
             W == {s \in SUBSET I : g[s] = f[s]}
  <1>1. \A s \in SUBSET I : s # {} => p[s] \in s
    BY MaxElement
  <1>2. {} \in W
    OBVIOUS
  <1>3. \A s \in SUBSET I : s # {} /\ s \ {p[s]} \in W => s \in W
    OBVIOUS
  <1>4. IsFiniteSet(I)
    BY FS_Interval
  <1> HIDE DEF I, p, W
  <1>5. \A s \in SUBSET I : s \in W
    <2>1. Inductive(I, p, W)
      BY <1>1, <1>2, <1>3, <1>4 DEF Inductive, PicksFrom
    <2> QED BY <2>1, SubsetInduct
  <1> QED BY <1>5 DEF W, I

-----------------------------------------------------------------------------
(* Filling a slot.                                                         *)

Token == [seq : Seqs, pos : 0 .. MaxLen - 1]
Filling == [c : Good, rm : [Seqs -> -1 .. MaxLen - 1]]

\* What one token does to a stream that is being filled.
PlacedAs(acc, r, i, tok) ==
    /\ r \in Filling /\ Turned(acc.c, r.c, i, tok.pos, {tok.seq})
    /\ \A q \in Seqs :
          /\ r.rm[q] >= acc.rm[q]
          /\ r.rm[q] # acc.rm[q] => q \in acc.c.seq[i] /\ r.rm[q] = acc.c.pos[i]
          /\ acc.c.seq[i] = {q} => r.rm[q] >= acc.c.pos[i]

\* The maximum of two numbers.
LEMMA MaxOfTwo ==
    ASSUME NEW a \in Int, NEW b \in Int
    PROVE  Max({a, b}) = IF a >= b THEN a ELSE b
  BY DEF Max

\* A token in a cell: the cell is its, and the largest position overwritten is
\* remembered.
LEMMA PlacedIs ==
    ASSUME NEW acc \in Filling, NEW i \in Idx, NEW tok \in Token
    PROVE  PlacedAs(acc, Placed(acc, i, tok), i, tok)
  <1> DEFINE old == acc.c
             q == CHOOSE r \in old.seq[i] : TRUE
             own == old.pos[i] # -1
             e == IF own THEN Rm(old, i) ELSE old
             c == SeqAdd(PosSet(e, i, tok.pos), i, tok.seq)
             m == Max({acc.rm[q], old.pos[i]})
             rm == IF own THEN [acc.rm EXCEPT ![q] = m] ELSE acc.rm
             r == Placed(acc, i, tok)
  <1>1. r = [c |-> c, rm |-> rm]
    <2>1. rm = IF own THEN [acc.rm EXCEPT ![q] = Max({@, old.pos[i]})] ELSE acc.rm
      OBVIOUS
    <2> HIDE DEF rm
    <2> QED BY <2>1 DEF Placed
  <1>2. old \in Good /\ acc.rm \in [Seqs -> -1 .. MaxLen - 1]
    BY DEF Filling
  <1>3. tok.seq \in Seqs /\ tok.pos \in 0 .. MaxLen - 1
    BY DEF Token
  <1>4. /\ old.pos[i] \in -1 .. MaxLen - 1 /\ old.seq[i] \in SUBSET Seqs
        /\ own <=> old.seq[i] # {}
    BY <1>2, GoodType
  <1>5. Turned(old, e, i, -1, {})
    <2>1. CASE own
      BY <1>2, <2>1, RmIs
    <2>2. CASE ~ own
      BY <1>2, <1>4, <2>2 DEF Turned, OthersSame, At
    <2> QED BY <2>1, <2>2
  <1> HIDE DEF e
  <1>6. e \in Good /\ e.pos[i] = -1
    BY <1>5 DEF Turned, At
  <1>7. Turned(e, c, i, tok.pos, {tok.seq})
    BY <1>3, <1>6, FillIs
  <1> HIDE DEF c
  <1>8. Turned(old, c, i, tok.pos, {tok.seq})
    BY <1>5, <1>7, TurnedTwice
  <1>9. own => q \in old.seq[i] /\ q \in Seqs /\ acc.rm[q] \in -1 .. MaxLen - 1
    BY <1>2, <1>4
  <1> HIDE DEF q
  <1>10. own => m = IF acc.rm[q] >= old.pos[i] THEN acc.rm[q] ELSE old.pos[i]
    BY <1>4, <1>9, MaxOfTwo
  <1> HIDE DEF m
  <1>11. rm \in [Seqs -> -1 .. MaxLen - 1]
    BY <1>2, <1>4, <1>9, <1>10
  <1>12. \A x \in Seqs : rm[x] = IF own /\ x = q THEN m ELSE acc.rm[x]
    BY <1>2, <1>9
  <1> HIDE DEF rm
  <1>13. c \in Good
    BY <1>8 DEF Turned
  <1>14. r \in Filling /\ r.c = c /\ r.rm = rm
    BY <1>1, <1>11, <1>13 DEF Filling
  <1>15. ASSUME NEW x \in Seqs
         PROVE  /\ rm[x] >= acc.rm[x]
                /\ rm[x] # acc.rm[x] => x \in old.seq[i] /\ rm[x] = old.pos[i]
                /\ old.seq[i] = {x} => rm[x] >= old.pos[i]
    <2>0. acc.rm[x] \in Int /\ old.pos[i] \in Int
      BY <1>2, <1>4
    <2>1. CASE own /\ x = q
      BY <1>9, <1>10, <1>12, <2>0, <2>1
    <2>2. CASE ~ (own /\ x = q)
      <3>1. rm[x] = acc.rm[x] /\ old.seq[i] # {x}
        BY <1>4, <1>9, <1>12, <2>2
      <3> QED BY <2>0, <3>1
    <2> QED BY <2>1, <2>2
  <1> HIDE DEF r, old
  <1>16. PlacedAs(acc, r, i, tok)
    BY <1>8, <1>14, <1>15 DEF PlacedAs, old
  <1> QED BY <1>16 DEF r

\* A slot for n tokens.
SlotOf(idxs, n) ==
    /\ idxs \in [1 .. n -> Idx]
    /\ \A j, k \in 1 .. n : idxs[j] = idxs[k] => j = k

\* The position of a sequence that was overwritten last is in rm.
Overwritten(c, idxs, k, rm) ==
    /\ \A q \in Seqs : rm[q] # -1 =>
          \E j \in 1 .. k : q \in c.seq[idxs[j]] /\ c.pos[idxs[j]] = rm[q]
    /\ \A j \in 1 .. k, q \in Seqs : c.seq[idxs[j]] = {q} => rm[q] >= c.pos[idxs[j]]

\* v is c after the first k tokens.
FilledTo(c, v, idxs, toks, k) ==
    /\ v \in Filling /\ v.c.has_shift = c.has_shift
    /\ \A j \in 1 .. k : At(v.c, idxs[j], toks[j].pos, {toks[j].seq})
    /\ \A i \in Idx : (\A j \in 1 .. k : idxs[j] # i) =>
          At(v.c, i, c.pos[i], c.seq[i]) /\ v.c.shift[i] = c.shift[i]
    /\ Overwritten(c, idxs, k, v.rm)

\* One token more of a slot.
LEMMA FillingStep ==
    ASSUME NEW c \in Good, NEW n \in Nat, NEW idxs, SlotOf(idxs, n), NEW toks \in [1 .. n -> Token],
           NEW k \in 1 .. n, NEW v, NEW w, FilledTo(c, v, idxs, toks, k - 1),
           PlacedAs(v, w, idxs[k], toks[k])
    PROVE  FilledTo(c, w, idxs, toks, k)
  <1>1. /\ idxs \in [1 .. n -> Idx] /\ idxs[k] \in Idx
        /\ \A j \in 1 .. n : idxs[j] = idxs[k] => j = k
    BY DEF SlotOf
  <1>2. /\ w \in Filling /\ OthersSame(v.c, w.c, idxs[k])
        /\ At(w.c, idxs[k], toks[k].pos, {toks[k].seq}) /\ w.c.has_shift = v.c.has_shift
    BY DEF PlacedAs, Turned
  <1>3. w.c.has_shift = c.has_shift
    BY <1>2 DEF FilledTo
  <1>4. ASSUME NEW j \in 1 .. k PROVE At(w.c, idxs[j], toks[j].pos, {toks[j].seq})
    <2>1. CASE j = k
      BY <1>2, <2>1
    <2>2. CASE j # k
      <3>1. j \in 1 .. k - 1 /\ idxs[j] \in Idx \ {idxs[k]}
        BY <1>1, <2>2
      <3>2. At(v.c, idxs[j], toks[j].pos, {toks[j].seq})
        BY <3>1 DEF FilledTo
      <3> QED BY <1>2, <3>1, <3>2 DEF At, OthersSame
    <2> QED BY <2>1, <2>2
  <1>5. ASSUME NEW i \in Idx, \A j \in 1 .. k : idxs[j] # i
        PROVE  At(w.c, i, c.pos[i], c.seq[i]) /\ w.c.shift[i] = c.shift[i]
    <2>1. i # idxs[k] /\ \A j \in 1 .. k - 1 : idxs[j] # i
      BY <1>5
    <2>2. At(v.c, i, c.pos[i], c.seq[i]) /\ v.c.shift[i] = c.shift[i]
      BY <2>1 DEF FilledTo
    <2> QED BY <1>2, <2>1, <2>2 DEF At, OthersSame
  <1>6. At(v.c, idxs[k], c.pos[idxs[k]], c.seq[idxs[k]])
    <2>1. \A j \in 1 .. k - 1 : idxs[j] # idxs[k]
      BY <1>1
    <2> QED BY <1>1, <2>1 DEF FilledTo
  <1>7. v \in Filling /\ Overwritten(c, idxs, k - 1, v.rm)
    BY DEF FilledTo
  <1>8. ASSUME NEW q \in Seqs, w.rm[q] # -1
        PROVE  \E j \in 1 .. k : q \in c.seq[idxs[j]] /\ c.pos[idxs[j]] = w.rm[q]
    <2>1. CASE w.rm[q] = v.rm[q]
      <3>1. PICK j \in 1 .. k - 1 : q \in c.seq[idxs[j]] /\ c.pos[idxs[j]] = w.rm[q]
        BY <1>7, <1>8, <2>1 DEF Overwritten
      <3> QED BY <3>1
    <2>2. CASE w.rm[q] # v.rm[q]
      <3>1. q \in v.c.seq[idxs[k]] /\ w.rm[q] = v.c.pos[idxs[k]]
        BY <2>2 DEF PlacedAs
      <3>2. k \in 1 .. k
        OBVIOUS
      <3> QED BY <1>6, <3>1, <3>2 DEF At
    <2> QED BY <2>1, <2>2
  <1>9. ASSUME NEW j \in 1 .. k, NEW q \in Seqs, c.seq[idxs[j]] = {q}
        PROVE  w.rm[q] >= c.pos[idxs[j]]
    <2>0. /\ w.rm[q] \in Int /\ v.rm[q] \in Int /\ idxs[j] \in Idx /\ w.rm[q] >= v.rm[q]
      BY <1>1, <1>2, <1>7 DEF Filling, PlacedAs
    <2>01. c.pos[idxs[j]] \in Int
      BY <2>0, GoodType
    <2>1. CASE j = k
      <3>1. v.c.seq[idxs[k]] = {q} /\ v.c.pos[idxs[k]] = c.pos[idxs[k]]
        BY <1>6, <1>9, <2>1 DEF At
      <3>2. w.rm[q] >= v.c.pos[idxs[k]]
        BY <3>1 DEF PlacedAs
      <3> QED BY <2>1, <3>1, <3>2
    <2>2. CASE j # k
      <3>1. j \in 1 .. k - 1
        BY <2>2
      <3>2. v.rm[q] >= c.pos[idxs[j]]
        BY <1>7, <1>9, <3>1 DEF Overwritten
      <3> QED BY <2>0, <2>01, <3>2
    <2> QED BY <2>1, <2>2
  <1>10. Overwritten(c, idxs, k, w.rm)
    BY <1>8, <1>9 DEF Overwritten
  <1> QED BY <1>2, <1>3, <1>4, <1>5, <1>10 DEF FilledTo

\* The stream with its tokens, before the purge.
Unpurged(c, idxs, toks) ==
    FoldLeftDomain(LAMBDA acc, j : Placed(acc, idxs[j], toks[j]),
                   [c |-> c, rm |-> [q \in Seqs |-> -1]], toks)

\* All tokens of a slot are in its cells, before the purge.
LEMMA UnpurgedIs ==
    ASSUME NEW c \in Good, NEW n \in Nat, NEW idxs, SlotOf(idxs, n), NEW toks \in [1 .. n -> Token]
    PROVE  FilledTo(c, Unpurged(c, idxs, toks), idxs, toks, n)
  <1> DEFINE base == [c |-> c, rm |-> [q \in Seqs |-> -1]]
             ix == [j \in DOMAIN toks |-> j]
             h == [x \in (1 .. n) \X Filling |-> Placed(x[2], idxs[x[1]], toks[x[1]])]
             Eq(it) == it = [s \in SUBSET (DOMAIN ix) |->
                               IF s = {} THEN base
                               ELSE Placed(it[s \ {Max(s)}], idxs[ix[Max(s)]], toks[ix[Max(s)]])]
             it == CHOOSE g : Eq(g)
  <1>1. Unpurged(c, idxs, toks) = it[DOMAIN ix]
    BY Zenon DEF Unpurged, FoldLeftDomain, FoldLeft, MapThenFoldSet
  <1>2. DOMAIN ix = 1 .. n /\ \A j \in 1 .. n : ix[j] = j
    OBVIOUS
  <1>3. base \in Filling
    <2>1. [q \in Seqs |-> -1] \in [Seqs -> -1 .. MaxLen - 1]
      BY Consts
    <2> QED BY <2>1 DEF Filling
  <1>4. \A j \in 1 .. n, v \in Filling : h[<<j, v>>] = Placed(v, idxs[j], toks[j])
    OBVIOUS
  <1>5. base.c = c /\ base.rm = [q \in Seqs |-> -1]
    OBVIOUS
  <1> HIDE DEF h, ix, base
  <1>6. \A j \in 1 .. n : idxs[j] \in Idx /\ toks[j] \in Token
    BY DEF SlotOf
  <1>7. StaysIn(h, 1 .. n, Filling)
    <2> SUFFICES ASSUME NEW j \in 1 .. n, NEW v \in Filling PROVE h[<<j, v>>] \in Filling
      BY DEF StaysIn
    <2>1. PlacedAs(v, Placed(v, idxs[j], toks[j]), idxs[j], toks[j])
      BY <1>6, PlacedIs
    <2> QED BY <1>4, <2>1 DEF PlacedAs
  <1>8. PICK f : LeftFoldOf(f, n, Filling, base, h)
    BY <1>3, <1>7, LeftExists
  <1>9. /\ f \in [SUBSET (1 .. n) -> Filling]
        /\ \A s \in SUBSET (1 .. n) : f[s] = IF s = {} THEN base ELSE h[<<Max(s), f[s \ {Max(s)}]>>]
    BY <1>8 DEF LeftFoldOf
  <1>10. ASSUME NEW s \in SUBSET (1 .. n), s # {}
         PROVE  f[s] = Placed(f[s \ {Max(s)}], idxs[ix[Max(s)]], toks[ix[Max(s)]])
    <2>1. Max(s) \in s /\ Max(s) \in 1 .. n /\ s \ {Max(s)} \in SUBSET (1 .. n)
      BY <1>10, MaxElement
    <2>2. f[s] = h[<<Max(s), f[s \ {Max(s)}]>>] /\ f[s \ {Max(s)}] \in Filling
      BY <1>9, <1>10, <2>1
    <2> QED BY <1>2, <1>4, <2>1, <2>2
  <1>11. Eq(f)
    BY <1>2, <1>9, <1>10
  <1>12. Eq(it)
    BY <1>11
  <1> HIDE DEF it
  <1>13. it[1 .. n] = f[1 .. n]
    <2>2. \A s \in SUBSET (1 .. n) : it[s] = IF s = {} THEN base
                   ELSE Placed(it[s \ {Max(s)}], idxs[ix[Max(s)]], toks[ix[Max(s)]])
      BY <1>2, <1>12
    <2>3. f[{}] = it[{}]
      BY <1>9, <2>2
    <2>4. \A s \in SUBSET (1 .. n) : s # {} /\ it[s \ {Max(s)}] = f[s \ {Max(s)}] => it[s] = f[s]
      BY <1>10, <2>2
    <2> QED BY <2>3, <2>4, SameLeft
  <1>14. PICK g : Trace(g, n, Filling, base, h) /\ g[n] = f[1 .. n]
    BY <1>8, LeftTrace
  <1> DEFINE W == {k \in 0 .. n : FilledTo(c, g[k], idxs, toks, k)}
  <1>15. 0 \in W
    <2>1. g[0] = base /\ 1 .. 0 = {} /\ 0 \in 0 .. n
      BY <1>14 DEF Trace
    <2>2. Overwritten(c, idxs, 0, base.rm)
      BY <1>5, <2>1 DEF Overwritten
    <2>3. FilledTo(c, base, idxs, toks, 0)
      BY <1>3, <1>5, <2>1, <2>2 DEF FilledTo, At
    <2> QED BY <2>1, <2>3
  <1>16. ASSUME NEW k \in 1 .. n, k - 1 \in W PROVE k \in W
    <2>1. FilledTo(c, g[k - 1], idxs, toks, k - 1)
      BY <1>16
    <2>2. g[k - 1] \in Filling
      BY <2>1 DEF FilledTo
    <2>3. g[k] = Placed(g[k - 1], idxs[k], toks[k])
      BY <1>4, <1>14, <2>2 DEF Trace
    <2>4. PlacedAs(g[k - 1], g[k], idxs[k], toks[k])
      BY <1>6, <2>2, <2>3, PlacedIs
    <2>5. FilledTo(c, g[k], idxs, toks, k)
      BY <2>1, <2>4, FillingStep
    <2> QED BY <2>5
  <1> HIDE DEF W
  <1>17. n \in W
    <2>1. \A k \in 0 .. n : k \in W
      BY <1>15, <1>16, IntervalInduct
    <2> QED BY <2>1
  <1>18. Unpurged(c, idxs, toks) = g[n]
    BY <1>1, <1>2, <1>13, <1>14
  <1> QED BY <1>17, <1>18 DEF W

\* Cell i had position p and the sequences S, before those with a later position
\* in rm left it.
LeftAt(d, i, p, S, rm) ==
    /\ d.seq[i] = {q \in S : rm[q] < p}
    /\ d.pos[i] = IF d.seq[i] = {} THEN -1 ELSE p

PurgedOf(d, c, rm, Q) ==
    /\ d \in Good /\ d.has_shift = c.has_shift
    /\ \A i \in Idx : /\ d.seq[i] = {q \in c.seq[i] : q \in Q => rm[q] < c.pos[i]}
                      /\ d.pos[i] = IF d.seq[i] = {} THEN -1 ELSE c.pos[i]

\* One sequence more is purged.
LEMMA PurgeStep ==
    ASSUME NEW c \in Good, NEW rm \in [Seqs -> -1 .. MaxLen - 1], NEW Q \in SUBSET Seqs, NEW x \in Q,
           NEW v, NEW w, PurgedOf(v, c, rm, Q \ {x}), RangeRemoved(v, w, x, 0, rm[x] + 1)
    PROVE  PurgedOf(w, c, rm, Q)
  <1>0. x \in Seqs /\ rm[x] \in Int
    OBVIOUS
  <1>1. v \in Good /\ w \in Good /\ w.has_shift = c.has_shift
    BY DEF PurgedOf, RangeRemoved
  <1>2. ASSUME NEW i \in Idx
        PROVE  /\ w.seq[i] = {q \in c.seq[i] : q \in Q => rm[q] < c.pos[i]}
               /\ w.pos[i] = IF w.seq[i] = {} THEN -1 ELSE c.pos[i]
    <2>1. /\ v.seq[i] = {q \in c.seq[i] : q \in Q \ {x} => rm[q] < c.pos[i]}
          /\ v.pos[i] = IF v.seq[i] = {} THEN -1 ELSE c.pos[i]
      BY DEF PurgedOf
    <2>2. c.pos[i] \in Int /\ c.seq[i] \in SUBSET Seqs /\ (c.pos[i] # -1 <=> c.seq[i] # {})
          /\ c.pos[i] \in -1 .. MaxLen - 1
      BY GoodType
    <2>3. CASE x \in v.seq[i] /\ ~ (rm[x] < c.pos[i])
      <3>1. v.pos[i] = c.pos[i] /\ v.pos[i] >= 0 /\ v.pos[i] < rm[x] + 1
        BY <1>0, <2>1, <2>2, <2>3
      <3>2. w.seq[i] = v.seq[i] \ {x}
        BY <2>3, <3>1 DEF RangeRemoved
      <3>3. w.pos[i] = IF v.seq[i] \ {x} = {} THEN -1 ELSE v.pos[i]
        BY <2>3, <3>1 DEF RangeRemoved
      <3>4. w.seq[i] = {q \in c.seq[i] : q \in Q => rm[q] < c.pos[i]}
        BY <2>1, <2>3, <3>2
      <3> QED BY <3>1, <3>2, <3>3, <3>4
    <2>4. CASE ~ (x \in v.seq[i] /\ ~ (rm[x] < c.pos[i]))
      <3>1. ~ (x \in v.seq[i] /\ v.pos[i] >= 0 /\ v.pos[i] < rm[x] + 1)
        BY <1>0, <2>1, <2>2, <2>4
      <3>2. w.seq[i] = v.seq[i] /\ w.pos[i] = v.pos[i]
        BY <3>1 DEF RangeRemoved
      <3>3. w.seq[i] = {q \in c.seq[i] : q \in Q => rm[q] < c.pos[i]}
        BY <2>1, <2>4, <3>2
      <3> QED BY <2>1, <3>2, <3>3
    <2> QED BY <2>3, <2>4
  <1> QED BY <1>1, <1>2 DEF PurgedOf

\* The purge takes a sequence out of the cells up to its largest overwritten
\* position.
LEMMA PurgedIs ==
    ASSUME NEW fl \in Filling
    PROVE  /\ Purged(fl) \in Good /\ Purged(fl).has_shift = fl.c.has_shift
           /\ \A i \in Idx : LeftAt(Purged(fl), i, fl.c.pos[i], fl.c.seq[i], fl.rm)
  <1> DEFINE S == {q \in Seqs : fl.rm[q] # -1}
             p == [s \in SUBSET S |-> Chosen(s)]
             h == [x \in S \X Good |-> SeqRmRange(x[2], x[1], 0, fl.rm[x[1]] + 1)]
             Eq(it) == it = [s \in SUBSET S |->
                               IF s = {} THEN fl.c
                               ELSE SeqRmRange(it[s \ {Chosen(s)}], Chosen(s), 0, fl.rm[Chosen(s)] + 1)]
             it == CHOOSE g : Eq(g)
  <1>1. Purged(fl) = it[S]
    BY Zenon DEF Purged, FoldSet, MapThenFoldSet, Chosen
  <1>2. fl.c \in Good /\ fl.rm \in [Seqs -> -1 .. MaxLen - 1]
    BY DEF Filling
  <1>3. S \in SUBSET Seqs /\ \A q \in Seqs : q \in S <=> fl.rm[q] # -1
    OBVIOUS
  <1>4. \A q \in S, v \in Good : h[<<q, v>>] = SeqRmRange(v, q, 0, fl.rm[q] + 1)
    OBVIOUS
  <1>5. \A s \in SUBSET S : s # {} => Chosen(s) \in s
    BY DEF Chosen
  <1>6. PicksFrom(p, S) /\ \A s \in SUBSET S : p[s] = Chosen(s)
    BY <1>5 DEF PicksFrom
  <1> HIDE DEF S, h, p
  <1>7. IsFiniteSet(S)
    BY <1>3, Finite, FS_Subset
  <1>8. ASSUME NEW q \in S, NEW v \in Good
        PROVE  RangeRemoved(v, h[<<q, v>>], q, 0, fl.rm[q] + 1)
    <2>1. q \in Seqs /\ fl.rm[q] + 1 \in Int /\ fl.rm[q] \in Int
      BY <1>2, <1>3
    <2>2. PICK z \in Int : z = 0
      OBVIOUS
    <2>3. RangeRemoved(v, SeqRmRange(v, q, z, fl.rm[q] + 1), q, z, fl.rm[q] + 1)
      BY <2>1, SeqRmRangeIs
    <2> QED BY <1>4, <2>2, <2>3
  <1>9. StaysIn(h, S, Good)
    BY <1>8 DEF StaysIn, RangeRemoved
  <1>10. PICK f \in [SUBSET S -> Good] : FoldOf(f, S, p, fl.c, h)
    BY <1>2, <1>6, <1>7, <1>9, FoldExists
  <1>11. \A s \in SUBSET S : f[s] = IF s = {} THEN fl.c ELSE h[<<Chosen(s), f[s \ {Chosen(s)}]>>]
    BY <1>6, <1>10 DEF FoldOf
  <1>12. ASSUME NEW s \in SUBSET S, s # {}
         PROVE  f[s] = SeqRmRange(f[s \ {Chosen(s)}], Chosen(s), 0, fl.rm[Chosen(s)] + 1)
    <2>1. Chosen(s) \in S /\ s \ {Chosen(s)} \in SUBSET S
      BY <1>5, <1>12
    <2> QED BY <1>4, <1>10, <1>11, <1>12, <2>1
  <1>13. Eq(f)
    BY <1>10, <1>11, <1>12
  <1>14. Eq(it)
    BY <1>13
  <1> HIDE DEF it
  <1>15. it[S] = f[S]
    <2>2. \A s \in SUBSET S : it[s] = IF s = {} THEN fl.c
                ELSE SeqRmRange(it[s \ {Chosen(s)}], Chosen(s), 0, fl.rm[Chosen(s)] + 1)
      BY <1>14
    <2>3. f[{}] = it[{}]
      BY <1>11, <2>2
    <2>4. \A s \in SUBSET S : s # {} /\ it[s \ {Chosen(s)}] = f[s \ {Chosen(s)}] => it[s] = f[s]
      BY <1>12, <2>2
    <2> QED BY <1>7, <2>3, <2>4, SameFold
  <1> DEFINE W == {s \in SUBSET S : PurgedOf(f[s], fl.c, fl.rm, s)}
  <1>16. {} \in W
    <2>1. f[{}] = fl.c
      BY <1>11
    <2>2. \A i \in Idx : fl.c.pos[i] = IF fl.c.seq[i] = {} THEN -1 ELSE fl.c.pos[i]
      BY <1>2, GoodType
    <2>3. PurgedOf(fl.c, fl.c, fl.rm, {})
      BY <1>2, <2>2 DEF PurgedOf
    <2> QED BY <2>1, <2>3
  <1>17. ASSUME NEW s \in SUBSET S, s # {}, s \ {p[s]} \in W PROVE s \in W
    <2>1. p[s] = Chosen(s) /\ Chosen(s) \in s /\ Chosen(s) \in S /\ s \in SUBSET Seqs
      BY <1>3, <1>5, <1>6, <1>17
    <2> DEFINE x == Chosen(s)
               v == f[s \ {x}]
    <2>2. PurgedOf(v, fl.c, fl.rm, s \ {x}) /\ v \in Good
      BY <1>10, <1>17, <2>1
    <2>3. RangeRemoved(v, f[s], x, 0, fl.rm[x] + 1)
      BY <1>8, <1>11, <1>17, <2>1, <2>2
    <2> HIDE DEF x, v
    <2>4. x \in s
      BY <2>1 DEF x
    <2>5. PurgedOf(f[s], fl.c, fl.rm, s)
      BY <1>2, <2>1, <2>2, <2>3, <2>4, PurgeStep
    <2> QED BY <2>5
  <1> HIDE DEF W
  <1>18. S \in W
    <2>1. Inductive(S, p, W)
      BY <1>6, <1>7, <1>16, <1>17 DEF Inductive
    <2> QED BY <2>1, SubsetInduct
  <1>19. PurgedOf(Purged(fl), fl.c, fl.rm, S)
    BY <1>1, <1>15, <1>18 DEF W
  <1>20. ASSUME NEW i \in Idx
         PROVE  LeftAt(Purged(fl), i, fl.c.pos[i], fl.c.seq[i], fl.rm)
    <2>1. /\ Purged(fl).seq[i] = {q \in fl.c.seq[i] : q \in S => fl.rm[q] < fl.c.pos[i]}
          /\ Purged(fl).pos[i] = IF Purged(fl).seq[i] = {} THEN -1 ELSE fl.c.pos[i]
      BY <1>19 DEF PurgedOf
    <2>2. /\ fl.c.seq[i] \in SUBSET Seqs /\ fl.c.pos[i] \in -1 .. MaxLen - 1
          /\ fl.c.seq[i] # {} => fl.c.pos[i] # -1
      BY <1>2, GoodType
    <2>3. \A q \in fl.c.seq[i] : (q \in S => fl.rm[q] < fl.c.pos[i]) <=> fl.rm[q] < fl.c.pos[i]
      BY <1>3, <2>2
    <2> QED BY <2>1, <2>3 DEF LeftAt
  <1> QED BY <1>19, <1>20 DEF PurgedOf

\* d is c after apply_ubatch() of a stream.
Refilled(c, d, idxs, toks, n, rm) ==
    /\ d \in Good /\ d.has_shift = c.has_shift
    /\ rm \in [Seqs -> -1 .. MaxLen - 1] /\ Overwritten(c, idxs, n, rm)
    /\ \A j \in 1 .. n : LeftAt(d, idxs[j], toks[j].pos, {toks[j].seq}, rm)
    /\ \A i \in Idx : (\A j \in 1 .. n : idxs[j] # i) => LeftAt(d, i, c.pos[i], c.seq[i], rm)

RefilledSome(c, d, idxs, toks, n) == \E rm : Refilled(c, d, idxs, toks, n, rm)

\* apply_ubatch() for one stream: the tokens are in the cells of the slot, and what
\* was overwritten takes along all that is older in its sequence.
LEMMA FilledStreamIs ==
    ASSUME NEW c \in Good, NEW n \in Nat, NEW idxs, SlotOf(idxs, n), NEW toks \in [1 .. n -> Token]
    PROVE  RefilledSome(c, FilledStream(c, idxs, toks), idxs, toks, n)
  <1> DEFINE fl == Unpurged(c, idxs, toks)
             d == Purged(fl)
  <1>1. FilledStream(c, idxs, toks) = d
    BY Zenon DEF FilledStream, Unpurged
  <1>2. FilledTo(c, fl, idxs, toks, n)
    BY UnpurgedIs
  <1> HIDE DEF fl
  <1>3. fl \in Filling
    BY <1>2 DEF FilledTo
  <1>4. /\ d \in Good /\ d.has_shift = fl.c.has_shift
        /\ \A i \in Idx : LeftAt(d, i, fl.c.pos[i], fl.c.seq[i], fl.rm)
    BY <1>3, PurgedIs
  <1> HIDE DEF d
  <1>5. ASSUME NEW j \in 1 .. n PROVE LeftAt(d, idxs[j], toks[j].pos, {toks[j].seq}, fl.rm)
    <2>1. idxs[j] \in Idx
      BY DEF SlotOf
    <2>2. fl.c.pos[idxs[j]] = toks[j].pos /\ fl.c.seq[idxs[j]] = {toks[j].seq}
      BY <1>2 DEF FilledTo, At
    <2>3. LeftAt(d, idxs[j], fl.c.pos[idxs[j]], fl.c.seq[idxs[j]], fl.rm)
      BY <1>4, <2>1
    <2> QED BY <2>2, <2>3
  <1>6. ASSUME NEW i \in Idx, \A j \in 1 .. n : idxs[j] # i
        PROVE  LeftAt(d, i, c.pos[i], c.seq[i], fl.rm)
    <2>1. fl.c.pos[i] = c.pos[i] /\ fl.c.seq[i] = c.seq[i]
      BY <1>2, <1>6 DEF FilledTo, At
    <2> QED BY <1>4, <2>1
  <1>7. /\ fl.rm \in [Seqs -> -1 .. MaxLen - 1] /\ Overwritten(c, idxs, n, fl.rm)
        /\ d.has_shift = c.has_shift
    BY <1>2, <1>3, <1>4 DEF FilledTo, Filling
  <1>8. Refilled(c, d, idxs, toks, n, fl.rm)
    BY <1>4, <1>5, <1>6, <1>7 DEF Refilled
  <1> QED BY <1>1, <1>8 DEF RefilledSome

-----------------------------------------------------------------------------
(* Taking back: the restore of prepare(), and an aborted micro batch.      *)

\* r is c with cell i set to what it is in old.
SetBack(c, r, old, i) == Turned(c, r, i, old.pos[i], old.seq[i])

\* One cell of a slot is set back.
LEMMA SetBackIs ==
    ASSUME NEW c \in Good, NEW old \in Good, NEW i \in Idx
    PROVE  SetBack(c, SetCell(c, i, Copied(old, i)), old, i)
  <1> DEFINE x == Copied(old, i)
  <1>1. x.pos = old.pos[i] /\ x.seq = old.seq[i]
    BY DEF Copied
  <1> HIDE DEF x
  <1>2. x.pos \in -1 .. MaxLen - 1 /\ x.seq \in SUBSET Seqs /\ ((x.pos # -1) <=> (x.seq # {}))
    BY <1>1, GoodType
  <1>3. Turned(c, SetCell(c, i, x), i, x.pos, x.seq)
    BY <1>2, SetCellIs
  <1> QED BY <1>1, <1>3 DEF SetBack, x

\* d is c after the first k cells of a slot were set back.
UndoneTo(c, d, old, idxs, k) ==
    /\ d \in Good /\ d.has_shift = c.has_shift
    /\ \A j \in 1 .. k : At(d, idxs[j], old.pos[idxs[j]], old.seq[idxs[j]])
    /\ \A i \in Idx : (\A j \in 1 .. k : idxs[j] # i) => At(d, i, c.pos[i], c.seq[i])

\* One cell more of a slot is set back.
LEMMA UndoneStep ==
    ASSUME NEW c \in Good, NEW old \in Good, NEW n \in Nat, NEW idxs, SlotOf(idxs, n), NEW k \in 1 .. n,
           NEW v, NEW w, UndoneTo(c, v, old, idxs, k - 1), SetBack(v, w, old, idxs[k])
    PROVE  UndoneTo(c, w, old, idxs, k)
  <1>1. idxs \in [1 .. n -> Idx] /\ idxs[k] \in Idx
    BY DEF SlotOf
  <1>2. /\ w \in Good /\ OthersSame(v, w, idxs[k]) /\ w.has_shift = c.has_shift
        /\ At(w, idxs[k], old.pos[idxs[k]], old.seq[idxs[k]])
    BY DEF SetBack, Turned, UndoneTo
  <1>3. ASSUME NEW j \in 1 .. k PROVE At(w, idxs[j], old.pos[idxs[j]], old.seq[idxs[j]])
    <2>1. CASE idxs[j] = idxs[k]
      BY <1>2, <2>1
    <2>2. CASE idxs[j] # idxs[k]
      <3>1. j \in 1 .. k - 1 /\ idxs[j] \in Idx \ {idxs[k]}
        BY <1>1, <2>2
      <3>2. At(v, idxs[j], old.pos[idxs[j]], old.seq[idxs[j]])
        BY <3>1 DEF UndoneTo
      <3> QED BY <1>2, <3>1, <3>2 DEF At, OthersSame
    <2> QED BY <2>1, <2>2
  <1>4. ASSUME NEW i \in Idx, \A j \in 1 .. k : idxs[j] # i PROVE At(w, i, c.pos[i], c.seq[i])
    <2>1. i # idxs[k] /\ \A j \in 1 .. k - 1 : idxs[j] # i
      BY <1>4
    <2>2. At(v, i, c.pos[i], c.seq[i])
      BY <2>1 DEF UndoneTo
    <2> QED BY <1>2, <2>1, <2>2 DEF At, OthersSame
  <1> QED BY <1>2, <1>3, <1>4 DEF UndoneTo

\* The restore of prepare(): the cells of the slot are as they were, the others stay
\* as they are.
LEMMA UndoneStreamIs ==
    ASSUME NEW c \in Good, NEW old \in Good, NEW n \in Nat, NEW idxs, SlotOf(idxs, n)
    PROVE  UndoneTo(c, UndoneStream(c, old, idxs), old, idxs, n)
  <1> DEFINE base == c
             ix == [j \in DOMAIN idxs |-> j]
             h == [x \in (1 .. n) \X Good |-> SetCell(x[2], idxs[x[1]], Copied(old, idxs[x[1]]))]
             Eq(it) == it = [s \in SUBSET (DOMAIN ix) |->
                               IF s = {} THEN base
                               ELSE SetCell(it[s \ {Max(s)}], idxs[ix[Max(s)]], Copied(old, idxs[ix[Max(s)]]))]
             it == CHOOSE g : Eq(g)
  <1>1. UndoneStream(c, old, idxs) = it[DOMAIN ix]
    BY Zenon DEF UndoneStream, FoldLeftDomain, FoldLeft, MapThenFoldSet
  <1>20. idxs \in [1 .. n -> Idx]
    BY DEF SlotOf
  <1>2. DOMAIN ix = 1 .. n /\ \A j \in 1 .. n : ix[j] = j
    BY <1>20
  <1>3. base \in Good
    OBVIOUS
  <1>4. \A j \in 1 .. n, v \in Good : h[<<j, v>>] = SetCell(v, idxs[j], Copied(old, idxs[j]))
    OBVIOUS
  <1>5. base = c
    OBVIOUS
  <1> HIDE DEF h, ix, base
  <1>6. \A j \in 1 .. n : idxs[j] \in Idx
    BY <1>20
  <1>7. StaysIn(h, 1 .. n, Good)
    <2> SUFFICES ASSUME NEW j \in 1 .. n, NEW v \in Good PROVE h[<<j, v>>] \in Good
      BY DEF StaysIn
    <2>1. SetBack(v, SetCell(v, idxs[j], Copied(old, idxs[j])), old, idxs[j])
      BY <1>6, SetBackIs
    <2> QED BY <1>4, <2>1 DEF SetBack, Turned
  <1>8. PICK f : LeftFoldOf(f, n, Good, base, h)
    BY <1>3, <1>7, LeftExists
  <1>9. /\ f \in [SUBSET (1 .. n) -> Good]
        /\ \A s \in SUBSET (1 .. n) : f[s] = IF s = {} THEN base ELSE h[<<Max(s), f[s \ {Max(s)}]>>]
    BY <1>8 DEF LeftFoldOf
  <1>10. ASSUME NEW s \in SUBSET (1 .. n), s # {}
         PROVE  f[s] = SetCell(f[s \ {Max(s)}], idxs[ix[Max(s)]], Copied(old, idxs[ix[Max(s)]]))
    <2>1. Max(s) \in s /\ Max(s) \in 1 .. n /\ s \ {Max(s)} \in SUBSET (1 .. n)
      BY <1>10, MaxElement
    <2>2. f[s] = h[<<Max(s), f[s \ {Max(s)}]>>] /\ f[s \ {Max(s)}] \in Good
      BY <1>9, <1>10, <2>1
    <2> QED BY <1>2, <1>4, <2>1, <2>2
  <1>11. Eq(f)
    BY <1>2, <1>9, <1>10
  <1>12. Eq(it)
    BY <1>11
  <1> HIDE DEF it
  <1>13. it[1 .. n] = f[1 .. n]
    <2>2. \A s \in SUBSET (1 .. n) : it[s] = IF s = {} THEN base
                   ELSE SetCell(it[s \ {Max(s)}], idxs[ix[Max(s)]], Copied(old, idxs[ix[Max(s)]]))
      BY <1>2, <1>12
    <2>3. f[{}] = it[{}]
      BY <1>9, <2>2
    <2>4. \A s \in SUBSET (1 .. n) : s # {} /\ it[s \ {Max(s)}] = f[s \ {Max(s)}] => it[s] = f[s]
      BY <1>10, <2>2
    <2> QED BY <2>3, <2>4, SameLeft
  <1>14. PICK g : Trace(g, n, Good, base, h) /\ g[n] = f[1 .. n]
    BY <1>8, LeftTrace
  <1> DEFINE W == {k \in 0 .. n : UndoneTo(c, g[k], old, idxs, k)}
  <1>15. 0 \in W
    <2>1. g[0] = base /\ 1 .. 0 = {} /\ 0 \in 0 .. n
      BY <1>14 DEF Trace
    <2>3. UndoneTo(c, base, old, idxs, 0)
      BY <1>3, <1>5, <2>1 DEF UndoneTo, At
    <2> QED BY <2>1, <2>3
  <1>16. ASSUME NEW k \in 1 .. n, k - 1 \in W PROVE k \in W
    <2>1. UndoneTo(c, g[k - 1], old, idxs, k - 1)
      BY <1>16
    <2>2. g[k - 1] \in Good
      BY <2>1 DEF UndoneTo
    <2>3. g[k] = SetCell(g[k - 1], idxs[k], Copied(old, idxs[k]))
      BY <1>4, <1>14, <2>2 DEF Trace
    <2>4. SetBack(g[k - 1], g[k], old, idxs[k])
      BY <1>6, <2>2, <2>3, SetBackIs
    <2>5. UndoneTo(c, g[k], old, idxs, k)
      BY <2>1, <2>4, UndoneStep
    <2> QED BY <2>5
  <1> HIDE DEF W
  <1>17. n \in W
    <2>1. \A k \in 0 .. n : k \in W
      BY <1>15, <1>16, IntervalInduct
    <2> QED BY <2>1
  <1>18. UndoneStream(c, old, idxs) = g[n]
    BY <1>1, <1>2, <1>13, <1>14
  <1> QED BY <1>17, <1>18 DEF W

\* The sequences of Q left c from lo on.
WithdrawnOf(d, c, lo, Q) ==
    /\ d \in Good /\ d.has_shift = c.has_shift
    /\ \A i \in Idx : /\ d.seq[i] = {q \in c.seq[i] : q \in Q => c.pos[i] < lo[q]}
                      /\ d.pos[i] = IF d.seq[i] = {} THEN -1 ELSE c.pos[i]

\* One sequence more is withdrawn.
LEMMA WithdrawStep ==
    ASSUME NEW c \in Good, NEW lo, NEW Q \in SUBSET Seqs, NEW x \in Q, lo[x] \in Int,
           NEW v, NEW w, WithdrawnOf(v, c, lo, Q \ {x}), RangeRemoved(v, w, x, lo[x], Infinite)
    PROVE  WithdrawnOf(w, c, lo, Q)
  <1>0. x \in Seqs /\ lo[x] \in Int /\ Infinite = MaxLen + 1 /\ MaxLen \in Nat
    BY Consts DEF Infinite
  <1>1. v \in Good /\ w \in Good /\ w.has_shift = c.has_shift
    BY DEF WithdrawnOf, RangeRemoved
  <1>2. ASSUME NEW i \in Idx
        PROVE  /\ w.seq[i] = {q \in c.seq[i] : q \in Q => c.pos[i] < lo[q]}
               /\ w.pos[i] = IF w.seq[i] = {} THEN -1 ELSE c.pos[i]
    <2>1. /\ v.seq[i] = {q \in c.seq[i] : q \in Q \ {x} => c.pos[i] < lo[q]}
          /\ v.pos[i] = IF v.seq[i] = {} THEN -1 ELSE c.pos[i]
      BY DEF WithdrawnOf
    <2>2. c.pos[i] \in Int /\ c.seq[i] \in SUBSET Seqs /\ (c.pos[i] # -1 <=> c.seq[i] # {})
          /\ c.pos[i] \in -1 .. MaxLen - 1
      BY GoodType
    <2>3. CASE x \in v.seq[i] /\ ~ (c.pos[i] < lo[x])
      <3>1. v.pos[i] = c.pos[i] /\ v.pos[i] >= lo[x] /\ v.pos[i] < Infinite
        BY <1>0, <2>1, <2>2, <2>3
      <3>2. w.seq[i] = v.seq[i] \ {x}
        BY <2>3, <3>1 DEF RangeRemoved
      <3>3. w.pos[i] = IF v.seq[i] \ {x} = {} THEN -1 ELSE v.pos[i]
        BY <2>3, <3>1 DEF RangeRemoved
      <3>4. w.seq[i] = {q \in c.seq[i] : q \in Q => c.pos[i] < lo[q]}
        BY <2>1, <2>3, <3>2
      <3> QED BY <3>1, <3>2, <3>3, <3>4
    <2>4. CASE ~ (x \in v.seq[i] /\ ~ (c.pos[i] < lo[x]))
      <3>1. ~ (x \in v.seq[i] /\ v.pos[i] >= lo[x] /\ v.pos[i] < Infinite)
        BY <1>0, <2>1, <2>2, <2>4
      <3>2. w.seq[i] = v.seq[i] /\ w.pos[i] = v.pos[i]
        BY <3>1 DEF RangeRemoved
      <3>3. w.seq[i] = {q \in c.seq[i] : q \in Q => c.pos[i] < lo[q]}
        BY <2>1, <2>4, <3>2
      <3> QED BY <2>1, <3>2, <3>3
    <2> QED BY <2>3, <2>4
  <1> QED BY <1>1, <1>2 DEF WithdrawnOf

\* After an abort every sequence of the micro batch ends where the micro batch began.
LEMMA WithdrawnIs ==
    ASSUME NEW c \in Good, NEW ub, NEW S \in SUBSET Seqs, NEW lo,
           \A q \in S : lo[q] \in Int /\ lo[q] = Min(PosOf(ub, q))
    PROVE  WithdrawnOf(Withdrawn(c, ub, S), c, lo, S)
  <1> DEFINE p == [s \in SUBSET S |-> Chosen(s)]
             h == [x \in S \X Good |-> SeqRmRange(x[2], x[1], Min(PosOf(ub, x[1])), Infinite)]
             Eq(it) == it = [s \in SUBSET S |->
                               IF s = {} THEN c
                               ELSE SeqRmRange(it[s \ {Chosen(s)}], Chosen(s), Min(PosOf(ub, Chosen(s))), Infinite)]
             it == CHOOSE g : Eq(g)
  <1>1. Withdrawn(c, ub, S) = it[S]
    BY Zenon DEF Withdrawn, FoldSet, MapThenFoldSet, Chosen
  <1>3. \A q \in S : lo[q] \in Int /\ lo[q] = Min(PosOf(ub, q)) /\ q \in Seqs
    OBVIOUS
  <1>4. \A q \in S, v \in Good : h[<<q, v>>] = SeqRmRange(v, q, lo[q], Infinite)
    BY <1>3
  <1>5. \A s \in SUBSET S : s # {} => Chosen(s) \in s
    BY DEF Chosen
  <1>6. PicksFrom(p, S) /\ \A s \in SUBSET S : p[s] = Chosen(s)
    BY <1>5 DEF PicksFrom
  <1> HIDE DEF h, p
  <1>7. IsFiniteSet(S)
    BY <1>3, Finite, FS_Subset
  <1>8. ASSUME NEW q \in S, NEW v \in Good
        PROVE  RangeRemoved(v, h[<<q, v>>], q, lo[q], Infinite)
    <2>1. q \in Seqs /\ Infinite \in Int /\ lo[q] \in Int
      BY <1>3, Consts DEF Infinite
    <2>3. RangeRemoved(v, SeqRmRange(v, q, lo[q], Infinite), q, lo[q], Infinite)
      BY <2>1, SeqRmRangeIs
    <2> QED BY <1>4, <2>3
  <1>9. StaysIn(h, S, Good)
    BY <1>8 DEF StaysIn, RangeRemoved
  <1>10. PICK f \in [SUBSET S -> Good] : FoldOf(f, S, p, c, h)
    BY <1>6, <1>7, <1>9, FoldExists
  <1>11. \A s \in SUBSET S : f[s] = IF s = {} THEN c ELSE h[<<Chosen(s), f[s \ {Chosen(s)}]>>]
    BY <1>6, <1>10 DEF FoldOf
  <1>120. \A s \in SUBSET S : s # {} => Min(PosOf(ub, Chosen(s))) = lo[Chosen(s)]
    BY <1>3, <1>5
  <1>12. ASSUME NEW s \in SUBSET S, s # {}
         PROVE  f[s] = SeqRmRange(f[s \ {Chosen(s)}], Chosen(s), Min(PosOf(ub, Chosen(s))), Infinite)
    <2>1. Chosen(s) \in S /\ s \ {Chosen(s)} \in SUBSET S
      BY <1>5, <1>12
    <2>2. f[s \ {Chosen(s)}] \in Good
      BY <1>10, <2>1
    <2>3. f[s] = h[<<Chosen(s), f[s \ {Chosen(s)}]>>]
      BY <1>11, <1>12
    <2>4. f[s] = SeqRmRange(f[s \ {Chosen(s)}], Chosen(s), lo[Chosen(s)], Infinite)
      BY <1>4, <2>1, <2>2, <2>3
    <2> QED BY <1>12, <1>120, <2>4
  <1>13. Eq(f)
    BY <1>10, <1>11, <1>12
  <1>14. Eq(it)
    BY <1>13
  <1> HIDE DEF it
  <1>15. it[S] = f[S]
    <2>2. \A s \in SUBSET S : it[s] = IF s = {} THEN c
                ELSE SeqRmRange(it[s \ {Chosen(s)}], Chosen(s), Min(PosOf(ub, Chosen(s))), Infinite)
      BY <1>14
    <2>3. f[{}] = it[{}]
      BY <1>11, <2>2
    <2>4. \A s \in SUBSET S : s # {} /\ it[s \ {Chosen(s)}] = f[s \ {Chosen(s)}] => it[s] = f[s]
      BY <1>12, <2>2
    <2> QED BY <1>7, <2>3, <2>4, SameFold
  <1> DEFINE W == {s \in SUBSET S : WithdrawnOf(f[s], c, lo, s)}
  <1>16. {} \in W
    <2>1. f[{}] = c
      BY <1>11
    <2>2. \A i \in Idx : c.pos[i] = IF c.seq[i] = {} THEN -1 ELSE c.pos[i]
      BY GoodType
    <2>3. WithdrawnOf(c, c, lo, {})
      BY <2>2 DEF WithdrawnOf
    <2> QED BY <2>1, <2>3
  <1>17. ASSUME NEW s \in SUBSET S, s # {}, s \ {p[s]} \in W PROVE s \in W
    <2>1. p[s] = Chosen(s) /\ Chosen(s) \in s /\ Chosen(s) \in S /\ s \in SUBSET Seqs
      BY <1>3, <1>5, <1>6, <1>17
    <2> DEFINE x == Chosen(s)
               v == f[s \ {x}]
    <2>2. WithdrawnOf(v, c, lo, s \ {x}) /\ v \in Good
      BY <1>10, <1>17, <2>1
    <2>3. RangeRemoved(v, f[s], x, lo[x], Infinite)
      BY <1>8, <1>11, <1>17, <2>1, <2>2
    <2> HIDE DEF x, v
    <2>4. x \in s
      BY <2>1 DEF x
    <2>6. lo[x] \in Int
      BY <1>3, <2>1 DEF x
    <2>5. WithdrawnOf(f[s], c, lo, s)
      BY <2>6, <2>1, <2>2, <2>3, <2>4, WithdrawStep
    <2> QED BY <2>5
  <1> HIDE DEF W
  <1>18. S \in W
    <2>1. Inductive(S, p, W)
      BY <1>6, <1>7, <1>16, <1>17 DEF Inductive
    <2> QED BY <2>1, SubsetInduct
  <1>19. WithdrawnOf(Withdrawn(c, ub, S), c, lo, S)
    BY <1>1, <1>15, <1>18 DEF W
  <1> QED BY <1>19

-----------------------------------------------------------------------------
(* Finding a slot.                                                         *)

\* The elements of K up to x.
UpTo(K, x) == {y \in K : y <= x}

\* o lists the elements of K.
Lists(o, K) ==
    /\ o \in [1 .. Cardinality(K) -> K] /\ Cardinality(K) \in Nat
    /\ \A j, k \in 1 .. Cardinality(K) : o[j] = o[k] => j = k
    /\ \A x \in K : \E j \in 1 .. Cardinality(K) : o[j] = x

\* The ordered sequence of a set of numbers lists each of them once.
LEMMA OrderedIs ==
    ASSUME NEW n \in Nat, NEW K, K \subseteq 0 .. n
    PROVE  Lists(Ordered(K), K)
  <1> DEFINE m == Cardinality(K)
             o == Ordered(K)
             W == {k \in 0 .. n + 1 : \A j \in 1 .. Cardinality({y \in K : y < k}) :
                                         \E x \in K : Cardinality(UpTo(K, x)) = j}
  <1>0. \A y \in K : y \in Int /\ 0 <= y /\ y <= n
    OBVIOUS
  <1>1. \A s \in SUBSET K : IsFiniteSet(s) /\ Cardinality(s) \in Nat /\ Cardinality(s) <= m
    <2>1. IsFiniteSet(K)
      <3>1. IsFiniteSet(0 .. n)
        BY FS_Interval
      <3> QED BY <3>1, FS_Subset
    <2> QED BY <2>1, FS_Subset, FS_CardinalityType
  <1>2. 0 \in W
    <2>0. \A y \in K : ~ (y < 0)
      BY <1>0
    <2>1. {y \in K : y < 0} = {}
      BY <2>0
    <2>2. Cardinality({y \in K : y < 0}) = 0
      BY <2>1, FS_EmptySet
    <2> QED BY <2>2
  <1>3. ASSUME NEW k \in 1 .. n + 1, k - 1 \in W PROVE k \in W
    <2> DEFINE A == {y \in K : y < k - 1}
               B == {y \in K : y < k}
    <2>1. A \in SUBSET K /\ B \in SUBSET K
      OBVIOUS
    <2>2. CASE k - 1 \in K
      <3>1. B = A \cup {k - 1} /\ k - 1 \notin A /\ B = UpTo(K, k - 1)
        <4>1. \A y \in K : (y < k) <=> (y < k - 1 \/ y = k - 1)
          BY <1>0
        <4>2. \A y \in K : (y < k) <=> (y <= k - 1)
          BY <1>0
        <4>3. ~ (k - 1 < k - 1)
          OBVIOUS
        <4> QED BY <2>2, <4>1, <4>2, <4>3 DEF UpTo
      <3>2. Cardinality(B) = Cardinality(A) + 1
        BY <1>1, <2>1, <3>1, FS_AddElement
      <3>3. ASSUME NEW j \in 1 .. Cardinality(B) PROVE \E x \in K : Cardinality(UpTo(K, x)) = j
        <4>1. CASE j = Cardinality(B)
          BY <2>2, <3>1, <4>1
        <4>2. CASE j # Cardinality(B)
          <5>1. j \in 1 .. Cardinality(A)
            BY <1>1, <2>1, <3>2, <4>2
          <5> QED BY <1>3, <5>1
        <4> QED BY <4>1, <4>2
      <3> QED BY <3>3
    <2>3. CASE k - 1 \notin K
      <3>1. A = B
        <4>1. \A y \in K : (y < k) <=> (y < k - 1)
          BY <1>0, <2>3
        <4> QED BY <4>1
      <3>2. \A j \in 1 .. Cardinality(A) : \E x \in K : Cardinality(UpTo(K, x)) = j
        BY <1>3
      <3> QED BY <3>1, <3>2
    <2> QED BY <2>2, <2>3
  <1>4. n + 1 \in W
    <2> HIDE DEF W
    <2>1. \A k \in 0 .. n + 1 : k \in W
      BY <1>2, <1>3, IntervalInduct
    <2> QED BY <2>1
  <1>50. \A y \in K : y < n + 1
    BY <1>0
  <1>5. {y \in K : y < n + 1} = K
    BY <1>50
  <1>6. \A j \in 1 .. m : \E x \in K : Cardinality(UpTo(K, x)) = j
    BY <1>4, <1>5
  <1> HIDE DEF W
  <1>7. ASSUME NEW j \in 1 .. m PROVE o[j] \in K /\ Cardinality(UpTo(K, o[j])) = j
    <2>1. o[j] = CHOOSE x \in K : Cardinality({y \in K : y <= x}) = j
      BY DEF Ordered
    <2>2. \E x \in K : Cardinality({y \in K : y <= x}) = j
      BY <1>6 DEF UpTo
    <2> QED BY <2>1, <2>2 DEF UpTo
  <1>8. o \in [1 .. m -> K]
    <2>1. DOMAIN o = 1 .. m /\ o = [j \in 1 .. m |-> o[j]]
      BY DEF Ordered
    <2> HIDE DEF o
    <2> QED BY <1>7, <2>1
  <1>9. ASSUME NEW x \in K PROVE \E j \in 1 .. m : o[j] = x
    <2> DEFINE j == Cardinality(UpTo(K, x))
    <2>1. UpTo(K, x) \in SUBSET K /\ x \in UpTo(K, x) /\ x \in Int
      BY DEF UpTo
    <2>2. UpTo(K, x) # {}
      BY <2>1
    <2>3. j \in 1 .. m
      BY <1>1, <2>1, <2>2, FS_EmptySet
    <2>4. o[j] \in K /\ Cardinality(UpTo(K, o[j])) = j
      BY <1>7, <2>3
    <2> HIDE DEF o
    <2>5. \A u, v \in K : u < v => Cardinality(UpTo(K, u)) # Cardinality(UpTo(K, v))
      <3> SUFFICES ASSUME NEW u \in K, NEW v \in K, u < v
                   PROVE  Cardinality(UpTo(K, u)) # Cardinality(UpTo(K, v))
        OBVIOUS
      <3> HIDE DEF j
      <3>1. UpTo(K, u) \subseteq UpTo(K, v) /\ UpTo(K, u) # UpTo(K, v)
        <4>1. u \in Int /\ v \in Int /\ \A y \in K : y \in Int
          BY <1>0
        <4>2. \A y \in K : y <= u => y <= v
          BY <4>1
        <4>3. ~ (v <= u) /\ v <= v
          BY <4>1
        <4> QED BY <4>2, <4>3 DEF UpTo
      <3>2. UpTo(K, u) \in SUBSET K /\ UpTo(K, v) \in SUBSET K
        BY DEF UpTo
      <3>3. IsFiniteSet(UpTo(K, v))
        BY <1>1, <3>2
      <3>4. Cardinality(UpTo(K, u)) < Cardinality(UpTo(K, v))
        <4>1. UpTo(K, u) \in SUBSET UpTo(K, v)
          BY <3>1
        <4>2. Cardinality(UpTo(K, v)) = Cardinality(UpTo(K, u)) => UpTo(K, u) = UpTo(K, v)
          BY <3>3, <4>1, FS_Subset
        <4>3. Cardinality(UpTo(K, u)) <= Cardinality(UpTo(K, v))
          BY <3>3, <4>1, FS_Subset
        <4>4. Cardinality(UpTo(K, u)) \in Int /\ Cardinality(UpTo(K, v)) \in Int
          BY <1>1, <3>2
        <4> QED BY <3>1, <4>2, <4>3, <4>4
      <3>5. Cardinality(UpTo(K, u)) \in Int /\ Cardinality(UpTo(K, v)) \in Int
        BY <1>1, <3>2
      <3> QED BY <3>4, <3>5
    <2>6. o[j] = x
      <3>1. o[j] \in Int /\ x \in Int
        BY <2>4, <1>0
      <3>2. o[j] < x \/ x < o[j] \/ o[j] = x
        BY <3>1
      <3> QED BY <2>4, <2>5, <3>2
    <2> QED BY <2>3, <2>6
  <1>10. m \in Nat
    BY <1>1
  <1> HIDE DEF o
  <1>11. \A j, k \in 1 .. m : o[j] = o[k] => j = k
    BY <1>7
  <1>12. Lists(o, K)
    BY <1>8, <1>9, <1>10, <1>11 DEF Lists
  <1> QED BY <1>12 DEF o

\* The remainder is a wrap around.
LEMMA ModIs ==
    ASSUME NEW n \in Nat \ {0}, NEW x \in 0 .. 2 * n - 1
    PROVE  x % n = IF x < n THEN x ELSE x - n
  OBVIOUS

\* The search goes through all cells, once.
LEMMA AroundIs ==
    ASSUME NEW from \in Idx
    PROVE  /\ Around(from) \in [1 .. Size -> Idx]
           /\ \A j, k \in 1 .. Size : Around(from)[j] = Around(from)[k] => j = k
           /\ \A i \in Idx : \E k \in 1 .. Size : Around(from)[k] = i
  <1> DEFINE a == Around(from)
  <1>1. \A k \in 1 .. Size : a[k] = IF from + k - 1 < Size THEN from + k - 1 ELSE from + k - 1 - Size
    <2> SUFFICES ASSUME NEW k \in 1 .. Size
                 PROVE  a[k] = IF from + k - 1 < Size THEN from + k - 1 ELSE from + k - 1 - Size
      OBVIOUS
    <2>1. from + k - 1 \in 0 .. 2 * Size - 1 /\ Size \in Nat \ {0}
      BY Consts DEF Idx
    <2>2. a[k] = (from + k - 1) % Size
      BY DEF Around
    <2> HIDE DEF a
    <2> DEFINE x == from + k - 1
    <2>3. from + k - 1 - Size = x - Size /\ x \in 0 .. 2 * Size - 1
      <3>1. from \in Int /\ k \in Int /\ Size \in Int
        BY Consts DEF Idx
      <3> QED BY <2>1, <3>1
    <2> HIDE DEF x
    <2>4. x % Size = IF x < Size THEN x ELSE x - Size
      BY <2>1, <2>3, ModIs
    <2> QED BY <2>2, <2>3, <2>4 DEF x
  <1>2. from \in 0 .. Size - 1 /\ Size \in Nat \ {0}
    BY Consts DEF Idx
  <1>3. DOMAIN a = 1 .. Size /\ a = [k \in 1 .. Size |-> a[k]]
    BY DEF Around
  <1> HIDE DEF a
  <1>4. \A k \in 1 .. Size : a[k] \in Idx
    BY <1>1, <1>2 DEF Idx
  <1>5. a \in [1 .. Size -> Idx]
    BY <1>3, <1>4
  <1>6. \A j, k \in 1 .. Size : a[j] = a[k] => j = k
    BY <1>1, <1>2
  <1>7. ASSUME NEW i \in Idx PROVE \E k \in 1 .. Size : a[k] = i
    <2>1. i \in 0 .. Size - 1
      BY DEF Idx
    <2>2. CASE i >= from
      <3>1. i - from + 1 \in 1 .. Size
        BY <1>2, <2>1, <2>2
      <3>2. a[i - from + 1] = i
        BY <1>1, <1>2, <2>1, <3>1
      <3> QED BY <3>1, <3>2
    <2>3. CASE i < from
      <3>1. i - from + 1 + Size \in 1 .. Size
        BY <1>2, <2>1, <2>3
      <3>2. a[i - from + 1 + Size] = i
        BY <1>1, <1>2, <2>1, <3>1
      <3> QED BY <3>1, <3>2
    <2> QED BY <1>2, <2>1, <2>2, <2>3
  <1> QED BY <1>5, <1>6, <1>7 DEF a

\* The cells of c that a search may take.
Usable(c) == {i \in Idx : CanUse(c, i)}

\* An injective map cannot go into a smaller set.
LEMMA NotSmaller ==
    ASSUME NEW S, IsFiniteSet(S), NEW T, IsFiniteSet(T), NEW f \in [S -> T],
           \A x, y \in S : f[x] = f[y] => x = y
    PROVE  Cardinality(S) <= Cardinality(T)
  <1>1. Cardinality(S) \in Nat /\ Cardinality(T) \in Nat
    BY FS_CardinalityType
  <1> SUFFICES ASSUME Cardinality(T) < Cardinality(S) PROVE FALSE
    BY <1>1
  <1>2. \E x, y \in S : x # y /\ f[x] = f[y]
    BY FS_PigeonHole
  <1> QED BY <1>2

\* What a search for n cells finds.
Found(c, r, n) ==
    /\ r = <<>> \/ (n # 0 /\ SlotOf(r, n) /\ \A j \in 1 .. n : r[j] \in Usable(c))
    /\ n # 0 /\ n <= Cardinality(Usable(c)) => r # <<>>

\* find_slot() for one stream: the cells are usable and different, and there is a
\* slot if there are enough usable cells, wherever the head is.
LEMMA SlotCellsIs ==
    ASSUME NEW c \in Good, NEW head \in 0 .. Size, NEW n \in Nat
    PROVE  Found(c, SlotCells(c, head, n), n)
  <1> DEFINE from == SearchFrom(c, head, n)
             order == Around(from)
             K == {k \in DOMAIN order : CanUse(c, order[k])}
             good == Ordered(K)
             r == IF Len(good) < n THEN <<>> ELSE [j \in 1 .. n |-> order[good[j]]]
  <1>1. SlotCells(c, head, n) = r
    BY Zenon DEF SlotCells
  <1>2. from \in Idx
    BY Consts DEF SearchFrom, Idx
  <1> HIDE DEF from
  <1>3. /\ order \in [1 .. Size -> Idx]
        /\ \A j, k \in 1 .. Size : order[j] = order[k] => j = k
        /\ \A i \in Idx : \E k \in 1 .. Size : order[k] = i
    BY <1>2, AroundIs
  <1> HIDE DEF order
  <1>4. K \subseteq 0 .. Size /\ Size \in Nat /\ K \subseteq 1 .. Size
    BY <1>3, Consts
  <1>40. \A k \in K : order[k] \in Usable(c)
    BY <1>3 DEF Usable
  <1>41. \A i \in Usable(c) : \E k \in K : order[k] = i
    BY <1>3 DEF Usable
  <1> HIDE DEF K
  <1>5. Lists(good, K)
    BY <1>4, OrderedIs
  <1> HIDE DEF good
  <1>6. /\ good \in [1 .. Cardinality(K) -> K] /\ Cardinality(K) \in Nat
        /\ \A j, k \in 1 .. Cardinality(K) : good[j] = good[k] => j = k
    BY <1>5 DEF Lists
  <1>7. Len(good) = Cardinality(K)
    BY <1>6
  <1>8. CASE n = 0
    <2>1. r = [j \in 1 .. 0 |-> order[good[j]]]
      BY <1>6, <1>7, <1>8
    <2>2. r = <<>>
      BY <2>1
    <2> HIDE DEF r
    <2> QED BY <1>1, <1>8, <2>2 DEF Found
  <1>9. CASE n # 0 /\ Cardinality(K) < n
    <2>1. r = <<>>
      BY <1>7, <1>9
    <2>2. ~ (n <= Cardinality(Usable(c)))
      <3> DEFINE g == [i \in Usable(c) |-> CHOOSE k \in K : order[k] = i]
      <3>1. g \in [Usable(c) -> K] /\ \A i \in Usable(c) : order[g[i]] = i
        BY <1>41
      <3>2. \A x, y \in Usable(c) : g[x] = g[y] => x = y
        BY <3>1
      <3> HIDE DEF g
      <3>3. IsFiniteSet(Usable(c)) /\ IsFiniteSet(K)
        <4>1. Usable(c) \subseteq Idx
          BY DEF Usable
        <4>2. IsFiniteSet(1 .. Size)
          BY <1>4, FS_Interval
        <4>3. IsFiniteSet(K)
          BY <1>4, <4>2, FS_Subset
        <4> QED BY <4>1, <4>3, Finite, FS_Subset
      <3>4. Cardinality(Usable(c)) <= Cardinality(K) /\ Cardinality(Usable(c)) \in Nat
        BY <3>1, <3>2, <3>3, NotSmaller, FS_CardinalityType
      <3> QED BY <1>6, <1>9, <3>4
    <2> HIDE DEF r
    <2> QED BY <1>1, <2>1, <2>2 DEF Found
  <1>10. CASE n # 0 /\ ~ (Cardinality(K) < n)
    <2>1. r = [j \in 1 .. n |-> order[good[j]]]
      BY <1>7, <1>10
    <2>2. \A j \in 1 .. n : j \in 1 .. Cardinality(K) /\ good[j] \in K /\ good[j] \in 1 .. Size
      <3>1. \A j \in 1 .. n : j \in 1 .. Cardinality(K)
        BY <1>6, <1>10
      <3>2. \A j \in 1 .. n : good[j] \in K
        BY <1>6, <3>1
      <3> QED BY <1>4, <3>1, <3>2
    <2>3. r \in [1 .. n -> Idx] /\ \A j \in 1 .. n : r[j] = order[good[j]]
      BY <1>3, <2>1, <2>2
    <2> HIDE DEF r
    <2>4. \A j, k \in 1 .. n : r[j] = r[k] => j = k
      BY <1>3, <1>6, <2>2, <2>3
    <2>5. \A j \in 1 .. n : r[j] \in Usable(c)
      BY <1>40, <2>2, <2>3
    <2>6. r # <<>>
      BY <2>3, <1>10
    <2> QED BY <1>1, <1>10, <2>3, <2>4, <2>5, <2>6 DEF Found, SlotOf
  <1> QED BY <1>6, <1>8, <1>9, <1>10

Caches == [Streams -> Good]
Heads == [Streams -> 0 .. Size]

\* A micro batch, and a slot for it.
IsUBatch(ub) ==
    /\ DOMAIN ub \subseteq Streams /\ DOMAIN ub # {}
    /\ \A s \in DOMAIN ub : ub[s] \in Seq(Token) /\ Len(ub[s]) # 0

IsSlot(slot, ub) ==
    /\ slot = [s \in DOMAIN ub |-> slot[s]]
    /\ \A s \in DOMAIN ub : SlotOf(slot[s], Len(ub[s]))

UsableSlot(cs, slot, ub) ==
    /\ IsSlot(slot, ub)
    /\ \A s \in DOMAIN ub : \A j \in 1 .. Len(ub[s]) : slot[s][j] \in Usable(cs[s])

HasRoom(cs, ub) == \A s \in DOMAIN ub : Len(ub[s]) <= Cardinality(Usable(cs[s]))

\* The streams of a mode.
LEMMA StreamsAre ==
    /\ Streams \subseteq Seqs /\ IsFiniteSet(Streams)
    /\ mode # "streams" => Streams = {0}
    /\ mode = "streams" => Streams = Seqs
    /\ \A q \in Seqs : StreamOf(q) \in Streams
  <1>1. 0 \in Seqs
    BY Consts DEF Seqs
  <1>2. Streams \subseteq Seqs
    BY <1>1 DEF Streams
  <1>3. IsFiniteSet(Streams)
    BY <1>2, Finite, FS_Subset
  <1> QED BY <1>2, <1>3 DEF Streams, StreamOf

\* find_slot(): a slot consists of usable cells, and is found when there is room in
\* every stream.
LEMMA FindSlotIs ==
    ASSUME NEW cs \in Caches, NEW hs \in Heads, NEW ub, IsUBatch(ub)
    PROVE  /\ FindSlot(cs, hs, ub) = <<>> \/ UsableSlot(cs, FindSlot(cs, hs, ub), ub)
           /\ HasRoom(cs, ub) => FindSlot(cs, hs, ub) # <<>>
  <1> DEFINE found == [s \in DOMAIN ub |-> SlotCells(cs[s], hs[s], Len(ub[s]))]
  <1>1. FindSlot(cs, hs, ub) = IF \E s \in DOMAIN ub : found[s] = <<>> THEN <<>> ELSE found
    BY DEF FindSlot, AllOrNothing
  <1>2. ASSUME NEW s \in DOMAIN ub
        PROVE  Found(cs[s], found[s], Len(ub[s])) /\ Len(ub[s]) # 0
    <2>1. /\ s \in Streams /\ cs[s] \in Good /\ hs[s] \in 0 .. Size
          /\ Len(ub[s]) \in Nat /\ Len(ub[s]) # 0
      BY DEF IsUBatch, Caches, Heads
    <2>2. Found(cs[s], SlotCells(cs[s], hs[s], Len(ub[s])), Len(ub[s]))
      BY <2>1, SlotCellsIs
    <2> QED BY <2>1, <2>2
  <1>3. found = [s \in DOMAIN ub |-> found[s]]
    OBVIOUS
  <1> HIDE DEF found
  <1>4. CASE \E s \in DOMAIN ub : found[s] = <<>>
    <2>1. FindSlot(cs, hs, ub) = <<>>
      BY <1>1, <1>4
    <2>2. ~ HasRoom(cs, ub)
      BY <1>2, <1>4 DEF HasRoom, Found
    <2> QED BY <2>1, <2>2
  <1>5. CASE ~ \E s \in DOMAIN ub : found[s] = <<>>
    <2>1. FindSlot(cs, hs, ub) = found
      BY <1>1, <1>5
    <2>2. UsableSlot(cs, found, ub)
      BY <1>2, <1>3, <1>5 DEF UsableSlot, IsSlot, Found
    <2>3. found # <<>>
      <3>1. DOMAIN found # {}
        BY <1>3 DEF IsUBatch
      <3> QED BY <3>1
    <2> QED BY <2>1, <2>2, <2>3
  <1> QED BY <1>4, <1>5

\* ds is cs with ub in slot.
AppliedTo(cs, ds, ub, slot) ==
    /\ ds \in Caches
    /\ \A s \in DOMAIN ub : RefilledSome(cs[s], ds[s], slot[s], ub[s], Len(ub[s]))
    /\ \A s \in Streams : s \notin DOMAIN ub => ds[s] = cs[s]

\* apply_ubatch() fills the streams of the micro batch and leaves the others.
LEMMA AppliedIs ==
    ASSUME NEW cs \in Caches, NEW ub, IsUBatch(ub), NEW slot, IsSlot(slot, ub)
    PROVE  AppliedTo(cs, Applied(cs, ub, slot), ub, slot)
  <1> DEFINE ds == Applied(cs, ub, slot)
  <1>1. DOMAIN cs = Streams /\ \A s \in Streams : cs[s] \in Good
    BY DEF Caches
  <1>2. ds = [s \in Streams |-> IF s \in DOMAIN ub THEN FilledStream(cs[s], slot[s], ub[s]) ELSE cs[s]]
    BY <1>1 DEF Applied
  <1> HIDE DEF ds
  <1>3. ASSUME NEW s \in DOMAIN ub
        PROVE  RefilledSome(cs[s], ds[s], slot[s], ub[s], Len(ub[s])) /\ ds[s] \in Good /\ s \in Streams
    <2>1. /\ s \in Streams /\ cs[s] \in Good /\ Len(ub[s]) \in Nat
          /\ ub[s] \in [1 .. Len(ub[s]) -> Token]
      BY <1>1 DEF IsUBatch
    <2>2. SlotOf(slot[s], Len(ub[s]))
      BY DEF IsSlot
    <2>3. RefilledSome(cs[s], FilledStream(cs[s], slot[s], ub[s]), slot[s], ub[s], Len(ub[s]))
      BY <2>1, <2>2, FilledStreamIs
    <2>4. RefilledSome(cs[s], ds[s], slot[s], ub[s], Len(ub[s]))
      BY <1>2, <2>1, <2>3
    <2> QED BY <2>1, <2>4 DEF RefilledSome, Refilled
  <1>4. \A s \in Streams : s \notin DOMAIN ub => ds[s] = cs[s]
    BY <1>2
  <1>5. ds \in Caches
    <2>1. \A s \in Streams : ds[s] \in Good
      BY <1>1, <1>3, <1>4
    <2> QED BY <1>2, <2>1 DEF Caches
  <1>6. AppliedTo(cs, ds, ub, slot)
    BY <1>3, <1>4, <1>5 DEF AppliedTo
  <1> QED BY <1>6 DEF ds

\* The heads stay inside their streams, or one behind.
LEMMA HeadsAppliedIs ==
    ASSUME NEW hs \in Heads, NEW ub, IsUBatch(ub), NEW slot, IsSlot(slot, ub)
    PROVE  HeadsApplied(hs, ub, slot) \in Heads
  <1>1. ASSUME NEW s \in DOMAIN ub PROVE Last(slot[s]) + 1 \in 0 .. Size
    <2>1. Len(ub[s]) \in Nat \ {0} /\ slot[s] \in [1 .. Len(ub[s]) -> Idx]
      BY DEF IsUBatch, IsSlot, SlotOf
    <2>2. Last(slot[s]) \in Idx
      BY <2>1 DEF Last
    <2> QED BY <2>2, Consts DEF Idx
  <1> QED BY <1>1 DEF HeadsApplied, Heads

\* ds is cs with the cells of slot as they are in os.
AllUndone(cs, ds, os, ub, slot) ==
    /\ ds \in Caches
    /\ \A s \in DOMAIN ub : UndoneTo(cs[s], ds[s], os[s], slot[s], Len(ub[s]))
    /\ \A s \in Streams : s \notin DOMAIN ub => ds[s] = cs[s]

\* The restore of prepare() for all streams of a micro batch.
LEMMA UndoneIs ==
    ASSUME NEW cs \in Caches, NEW os \in Caches, NEW ub, IsUBatch(ub), NEW slot, IsSlot(slot, ub)
    PROVE  AllUndone(cs, Undone(cs, os, ub, slot), os, ub, slot)
  <1> DEFINE ds == Undone(cs, os, ub, slot)
  <1>1. DOMAIN cs = Streams /\ \A s \in Streams : cs[s] \in Good /\ os[s] \in Good
    BY DEF Caches
  <1>2. ds = [s \in Streams |-> IF s \in DOMAIN ub THEN UndoneStream(cs[s], os[s], slot[s]) ELSE cs[s]]
    BY <1>1 DEF Undone
  <1> HIDE DEF ds
  <1>3. ASSUME NEW s \in DOMAIN ub
        PROVE  UndoneTo(cs[s], ds[s], os[s], slot[s], Len(ub[s])) /\ ds[s] \in Good /\ s \in Streams
    <2>1. s \in Streams /\ cs[s] \in Good /\ os[s] \in Good /\ Len(ub[s]) \in Nat
      BY <1>1 DEF IsUBatch
    <2>2. SlotOf(slot[s], Len(ub[s]))
      BY DEF IsSlot
    <2>3. UndoneTo(cs[s], UndoneStream(cs[s], os[s], slot[s]), os[s], slot[s], Len(ub[s]))
      BY <2>1, <2>2, UndoneStreamIs
    <2>4. UndoneTo(cs[s], ds[s], os[s], slot[s], Len(ub[s]))
      BY <1>2, <2>1, <2>3
    <2> QED BY <2>1, <2>4 DEF UndoneTo
  <1>4. \A s \in Streams : s \notin DOMAIN ub => ds[s] = cs[s]
    BY <1>2
  <1>5. ds \in Caches
    <2>1. \A s \in Streams : ds[s] \in Good
      BY <1>1, <1>3, <1>4
    <2> QED BY <1>2, <2>1 DEF Caches
  <1>6. AllUndone(cs, ds, os, ub, slot)
    BY <1>3, <1>4, <1>5 DEF AllUndone
  <1> QED BY <1>6 DEF ds

\* A head that is set back stays inside its stream, also when it is that of another
\* one.
LEMMA HeadsUndoneIs ==
    ASSUME NEW hs \in Heads, NEW old \in Heads, NEW ub, IsUBatch(ub)
    PROVE  HeadsUndone(hs, old, ub) \in Heads
  <1> DEFINE m == Min(DOMAIN ub)
  <1>1. DOMAIN ub \subseteq Streams /\ DOMAIN ub # {} /\ DOMAIN ub \subseteq 0 .. NSeq - 1
    BY StreamsAre DEF IsUBatch, Seqs
  <1>2. m \in DOMAIN ub /\ \A s \in DOMAIN ub : m <= s
    <2>1. \A s \in DOMAIN ub : s \in Int /\ 0 <= s
      BY <1>1
    <2>2. PICK b \in Int : \A s \in DOMAIN ub : b <= s
      BY <2>1
    <2>3. DOMAIN ub \subseteq Int
      BY <2>1
    <2> HIDE DEF m
    <2> QED BY <1>1, <2>2, <2>3, MinIs DEF m
  <1> HIDE DEF m
  <1>3. ASSUME NEW s \in DOMAIN ub PROVE s - m \in Streams
    <2>1. CASE mode = "streams"
      <3>1. Streams = 0 .. NSeq - 1
        BY <2>1, StreamsAre DEF Seqs
      <3>2. s \in 0 .. NSeq - 1 /\ m \in 0 .. NSeq - 1 /\ m <= s
        BY <1>1, <1>2
      <3>3. s - m \in 0 .. NSeq - 1
        BY <3>2, Consts
      <3> QED BY <3>1, <3>3
    <2>2. CASE mode # "streams"
      <3>1. Streams = {0}
        BY <2>2, StreamsAre
      <3>2. s = 0 /\ m = 0
        BY <1>1, <1>2, <3>1
      <3> QED BY <3>1, <3>2
    <2> QED BY <2>1, <2>2
  <1>4. HeadsUndone(hs, old, ub) = [s \in Streams |-> IF s \in DOMAIN ub THEN old[s - m] ELSE hs[s]]
    BY DEF HeadsUndone, m, Heads
  <1> QED BY <1>3, <1>4 DEF Heads

-----------------------------------------------------------------------------
(* prepare(): the slots of all micro batches, and back.                    *)

NonEmpty(W) == Seq(W) \ {<<>>}

\* t grows from b, one step at a time.
GrowsBy(t, n, W, b, step) ==
    /\ t \in Seq(W) /\ Len(t) = n + 1 /\ t[1] = b
    /\ \A j \in 1 .. n : t[j + 1] = step[<<j, t[j]>>]

Appends(h, n, W, step) ==
    \A k \in 1 .. n, a \in NonEmpty(W) : h[<<k, a>>] = Append(a, step[<<k, Last(a)>>])

\* A sequence that grows step by step stays one of its kind.
LEMMA AppendStays ==
    ASSUME NEW n \in Nat, NEW W, NEW step, StaysIn(step, 1 .. n, W), NEW h, Appends(h, n, W, step)
    PROVE  StaysIn(h, 1 .. n, NonEmpty(W))
  <1> SUFFICES ASSUME NEW k \in 1 .. n, NEW a \in NonEmpty(W) PROVE h[<<k, a>>] \in NonEmpty(W)
    BY DEF StaysIn
  <1>1. a \in Seq(W) /\ a # <<>>
    BY DEF NonEmpty
  <1>2. Last(a) \in W
    BY <1>1 DEF Last
  <1> DEFINE x == step[<<k, Last(a)>>]
  <1>3. x \in W
    BY <1>2 DEF StaysIn
  <1>4. h[<<k, a>>] = Append(a, x)
    BY DEF Appends
  <1> HIDE DEF x
  <1>5. Append(a, x) \in Seq(W) /\ Len(Append(a, x)) = Len(a) + 1 /\ Len(a) \in Nat
    BY <1>1, <1>3
  <1>6. Append(a, x) # <<>>
    <2> DEFINE y == Append(a, x)
    <2>1. Len(y) # 0
      BY <1>5
    <2> HIDE DEF y
    <2>2. y # <<>>
      BY <2>1
    <2> QED BY <2>2 DEF y
  <1> QED BY <1>4, <1>5, <1>6 DEF NonEmpty

\* A fold that appends yields the whole history.
LEMMA Grown ==
    ASSUME NEW n \in Nat, NEW W, NEW b \in W, NEW step, StaysIn(step, 1 .. n, W),
           NEW h, Appends(h, n, W, step), NEW g, Trace(g, n, NonEmpty(W), <<b>>, h)
    PROVE  GrowsBy(g[n], n, W, b, step)
  <1> DEFINE D == {k \in 0 .. n : GrowsBy(g[k], k, W, b, step)}
  <1>1. 0 \in D
    <2>1. g[0] = <<b>>
      BY DEF Trace
    <2>2. <<b>> \in Seq(W) /\ Len(<<b>>) = 0 + 1 /\ <<b>>[1] = b
      OBVIOUS
    <2>3. GrowsBy(g[0], 0, W, b, step)
      BY <2>1, <2>2 DEF GrowsBy
    <2> QED BY <2>3
  <1>2. ASSUME NEW k \in 1 .. n, k - 1 \in D PROVE k \in D
    <2> DEFINE a == g[k - 1]
               x == step[<<k, Last(a)>>]
    <2>1. GrowsBy(a, k - 1, W, b, step)
      BY <1>2
    <2>2. a \in NonEmpty(W) /\ g[k] = h[<<k, a>>]
      BY DEF Trace
    <2>3. g[k] = Append(a, x)
      BY <2>2 DEF Appends
    <2> HIDE DEF a
    <2>4. /\ a \in Seq(W) /\ Len(a) = k /\ a[1] = b
          /\ \A j \in 1 .. k - 1 : a[j + 1] = step[<<j, a[j]>>]
      BY <2>1 DEF GrowsBy
    <2>5. Last(a) = a[k] /\ a[k] \in W
      BY <2>4 DEF Last
    <2>6. x \in W
      BY <2>5 DEF StaysIn
    <2>7. x = step[<<k, a[k]>>]
      BY <2>5
    <2> HIDE DEF x
    <2>8. /\ g[k] \in Seq(W) /\ Len(g[k]) = k + 1 /\ g[k][k + 1] = x
          /\ \A j \in 1 .. k : g[k][j] = a[j]
      BY <2>3, <2>4, <2>6
    <2>9. \A j \in 1 .. k : g[k][j + 1] = step[<<j, g[k][j]>>]
      <3> TAKE j \in 1 .. k
      <3>1. CASE j = k
        BY <2>7, <2>8, <3>1
      <3>2. CASE j # k
        <4>1. j \in 1 .. k - 1 /\ j + 1 \in 1 .. k
          BY <3>2
        <4> QED BY <2>4, <2>8, <4>1
      <3> QED BY <3>1, <3>2
    <2>10. GrowsBy(g[k], k, W, b, step)
      BY <2>4, <2>8, <2>9 DEF GrowsBy
    <2> QED BY <2>10
  <1> HIDE DEF D
  <1>3. n \in D
    <2>1. \A k \in 0 .. n : k \in D
      BY <1>1, <1>2, IntervalInduct
    <2> QED BY <2>1
  <1> QED BY <1>3 DEF D

----
\* What prepare() remembers of one micro batch.
Slots == {<<>>} \cup UNION {[D -> Seq(Idx)] : D \in SUBSET Streams}
Stage == [ok : BOOLEAN, slot : Slots, cells : Caches, heads : Heads]

UBatches(ubs, n) == DOMAIN ubs = 1 .. n /\ \A u \in 1 .. n : IsUBatch(ubs[u])

\* A slot is one cell for every token of every stream.
LEMMA SlotType ==
    ASSUME NEW ub, IsUBatch(ub), NEW slot, IsSlot(slot, ub)
    PROVE  slot \in Slots
  <1>1. \A s \in DOMAIN ub : slot[s] \in Seq(Idx)
    BY DEF IsSlot, SlotOf, IsUBatch
  <1>2. slot \in [DOMAIN ub -> Seq(Idx)]
    BY <1>1 DEF IsSlot
  <1>3. DOMAIN ub \in SUBSET Streams
    BY DEF IsUBatch
  <1> QED BY <1>2, <1>3 DEF Slots

\* From the cache a before a micro batch to the cache b after it.
StageStep(a, b, ub) ==
    /\ b \in Stage
    /\ b.ok => a.ok /\ UsableSlot(a.cells, b.slot, ub) /\ AppliedTo(a.cells, b.cells, ub, b.slot)
    /\ ~ b.ok => b.cells = a.cells
    /\ a.ok /\ HasRoom(a.cells, ub) => b.ok

\* One step of prepare(): a slot is found and filled, or nothing more is tried.
LEMMA TriedIs ==
    ASSUME NEW a \in Stage, NEW ub, IsUBatch(ub)
    PROVE  StageStep(a, Tried(a, ub), ub)
  <1> DEFINE b == Tried(a, ub)
             slot == FindSlot(a.cells, a.heads, ub)
  <1>1. a.ok \in BOOLEAN /\ a.slot \in Slots /\ a.cells \in Caches /\ a.heads \in Heads
    BY DEF Stage
  <1>2. /\ slot = <<>> \/ UsableSlot(a.cells, slot, ub)
        /\ HasRoom(a.cells, ub) => slot # <<>>
    BY <1>1, FindSlotIs
  <1>3. b = IF a.ok THEN Filled(a, ub, slot) ELSE a
    BY DEF Tried
  <1> HIDE DEF b, slot
  <1>4. CASE ~ a.ok
    BY <1>1, <1>3, <1>4 DEF StageStep, b
  <1>5. CASE a.ok /\ slot = <<>>
    <2>1. b = [a EXCEPT !.ok = FALSE]
      BY <1>3, <1>5 DEF Filled
    <2>2. b \in Stage /\ ~ b.ok /\ b.cells = a.cells
      BY <1>1, <2>1 DEF Stage
    <2> QED BY <1>2, <1>5, <2>2 DEF StageStep, b
  <1>6. CASE a.ok /\ slot # <<>>
    <2>1. b = [ok |-> TRUE, slot |-> slot, cells |-> Applied(a.cells, ub, slot),
               heads |-> HeadsApplied(a.heads, ub, slot)]
      BY <1>3, <1>6 DEF Filled
    <2>2. UsableSlot(a.cells, slot, ub) /\ IsSlot(slot, ub)
      BY <1>2, <1>6 DEF UsableSlot
    <2>3. AppliedTo(a.cells, Applied(a.cells, ub, slot), ub, slot)
      BY <1>1, <2>2, AppliedIs
    <2>4. HeadsApplied(a.heads, ub, slot) \in Heads
      BY <1>1, <2>2, HeadsAppliedIs
    <2>5. slot \in Slots
      BY <2>2, SlotType
    <2>6. /\ b.ok /\ b.slot = slot /\ b.cells = Applied(a.cells, ub, slot)
          /\ b.heads = HeadsApplied(a.heads, ub, slot)
      BY <2>1
    <2>7. b \in Stage
      <3>1. b.cells \in Caches
        BY <2>3, <2>6 DEF AppliedTo
      <3> QED BY <2>1, <2>4, <2>5, <2>6, <3>1 DEF Stage
    <2>8. StageStep(a, b, ub)
      BY <1>6, <2>2, <2>3, <2>6, <2>7 DEF StageStep
    <2> QED BY <2>8 DEF b
  <1> QED BY <1>1, <1>4, <1>5, <1>6

\* The stages of prepare().
Stages(t, cs, hs, ubs, n) ==
    /\ Len(t) = n + 1 /\ t \in Seq(Stage)
    /\ t[1].ok /\ t[1].cells = cs /\ t[1].heads = hs
    /\ \A u \in 1 .. n : StageStep(t[u], t[u + 1], ubs[u])

\* All steps of prepare().
LEMMA AttemptsAre ==
    ASSUME NEW cs \in Caches, NEW hs \in Heads, NEW n \in Nat, NEW ubs, UBatches(ubs, n)
    PROVE  Stages(Attempts(cs, hs, ubs), cs, hs, ubs, n)
  <1> DEFINE b == [ok |-> TRUE, slot |-> <<>>, cells |-> cs, heads |-> hs]
             V == NonEmpty(Stage)
             h == [x \in (1 .. n) \X V |-> Append(x[2], Tried(Last(x[2]), ubs[x[1]]))]
             step == [x \in (1 .. n) \X Stage |-> Tried(x[2], ubs[x[1]])]
             Eq(it) == it = [s \in SUBSET (DOMAIN ubs) |->
                               IF s = {} THEN <<b>>
                               ELSE Append(it[s \ {Max(s)}], Tried(Last(it[s \ {Max(s)}]), ubs[Max(s)]))]
             it == CHOOSE g : Eq(g)
             t == Attempts(cs, hs, ubs)
  <1>1. t = it[DOMAIN ubs]
    BY Zenon DEF Attempts, FoldLeft, MapThenFoldSet
  <1>2. DOMAIN ubs = 1 .. n /\ \A u \in 1 .. n : IsUBatch(ubs[u])
    BY DEF UBatches
  <1>3. b \in Stage /\ b.ok /\ b.cells = cs /\ b.heads = hs
    BY DEF Stage, Slots
  <1> HIDE DEF t, b
  <1>4. <<b>> \in V
    BY <1>3 DEF NonEmpty
  <1>5. \A k \in 1 .. n, a \in V : h[<<k, a>>] = Append(a, Tried(Last(a), ubs[k]))
    OBVIOUS
  <1>6. \A k \in 1 .. n, a \in Stage : step[<<k, a>>] = Tried(a, ubs[k])
    OBVIOUS
  <1>7. \A a \in V : Last(a) \in Stage
    BY DEF NonEmpty, Last
  <1> HIDE DEF h, step
  <1>8. Appends(h, n, Stage, step)
    BY <1>5, <1>6, <1>7 DEF Appends
  <1>9. ASSUME NEW k \in 1 .. n, NEW a \in Stage
        PROVE  StageStep(a, step[<<k, a>>], ubs[k]) /\ step[<<k, a>>] \in Stage
    <2>1. StageStep(a, Tried(a, ubs[k]), ubs[k])
      BY <1>2, TriedIs
    <2> QED BY <1>6, <2>1 DEF StageStep
  <1>10. StaysIn(step, 1 .. n, Stage)
    BY <1>9 DEF StaysIn
  <1>11. StaysIn(h, 1 .. n, V)
    BY <1>8, <1>10, AppendStays
  <1> HIDE DEF V
  <1>12. PICK f : LeftFoldOf(f, n, V, <<b>>, h)
    BY <1>4, <1>11, LeftExists
  <1>13. /\ f \in [SUBSET (1 .. n) -> V]
         /\ \A s \in SUBSET (1 .. n) : f[s] = IF s = {} THEN <<b>> ELSE h[<<Max(s), f[s \ {Max(s)}]>>]
    BY <1>12 DEF LeftFoldOf
  <1>14. ASSUME NEW s \in SUBSET (1 .. n), s # {}
         PROVE  f[s] = Append(f[s \ {Max(s)}], Tried(Last(f[s \ {Max(s)}]), ubs[Max(s)]))
    <2>1. Max(s) \in 1 .. n /\ s \ {Max(s)} \in SUBSET (1 .. n)
      BY <1>14, MaxElement
    <2>2. f[s] = h[<<Max(s), f[s \ {Max(s)}]>>] /\ f[s \ {Max(s)}] \in V
      BY <1>13, <1>14, <2>1
    <2> QED BY <1>5, <2>1, <2>2
  <1>15. Eq(f)
    BY <1>2, <1>13, <1>14
  <1>16. Eq(it)
    BY <1>15
  <1> HIDE DEF it
  <1>17. it[1 .. n] = f[1 .. n]
    <2>1. \A s \in SUBSET (1 .. n) : it[s] = IF s = {} THEN <<b>>
              ELSE Append(it[s \ {Max(s)}], Tried(Last(it[s \ {Max(s)}]), ubs[Max(s)]))
      BY <1>2, <1>16
    <2>2. f[{}] = it[{}]
      BY <1>13, <2>1
    <2>3. \A s \in SUBSET (1 .. n) : s # {} /\ it[s \ {Max(s)}] = f[s \ {Max(s)}] => it[s] = f[s]
      BY <1>14, <2>1
    <2> QED BY <2>2, <2>3, SameLeft
  <1>18. PICK g : Trace(g, n, V, <<b>>, h) /\ g[n] = f[1 .. n]
    BY <1>12, LeftTrace
  <1>19. GrowsBy(g[n], n, Stage, b, step)
    BY <1>3, <1>8, <1>10, <1>18, Grown DEF V
  <1>20. t = g[n]
    BY <1>1, <1>2, <1>17, <1>18
  <1>21. /\ t \in Seq(Stage) /\ Len(t) = n + 1 /\ t[1] = b
         /\ \A u \in 1 .. n : t[u + 1] = step[<<u, t[u]>>]
    BY <1>19, <1>20 DEF GrowsBy
  <1>22. ASSUME NEW u \in 1 .. n PROVE StageStep(t[u], t[u + 1], ubs[u])
    <2>1. t[u] \in Stage
      BY <1>21
    <2> QED BY <1>9, <1>21, <2>1
  <1>23. Stages(t, cs, hs, ubs, n)
    BY <1>3, <1>21, <1>22 DEF Stages
  <1> QED BY <1>23 DEF t

\* The values of a fold from right to left, one after the other.
BackTrace(g, n, V, base, h) ==
    /\ g \in [1 .. n + 1 -> V] /\ g[n + 1] = base
    /\ \A k \in 1 .. n : g[k] = h[<<k, g[k + 1]>>]

\* A set of indices that is not empty has its minimum.
LEMMA MinElement ==
    ASSUME NEW n \in Nat, NEW s \in SUBSET (1 .. n), s # {}
    PROVE  Min(s) \in s
  <1>1. s \subseteq Int
    OBVIOUS
  <1>2. PICK b \in Int : \A x \in s : b <= x
    <2>1. \A x \in s : 0 <= x
      OBVIOUS
    <2> QED BY <2>1
  <1> QED BY <1>1, <1>2, MinIs

\* A fold from the right, step by step.
LEMMA RightTrace ==
    ASSUME NEW n \in Nat, NEW V, NEW base, NEW h, NEW f, RightFoldOf(f, n, V, base, h)
    PROVE  \E g : BackTrace(g, n, V, base, h) /\ g[1] = f[1 .. n]
  <1> DEFINE g == [k \in 1 .. n + 1 |-> f[k .. n]]
  <1>1. \A k \in 1 .. n + 1 : k .. n \in SUBSET (1 .. n) /\ g[k] = f[k .. n]
    OBVIOUS
  <1>2. g \in [1 .. n + 1 -> V]
    BY <1>1 DEF RightFoldOf
  <1> HIDE DEF g
  <1>3. (n + 1) .. n = {} /\ n + 1 \in 1 .. n + 1 /\ 1 \in 1 .. n + 1
    OBVIOUS
  <1>4. g[n + 1] = base
    BY <1>1, <1>3 DEF RightFoldOf
  <1>5. ASSUME NEW k \in 1 .. n PROVE g[k] = h[<<k, g[k + 1]>>]
    <2>1. Min(k .. n) = k /\ (k .. n) \ {k} = (k + 1) .. n
      BY MinFrom
    <2>2. k \in 1 .. n + 1 /\ k + 1 \in 1 .. n + 1 /\ k .. n # {}
      OBVIOUS
    <2>3. f[k .. n] = h[<<Min(k .. n), f[(k .. n) \ {Min(k .. n)}]>>]
      BY <1>1, <2>2 DEF RightFoldOf
    <2> QED BY <1>1, <2>1, <2>2, <2>3
  <1>6. BackTrace(g, n, V, base, h) /\ g[1] = f[1 .. n]
    BY <1>1, <1>2, <1>3, <1>4, <1>5 DEF BackTrace
  <1> QED BY <1>6

\* Two folds from the right with the same steps are the same.
LEMMA SameRight ==
    ASSUME NEW n \in Nat, NEW f, NEW g, f[{}] = g[{}],
           \A s \in SUBSET (1 .. n) :
               s # {} /\ g[s \ {Min(s)}] = f[s \ {Min(s)}] => g[s] = f[s]
    PROVE  g[1 .. n] = f[1 .. n]
  <1> DEFINE I == 1 .. n
             p == [s \in SUBSET I |-> Min(s)]
             W == {s \in SUBSET I : g[s] = f[s]}
  <1>1. \A s \in SUBSET I : s # {} => p[s] \in s
    BY MinElement
  <1>2. {} \in W
    OBVIOUS
  <1>3. \A s \in SUBSET I : s # {} /\ s \ {p[s]} \in W => s \in W
    OBVIOUS
  <1>4. IsFiniteSet(I)
    BY FS_Interval
  <1> HIDE DEF I, p, W
  <1>5. \A s \in SUBSET I : s \in W
    <2>1. Inductive(I, p, W)
      BY <1>1, <1>2, <1>3, <1>4 DEF Inductive, PicksFrom
    <2> QED BY <2>1, SubsetInduct
  <1> QED BY <1>5 DEF W, I

\* Induction over the numbers from n down.
LEMMA DownInduct ==
    ASSUME NEW n \in Nat, NEW W, n + 1 \in W, \A k \in 1 .. n : k + 1 \in W => k \in W
    PROVE  1 \in W
  <1> DEFINE U == {k \in 0 .. n : n + 1 - k \in W}
  <1>1. 0 \in U
    OBVIOUS
  <1>2. ASSUME NEW k \in 1 .. n, k - 1 \in U PROVE k \in U
    <2>1. n + 1 - k \in 1 .. n /\ (n + 1 - k) + 1 = n + 1 - (k - 1)
      OBVIOUS
    <2>2. (n + 1 - k) + 1 \in W
      BY <1>2, <2>1
    <2>3. n + 1 - k \in W
      BY <2>1, <2>2
    <2> QED BY <2>3
  <1> HIDE DEF U
  <1>3. \A k \in 0 .. n : k \in U
    BY <1>1, <1>2, IntervalInduct
  <1>4. n \in U
    BY <1>3
  <1>5. n + 1 - n = 1
    OBVIOUS
  <1> QED BY <1>4, <1>5 DEF U

----
\* d holds nothing that c does not hold.
Within(d, c) ==
    /\ d \in Good /\ d.has_shift = c.has_shift
    /\ \A i \in Idx : d.seq[i] \subseteq c.seq[i] /\ (d.seq[i] # {} => d.pos[i] = c.pos[i])

\* d holds what c holds.
Equals(d, c) ==
    /\ d \in Good /\ d.has_shift = c.has_shift
    /\ \A i \in Idx : d.seq[i] = c.seq[i] /\ d.pos[i] = c.pos[i]

\* The cells that were found usable were empty, when there is no window.
Back(d, c) == Within(d, c) /\ (mode # "swa" => Equals(d, c))

\* Without a window a usable cell is an empty one.
LEMMA UsableIsEmpty ==
    ASSUME mode # "swa", NEW c, NEW i \in Usable(c)
    PROVE  i \in Idx /\ c.pos[i] = -1
  BY DEF Usable, CanUse, Masked

\* What is filled and undone is back.
LEMMA UndoneIsBack ==
    ASSUME NEW c \in Good, NEW n \in Nat, NEW idxs, SlotOf(idxs, n),
           \A j \in 1 .. n : idxs[j] \in Usable(c),
           NEW toks, NEW d, RefilledSome(c, d, idxs, toks, n),
           NEW e, Back(e, d), NEW r, UndoneTo(e, r, c, idxs, n)
    PROVE  Back(r, c)
  <1>1. PICK rm : Refilled(c, d, idxs, toks, n, rm)
    BY DEF RefilledSome
  <1>2. /\ r \in Good /\ r.has_shift = c.has_shift
    BY <1>1 DEF Refilled, Back, Within, UndoneTo
  <1>3. ASSUME NEW i \in Idx
        PROVE  /\ r.seq[i] \subseteq c.seq[i] /\ (r.seq[i] # {} => r.pos[i] = c.pos[i])
               /\ mode # "swa" => r.seq[i] = c.seq[i] /\ r.pos[i] = c.pos[i]
    <2>1. CASE \E j \in 1 .. n : idxs[j] = i
      BY <2>1 DEF UndoneTo, At
    <2>2. CASE ~ \E j \in 1 .. n : idxs[j] = i
      <3>1. r.seq[i] = e.seq[i] /\ r.pos[i] = e.pos[i]
        BY <2>2 DEF UndoneTo, At
      <3>2. LeftAt(d, i, c.pos[i], c.seq[i], rm)
        BY <1>1, <2>2 DEF Refilled
      <3>3. e.seq[i] \subseteq d.seq[i] /\ (e.seq[i] # {} => e.pos[i] = d.pos[i])
        BY DEF Back, Within
      <3>4. d.seq[i] \subseteq c.seq[i] /\ (d.seq[i] # {} => d.pos[i] = c.pos[i])
        BY <3>2 DEF LeftAt
      <3>5. ASSUME mode # "swa" PROVE r.seq[i] = c.seq[i] /\ r.pos[i] = c.pos[i]
        <4>1. \A q \in Seqs : rm[q] = -1
          <5> SUFFICES ASSUME NEW q \in Seqs, rm[q] # -1 PROVE FALSE
            OBVIOUS
          <5>1. PICK j \in 1 .. n : q \in c.seq[idxs[j]] /\ c.pos[idxs[j]] = rm[q]
            BY <1>1 DEF Refilled, Overwritten
          <5>2. idxs[j] \in Usable(c)
            OBVIOUS
          <5>3. c.pos[idxs[j]] = -1
            BY <3>5, <5>2, UsableIsEmpty
          <5> QED BY <5>1, <5>3
        <4>2. /\ c.pos[i] \in -1 .. MaxLen - 1 /\ c.seq[i] \in SUBSET Seqs
              /\ (c.pos[i] # -1 <=> c.seq[i] # {})
          BY GoodType
        <4>3. d.seq[i] = c.seq[i]
          BY <3>2, <4>1, <4>2 DEF LeftAt
        <4>4. d.pos[i] = c.pos[i]
          BY <3>2, <4>2, <4>3 DEF LeftAt
        <4>5. e.seq[i] = d.seq[i] /\ e.pos[i] = d.pos[i]
          BY <3>5 DEF Back, Equals
        <4> QED BY <3>1, <4>3, <4>4, <4>5
      <3> QED BY <3>1, <3>3, <3>4, <3>5
    <2> QED BY <2>1, <2>2
  <1> QED BY <1>2, <1>3 DEF Back, Within, Equals

Left == [cells : Caches, heads : Heads]

\* One step back from a cache like b is a cache like a.
LEMMA RestoredIs ==
    ASSUME NEW a \in Stage, NEW b, NEW ub, IsUBatch(ub), StageStep(a, b, ub), NEW now \in Left
    PROVE  /\ Restored(now, a, b, ub) \in Left
           /\ (\A s \in Streams : Back(now.cells[s], b.cells[s]))
                => \A s \in Streams : Back(Restored(now, a, b, ub).cells[s], a.cells[s])
  <1> DEFINE r == Restored(now, a, b, ub)
  <1>1. now.cells \in Caches /\ now.heads \in Heads /\ a.cells \in Caches /\ a.heads \in Heads
    BY DEF Left, Stage
  <1>2. CASE ~ b.ok
    <2>1. r = now
      BY <1>2 DEF Restored
    <2>2. b.cells = a.cells
      BY <1>2 DEF StageStep
    <2> QED BY <2>1, <2>2
  <1>3. CASE b.ok
    <2> DEFINE cs == Undone(now.cells, a.cells, ub, b.slot)
    <2>1. r.cells = cs /\ r.heads = HeadsUndone(now.heads, a.heads, ub)
          /\ r = [cells |-> cs, heads |-> HeadsUndone(now.heads, a.heads, ub)]
      BY <1>3 DEF Restored
    <2>2. UsableSlot(a.cells, b.slot, ub) /\ AppliedTo(a.cells, b.cells, ub, b.slot)
      BY <1>3 DEF StageStep
    <2>3. IsSlot(b.slot, ub)
      BY <2>2 DEF UsableSlot
    <2>4. AllUndone(now.cells, cs, a.cells, ub, b.slot)
      BY <1>1, <2>3, UndoneIs
    <2>5. HeadsUndone(now.heads, a.heads, ub) \in Heads
      BY <1>1, HeadsUndoneIs
    <2> HIDE DEF r, cs
    <2>6. cs \in Caches
      BY <2>4 DEF AllUndone
    <2>7. r \in Left
      BY <2>1, <2>5, <2>6 DEF Left
    <2>8. ASSUME \A s \in Streams : Back(now.cells[s], b.cells[s]), NEW s \in Streams
          PROVE  Back(cs[s], a.cells[s])
      <3>1. CASE s \in DOMAIN ub
        <4> DEFINE n == Len(ub[s])
                   idxs == b.slot[s]
        <4>1. n \in Nat /\ SlotOf(idxs, n)
          BY <2>3, <3>1 DEF IsUBatch, IsSlot
        <4>2. a.cells[s] \in Good
          BY <1>1 DEF Caches
        <4>3. \A j \in 1 .. n : idxs[j] \in Usable(a.cells[s])
          BY <2>2, <3>1 DEF UsableSlot
        <4>4. RefilledSome(a.cells[s], b.cells[s], idxs, ub[s], n)
          BY <2>2, <3>1 DEF AppliedTo
        <4>5. Back(now.cells[s], b.cells[s])
          BY <2>8
        <4>6. UndoneTo(now.cells[s], cs[s], a.cells[s], idxs, n)
          BY <2>4, <3>1 DEF AllUndone
        <4> HIDE DEF n, idxs
        <4> QED BY <4>1, <4>2, <4>3, <4>4, <4>5, <4>6, UndoneIsBack
      <3>2. CASE s \notin DOMAIN ub
        <4>1. cs[s] = now.cells[s] /\ b.cells[s] = a.cells[s]
          BY <2>2, <2>4, <3>2 DEF AllUndone, AppliedTo
        <4> QED BY <2>8, <4>1
      <3> QED BY <3>1, <3>2
    <2>9. (\A s \in Streams : Back(now.cells[s], b.cells[s]))
            => \A s \in Streams : Back(r.cells[s], a.cells[s])
      BY <2>1, <2>8
    <2> QED BY <2>7, <2>9 DEF r
  <1> QED BY <1>2, <1>3

\* What prepare() answers, and the cache it leaves.
Ready(p, t, cs, hs, ubs, n) ==
    /\ Stages(t, cs, hs, ubs, n)
    /\ p.ok = t[n + 1].ok /\ p.ok \in BOOLEAN
    /\ p.slots = [u \in 1 .. n |-> t[u + 1].slot]
    /\ p.heads \in Heads /\ p.cells \in Caches
    /\ \A s \in Streams : Back(p.cells[s], cs[s])
    /\ n = 1 => p.cells = Restored([cells |-> t[2].cells, heads |-> t[2].heads],
                                   t[1], t[2], ubs[1]).cells

\* A stream is a restored one of itself.
LEMMA BackSelf ==
    ASSUME NEW c \in Good
    PROVE  Back(c, c)
  BY DEF Back, Within, Equals

\* prepare(): every stream is as before, but for the tokens a window has passed, and
\* a slot is kept for each micro batch.
LEMMA PreparedIs ==
    ASSUME NEW cs \in Caches, NEW hs \in Heads, NEW n \in Nat, NEW ubs, UBatches(ubs, n)
    PROVE  Ready(Prepared(cs, hs, ubs), Attempts(cs, hs, ubs), cs, hs, ubs, n)
  <1> DEFINE t == Attempts(cs, hs, ubs)
             end == Last(t)
             base == [cells |-> end.cells, heads |-> end.heads]
             ix == [u \in DOMAIN ubs |-> u]
             h == [x \in (1 .. n) \X Left |-> Restored(x[2], t[x[1]], t[x[1] + 1], ubs[x[1]])]
             Eq(it) == it = [s \in SUBSET (DOMAIN ix) |->
                               IF s = {} THEN base
                               ELSE Restored(it[s \ {Min(s)}], t[ix[Min(s)]], t[ix[Min(s)] + 1],
                                             ubs[ix[Min(s)]])]
             it == CHOOSE g : Eq(g)
             lf == FoldRightDomain(LAMBDA u, now : Restored(now, t[u], t[u + 1], ubs[u]), ubs, base)
             p == Prepared(cs, hs, ubs)
  <1>0. lf = it[DOMAIN ix]
    BY Zenon DEF FoldRightDomain, FoldRight, MapThenFoldSet
  <1>1. p = [ok |-> end.ok, slots |-> [u \in DOMAIN ubs |-> t[u + 1].slot],
             cells |-> lf.cells, heads |-> lf.heads]
    BY Zenon DEF Prepared
  <1>2. DOMAIN ubs = 1 .. n /\ DOMAIN ix = 1 .. n /\ \A u \in 1 .. n : ix[u] = u
    BY DEF UBatches
  <1>3. Stages(t, cs, hs, ubs, n)
    BY AttemptsAre
  <1> HIDE DEF t
  <1>4. /\ Len(t) = n + 1 /\ t \in Seq(Stage) /\ t[1].cells = cs
        /\ \A u \in 1 .. n : StageStep(t[u], t[u + 1], ubs[u])
    BY <1>3 DEF Stages
  <1>5. \A u \in 1 .. n + 1 : t[u] \in Stage
    BY <1>4
  <1>6. end = t[n + 1] /\ end \in Stage
    BY <1>4, <1>5 DEF Last
  <1> HIDE DEF end
  <1>7. base \in Left /\ base.cells = t[n + 1].cells
    BY <1>6 DEF Left, Stage
  <1>8. \A u \in 1 .. n, v \in Left : h[<<u, v>>] = Restored(v, t[u], t[u + 1], ubs[u])
    OBVIOUS
  <1> HIDE DEF h, ix, base
  <1>9. ASSUME NEW u \in 1 .. n, NEW v \in Left
        PROVE  /\ Restored(v, t[u], t[u + 1], ubs[u]) \in Left
               /\ (\A s \in Streams : Back(v.cells[s], t[u + 1].cells[s]))
                    => \A s \in Streams : Back(Restored(v, t[u], t[u + 1], ubs[u]).cells[s], t[u].cells[s])
    <2>1. t[u] \in Stage /\ IsUBatch(ubs[u]) /\ StageStep(t[u], t[u + 1], ubs[u])
      BY <1>4, <1>5 DEF UBatches
    <2> QED BY <2>1, RestoredIs
  <1>10. StaysIn(h, 1 .. n, Left)
    BY <1>8, <1>9 DEF StaysIn
  <1>11. PICK f : RightFoldOf(f, n, Left, base, h)
    BY <1>7, <1>10, RightExists
  <1>12. /\ f \in [SUBSET (1 .. n) -> Left]
         /\ \A s \in SUBSET (1 .. n) : f[s] = IF s = {} THEN base ELSE h[<<Min(s), f[s \ {Min(s)}]>>]
    BY <1>11 DEF RightFoldOf
  <1>13. ASSUME NEW s \in SUBSET (1 .. n), s # {}
         PROVE  f[s] = Restored(f[s \ {Min(s)}], t[ix[Min(s)]], t[ix[Min(s)] + 1], ubs[ix[Min(s)]])
    <2>1. Min(s) \in s /\ Min(s) \in 1 .. n /\ s \ {Min(s)} \in SUBSET (1 .. n)
      BY <1>13, MinElement
    <2>2. f[s] = h[<<Min(s), f[s \ {Min(s)}]>>] /\ f[s \ {Min(s)}] \in Left
      BY <1>12, <1>13, <2>1
    <2> QED BY <1>2, <1>8, <2>1, <2>2
  <1>14. Eq(f)
    BY <1>2, <1>12, <1>13
  <1>15. Eq(it)
    BY <1>14
  <1> HIDE DEF it
  <1>16. it[1 .. n] = f[1 .. n]
    <2>1. \A s \in SUBSET (1 .. n) : it[s] = IF s = {} THEN base
              ELSE Restored(it[s \ {Min(s)}], t[ix[Min(s)]], t[ix[Min(s)] + 1], ubs[ix[Min(s)]])
      BY <1>2, <1>15
    <2>2. f[{}] = it[{}]
      BY <1>12, <2>1
    <2>3. \A s \in SUBSET (1 .. n) : s # {} /\ it[s \ {Min(s)}] = f[s \ {Min(s)}] => it[s] = f[s]
      BY <1>13, <2>1
    <2> QED BY <2>2, <2>3, SameRight
  <1>17. PICK g : BackTrace(g, n, Left, base, h) /\ g[1] = f[1 .. n]
    BY <1>11, RightTrace
  <1>18. /\ g \in [1 .. n + 1 -> Left] /\ g[n + 1] = base
         /\ \A k \in 1 .. n : g[k] = h[<<k, g[k + 1]>>]
    BY <1>17 DEF BackTrace
  <1> DEFINE D == {k \in 1 .. n + 1 : \A s \in Streams : Back(g[k].cells[s], t[k].cells[s])}
  <1>19. n + 1 \in D
    <2>1. g[n + 1].cells = t[n + 1].cells /\ t[n + 1].cells \in Caches
      BY <1>6, <1>7, <1>18 DEF Stage
    <2>2. \A s \in Streams : Back(g[n + 1].cells[s], t[n + 1].cells[s])
      BY <2>1, BackSelf DEF Caches
    <2> QED BY <2>2
  <1>20. ASSUME NEW k \in 1 .. n, k + 1 \in D PROVE k \in D
    <2>1. g[k + 1] \in Left /\ \A s \in Streams : Back(g[k + 1].cells[s], t[k + 1].cells[s])
      BY <1>18, <1>20
    <2>2. g[k] = Restored(g[k + 1], t[k], t[k + 1], ubs[k])
      BY <1>8, <1>18, <2>1
    <2>3. \A s \in Streams : Back(g[k].cells[s], t[k].cells[s])
      BY <1>9, <2>1, <2>2
    <2> QED BY <2>3
  <1>21. 1 \in D
    <2> HIDE DEF D
    <2> QED BY <1>19, <1>20, DownInduct
  <1> HIDE DEF lf
  <1>22. lf = g[1] /\ g[1] \in Left
    <2>1. lf = it[1 .. n] /\ 1 \in 1 .. n + 1
      BY <1>0, <1>2
    <2> QED BY <1>16, <1>17, <1>18, <2>1
  <1>23. p.ok = t[n + 1].ok /\ p.slots = [u \in 1 .. n |-> t[u + 1].slot]
         /\ p.cells = lf.cells /\ p.heads = lf.heads
    BY <1>1, <1>2, <1>6
  <1> HIDE DEF p
  <1>24. p.cells \in Caches /\ p.heads \in Heads /\ \A s \in Streams : Back(p.cells[s], cs[s])
    BY <1>4, <1>21, <1>22, <1>23 DEF Left
  <1>25. p.ok \in BOOLEAN
    BY <1>6, <1>23 DEF Stage
  <1>26. ASSUME n = 1
         PROVE  p.cells = Restored([cells |-> t[2].cells, heads |-> t[2].heads], t[1], t[2], ubs[1]).cells
    <2>1. base = [cells |-> t[2].cells, heads |-> t[2].heads] /\ base \in Left
      BY <1>6, <1>7, <1>26 DEF base
    <2>2. g[2] = base /\ g[1] = h[<<1, g[2]>>]
      BY <1>18, <1>26
    <2>3. h[<<1, base>>] = Restored(base, t[1], t[2], ubs[1])
      BY <1>8, <1>26, <2>1
    <2> QED BY <1>22, <1>23, <2>1, <2>2, <2>3
  <1>27. Ready(p, t, cs, hs, ubs, n)
    BY <1>3, <1>23, <1>24, <1>25, <1>26 DEF Ready
  <1> QED BY <1>27 DEF p, t

-----------------------------------------------------------------------------
(* Splitting a batch into micro batches.                                   *)

\* One or two sequences, joined.
LEMMA FlattenIs ==
    ASSUME NEW S, NEW m \in {1, 2}, NEW f \in [1 .. m -> Seq(S)]
    PROVE  FlattenSeq(f) = IF m = 1 THEN f[1] ELSE f[1] \o f[2]
  <1> DEFINE Eq(F) == F = [i \in 1 .. Len(f) |-> IF i = 1 THEN f[i] ELSE F[i - 1] \o f[i]]
             F == CHOOSE G : Eq(G)
  <1>1. Len(f) = m /\ Len(f) # 0
    OBVIOUS
  <1>2. FlattenSeq(f) = F[Len(f)]
    BY <1>1, Zenon DEF FlattenSeq
  <1> DEFINE g == [i \in 1 .. Len(f) |-> IF i = 1 THEN f[i] ELSE f[1] \o f[2]]
  <1>3. Eq(g)
    <2>1. \A i \in 1 .. Len(f) : i = 1 \/ i = 2
      BY <1>1
    <2>2. \A i \in 1 .. Len(f) : g[i] = IF i = 1 THEN f[i] ELSE g[i - 1] \o f[i]
      <3> TAKE i \in 1 .. Len(f)
      <3>1. CASE i = 1
        BY <3>1
      <3>2. CASE i = 2
        <4>1. g[i] = f[1] \o f[2] /\ i - 1 = 1 /\ 1 \in 1 .. Len(f)
          BY <3>2, <1>1
        <4>2. g[1] = f[1]
          BY <4>1
        <4> QED BY <3>2, <4>1, <4>2
      <3> QED BY <2>1, <3>1, <3>2
    <2>3. g = [i \in 1 .. Len(f) |-> g[i]]
      OBVIOUS
    <2> HIDE DEF g
    <2> QED BY <2>2, <2>3
  <1>4. Eq(F)
    BY <1>3
  <1> HIDE DEF F
  <1>5. F[1] = f[1]
    BY <1>1, <1>4
  <1>6. CASE m = 1
    BY <1>1, <1>2, <1>5, <1>6
  <1>7. CASE m = 2
    <2>1. F[2] = F[1] \o f[2]
      <3>1. 2 \in 1 .. Len(f) /\ 2 - 1 = 1
        BY <1>1, <1>7
      <3>2. \A i \in 1 .. Len(f) : F[i] = IF i = 1 THEN f[i] ELSE F[i - 1] \o f[i]
        BY <1>4
      <3>3. F[2] = IF 2 = 1 THEN f[2] ELSE F[2 - 1] \o f[2]
        BY <3>1, <3>2
      <3> QED BY <3>1, <3>3
    <2> QED BY <1>1, <1>2, <1>5, <1>7, <2>1
  <1> QED BY <1>6, <1>7

----
\* What the callers decode: one or two sequences, each from where it ends.
Runs == [seq : Seqs, toks : Seq(Token)]
Lens == [Seqs -> 0 .. MaxLen]

IsBatch(runs, m, lens) ==
    /\ m \in {1, 2} /\ runs \in [1 .. m -> Runs] /\ lens \in Lens
    /\ \A r \in 1 .. m : Len(runs[r].toks) # 0
    /\ \A r \in 1 .. m : \A j \in 1 .. Len(runs[r].toks) :
          runs[r].toks[j] = [seq |-> runs[r].seq, pos |-> lens[runs[r].seq] + j - 1]
    /\ m = 2 => runs[1].seq # runs[2].seq

\* How many tokens of every run have been taken.
Progress(runs, m) == {d \in [1 .. m -> Nat] : \A r \in 1 .. m : d[r] <= Len(runs[r].toks)}

Ahead(d, e, m) == \A r \in 1 .. m : d[r] <= e[r]

\* Up to where the sequences have come, and how much a stream has taken.
EndsAt(runs, m, d, lens) ==
    [q \in Seqs |-> IF q = runs[1].seq THEN lens[q] + d[1]
                    ELSE IF m = 2 /\ q = runs[2].seq THEN lens[q] + d[2] ELSE lens[q]]
Share(runs, m, d, s) ==
    (IF StreamOf(runs[1].seq) = s THEN d[1] ELSE 0)
    + (IF m = 2 /\ StreamOf(runs[2].seq) = s THEN d[2] ELSE 0)

\* The tokens of run r in the part of stream s.
PartOf(runs, s, d, e, r) ==
    IF StreamOf(runs[r].seq) = s THEN SubSeq(runs[r].toks, d[r] + 1, e[r]) ELSE <<>>

\* x is the piece of t behind a, up to b.
IsPiece(x, t, S, a, b) ==
    /\ x \in Seq(S) /\ Len(x) = b - a
    /\ \A j \in 1 .. b - a : x[j] = t[a + j] /\ a + j \in 1 .. Len(t)

\* A piece of a sequence.
LEMMA SubSeqIs ==
    ASSUME NEW S, NEW t \in Seq(S), NEW a \in Nat, NEW b \in Nat, a <= b, b <= Len(t)
    PROVE  IsPiece(SubSeq(t, a + 1, b), t, S, a, b)
  <1>1. a + 1 <= b + 1 /\ a + 1 \in 1 .. Len(t) + 1 /\ b - (a + 1) + 1 = b - a
    OBVIOUS
  <1>2. ASSUME NEW j \in 1 .. b - a PROVE SubSeq(t, a + 1, b)[j] = t[a + j] /\ a + j \in 1 .. Len(t)
    <2>1. a + 1 + j - 1 = a + j
      OBVIOUS
    <2> QED BY <2>1
  <1> QED BY <1>1, <1>2 DEF IsPiece

PartLen(runs, s, d, e, r) == IF StreamOf(runs[r].seq) = s THEN e[r] - d[r] ELSE 0

\* n tokens of sequence q, the first at position a.
IsRunPart(x, q, a, n) ==
    /\ x \in Seq(Token) /\ Len(x) = n /\ n \in Nat /\ a \in Nat
    /\ \A j \in 1 .. n : x[j].seq = q /\ x[j].pos = a + j - 1

\* A piece of a run has consecutive positions.
LEMMA PieceIsRunPart ==
    ASSUME NEW q, NEW l \in Nat, NEW t \in Seq(Token),
           \A j \in 1 .. Len(t) : t[j] = [seq |-> q, pos |-> l + j - 1],
           NEW a \in Nat, NEW b \in Nat, a <= b, b <= Len(t), NEW x, IsPiece(x, t, Token, a, b)
    PROVE  IsRunPart(x, q, l + a, b - a)
  <1>1. x \in Seq(Token) /\ Len(x) = b - a /\ b - a \in Nat /\ l + a \in Nat
    BY DEF IsPiece
  <1>2. ASSUME NEW j \in 1 .. b - a PROVE x[j].seq = q /\ x[j].pos = (l + a) + j - 1
    <2>1. x[j] = t[a + j] /\ a + j \in 1 .. Len(t)
      BY DEF IsPiece
    <2>2. t[a + j] = [seq |-> q, pos |-> l + (a + j) - 1]
      BY <2>1
    <2> QED BY <2>1, <2>2
  <1> QED BY <1>1, <1>2 DEF IsRunPart

\* What a split takes of one run.
LEMMA PartOfIs ==
    ASSUME NEW m, NEW runs, NEW lens, IsBatch(runs, m, lens), NEW s, NEW r \in 1 .. m,
           NEW d \in Progress(runs, m), NEW e \in Progress(runs, m), Ahead(d, e, m)
    PROVE  IsRunPart(PartOf(runs, s, d, e, r), runs[r].seq, lens[runs[r].seq] + d[r],
                     PartLen(runs, s, d, e, r))
  <1> DEFINE t == runs[r].toks
             q == runs[r].seq
  <1>1. /\ t \in Seq(Token) /\ d[r] \in Nat /\ e[r] \in Nat /\ d[r] <= e[r] /\ e[r] <= Len(t)
        /\ q \in Seqs /\ lens[q] \in Nat
    BY DEF IsBatch, Runs, Progress, Ahead, Lens
  <1>2. \A j \in 1 .. Len(t) : t[j] = [seq |-> q, pos |-> lens[q] + j - 1]
    BY DEF IsBatch
  <1>3. CASE StreamOf(q) # s
    <2>1. PartOf(runs, s, d, e, r) = <<>> /\ PartLen(runs, s, d, e, r) = 0
      BY <1>3 DEF PartOf, PartLen
    <2>2. lens[q] + d[r] \in Nat
      BY <1>1
    <2>3. IsRunPart(<<>>, q, lens[q] + d[r], 0)
      BY <2>2 DEF IsRunPart
    <2> QED BY <2>1, <2>3
  <1>4. CASE StreamOf(q) = s
    <2>1. /\ PartOf(runs, s, d, e, r) = SubSeq(t, d[r] + 1, e[r])
          /\ PartLen(runs, s, d, e, r) = e[r] - d[r]
      BY <1>4 DEF PartOf, PartLen
    <2>2. IsPiece(SubSeq(t, d[r] + 1, e[r]), t, Token, d[r], e[r])
      BY <1>1, SubSeqIs
    <2> HIDE DEF t, q
    <2>3. IsRunPart(SubSeq(t, d[r] + 1, e[r]), q, lens[q] + d[r], e[r] - d[r])
      BY <1>1, <1>2, <2>2, PieceIsRunPart
    <2> QED BY <2>1, <2>3 DEF q
  <1> QED BY <1>3, <1>4

\* What a split takes of one or two runs.
LEMMA PartIs ==
    ASSUME NEW m, NEW runs, NEW lens, IsBatch(runs, m, lens), NEW s,
           NEW d \in Progress(runs, m), NEW e \in Progress(runs, m), Ahead(d, e, m)
    PROVE  Part(runs, s, d, e) = IF m = 1 THEN PartOf(runs, s, d, e, 1)
                                 ELSE PartOf(runs, s, d, e, 1) \o PartOf(runs, s, d, e, 2)
  <1> DEFINE f == [r \in DOMAIN runs |-> IF StreamOf(runs[r].seq) = s
                                         THEN SubSeq(runs[r].toks, d[r] + 1, e[r]) ELSE <<>>]
  <1>1. Part(runs, s, d, e) = FlattenSeq(f)
    BY DEF Part
  <1>2. m \in {1, 2} /\ DOMAIN runs = 1 .. m
    BY DEF IsBatch
  <1>3. \A r \in 1 .. m : f[r] = PartOf(runs, s, d, e, r) /\ f[r] \in Seq(Token)
    <2> TAKE r \in 1 .. m
    <2>1. f[r] = PartOf(runs, s, d, e, r)
      BY <1>2 DEF PartOf
    <2>2. IsRunPart(PartOf(runs, s, d, e, r), runs[r].seq, lens[runs[r].seq] + d[r],
                    PartLen(runs, s, d, e, r))
      BY PartOfIs
    <2> QED BY <2>1, <2>2 DEF IsRunPart
  <1>4. f \in [1 .. m -> Seq(Token)]
    BY <1>2, <1>3
  <1> HIDE DEF f
  <1>5. Part(runs, s, d, e) = IF m = 1 THEN f[1] ELSE f[1] \o f[2]
    BY <1>1, <1>2, <1>4, FlattenIs
  <1>6. 1 \in 1 .. m /\ (m # 1 => 2 \in 1 .. m)
    BY <1>2
  <1> QED BY <1>3, <1>5, <1>6

\* t holds n positions of q from a on.
Spans(t, q, a, n) == \A p \in a .. a + n - 1 : \E j \in 1 .. Len(t) : t[j].seq = q /\ t[j].pos = p
Within1(tok, q, a, n) == tok.seq = q /\ a <= tok.pos /\ tok.pos < a + n
Distinct(t) == \A j, k \in 1 .. Len(t) : t[j] = t[k] => j = k

Single(t, q, a, n) ==
    /\ t \in Seq(Token) /\ Len(t) = n /\ Distinct(t) /\ Spans(t, q, a, n)
    /\ \A j \in 1 .. Len(t) : Within1(t[j], q, a, n)

Joined(t, q, a, n, z, b, k) ==
    /\ t \in Seq(Token) /\ Len(t) = n + k /\ Distinct(t) /\ Spans(t, q, a, n) /\ Spans(t, z, b, k)
    /\ \A j \in 1 .. Len(t) : Within1(t[j], q, a, n) \/ Within1(t[j], z, b, k)

\* A piece of one run is a micro batch of one sequence.
LEMMA SingleIs ==
    ASSUME NEW x, NEW q, NEW a, NEW n, IsRunPart(x, q, a, n)
    PROVE  Single(x, q, a, n)
  <1>1. /\ x \in Seq(Token) /\ Len(x) = n /\ n \in Nat /\ a \in Nat
        /\ \A j \in 1 .. n : x[j].seq = q /\ x[j].pos = a + j - 1
    BY DEF IsRunPart
  <1>2. Distinct(x)
    BY <1>1 DEF Distinct
  <1>3. ASSUME NEW p \in a .. a + n - 1 PROVE \E j \in 1 .. Len(x) : x[j].seq = q /\ x[j].pos = p
    <2>1. p - a + 1 \in 1 .. n /\ a + (p - a + 1) - 1 = p
      BY <1>1
    <2> QED BY <1>1, <2>1
  <1>4. \A j \in 1 .. Len(x) : Within1(x[j], q, a, n)
    BY <1>1 DEF Within1
  <1> QED BY <1>1, <1>2, <1>3, <1>4 DEF Single, Spans

\* t is x and then y.
IsJoin(t, x, y, S) ==
    /\ t \in Seq(S) /\ Len(t) = Len(x) + Len(y)
    /\ \A j \in 1 .. Len(x) : t[j] = x[j]
    /\ \A j \in Len(x) + 1 .. Len(x) + Len(y) : t[j] = y[j - Len(x)]

\* Two sequences, joined, element by element.
LEMMA JoinIs ==
    ASSUME NEW S, NEW x \in Seq(S), NEW y \in Seq(S)
    PROVE  IsJoin(x \o y, x, y, S)
  <1>1. \A j \in Len(x) + 1 .. Len(x) + Len(y) : (x \o y)[j] = y[j - Len(x)]
    OBVIOUS
  <1>2. x \o y \in Seq(S) /\ Len(x \o y) = Len(x) + Len(y) /\ \A j \in 1 .. Len(x) : (x \o y)[j] = x[j]
    OBVIOUS
  <1> QED BY <1>1, <1>2 DEF IsJoin

\* Pieces of two runs are a micro batch of two sequences.
LEMMA JoinedIs ==
    ASSUME NEW x, NEW q, NEW a, NEW n, IsRunPart(x, q, a, n),
           NEW y, NEW z, NEW b, NEW k, IsRunPart(y, z, b, k), q # z
    PROVE  Joined(x \o y, q, a, n, z, b, k)
  <1> DEFINE t == x \o y
  <1>1. /\ x \in Seq(Token) /\ Len(x) = n /\ n \in Nat /\ a \in Nat
        /\ \A j \in 1 .. n : x[j].seq = q /\ x[j].pos = a + j - 1
    BY DEF IsRunPart
  <1>2. /\ y \in Seq(Token) /\ Len(y) = k /\ k \in Nat /\ b \in Nat
        /\ \A j \in 1 .. k : y[j].seq = z /\ y[j].pos = b + j - 1
    BY DEF IsRunPart
  <1>3. /\ t \in Seq(Token) /\ Len(t) = n + k
        /\ \A j \in 1 .. n : t[j] = x[j]
        /\ \A j \in n + 1 .. n + k : t[j] = y[j - n]
    <2>1. IsJoin(t, x, y, Token)
      BY <1>1, <1>2, JoinIs
    <2> QED BY <1>1, <1>2, <2>1 DEF IsJoin
  <1> HIDE DEF t
  <1>4. \A j \in 1 .. n : t[j].seq = q /\ t[j].pos = a + j - 1
    BY <1>1, <1>3
  <1>5. \A j \in n + 1 .. n + k : t[j].seq = z /\ t[j].pos = b + (j - n) - 1
    <2> TAKE j \in n + 1 .. n + k
    <2>1. j - n \in 1 .. k /\ t[j] = y[j - n]
      BY <1>1, <1>2, <1>3
    <2> QED BY <1>2, <2>1
  <1>6. \A j \in 1 .. Len(t) : j \in 1 .. n \/ j \in n + 1 .. n + k
    BY <1>1, <1>2, <1>3
  <1>7. ASSUME NEW j \in 1 .. Len(t), NEW l \in 1 .. Len(t), t[j] = t[l]
        PROVE  j = l
    <2>1. CASE j \in 1 .. n /\ l \in 1 .. n
      <3>1. a + j - 1 = a + l - 1
        BY <1>4, <1>7, <2>1
      <3> QED BY <1>1, <2>1, <3>1
    <2>2. CASE j \in n + 1 .. n + k /\ l \in n + 1 .. n + k
      <3>1. b + (j - n) - 1 = b + (l - n) - 1
        BY <1>5, <1>7, <2>2
      <3> QED BY <1>1, <1>2, <2>2, <3>1
    <2>3. CASE j \in 1 .. n /\ l \in n + 1 .. n + k
      <3>1. t[j].seq = q /\ t[l].seq = z
        BY <1>4, <1>5, <2>3
      <3> QED BY <1>7, <3>1
    <2>4. CASE l \in 1 .. n /\ j \in n + 1 .. n + k
      <3>1. t[l].seq = q /\ t[j].seq = z
        BY <1>4, <1>5, <2>4
      <3> QED BY <1>7, <3>1
    <2> QED BY <1>6, <2>1, <2>2, <2>3, <2>4
  <1>8. ASSUME NEW p \in a .. a + n - 1 PROVE \E j \in 1 .. Len(t) : t[j].seq = q /\ t[j].pos = p
    <2>1. p - a + 1 \in 1 .. n /\ a + (p - a + 1) - 1 = p /\ p - a + 1 \in 1 .. n + k
      BY <1>1, <1>2
    <2> QED BY <1>3, <1>4, <2>1
  <1>9. ASSUME NEW p \in b .. b + k - 1 PROVE \E j \in 1 .. Len(t) : t[j].seq = z /\ t[j].pos = p
    <2> DEFINE j == n + (p - b + 1)
    <2>1. j \in n + 1 .. n + k /\ b + (j - n) - 1 = p /\ j \in 1 .. n + k
      BY <1>1, <1>2
    <2> HIDE DEF j
    <2> QED BY <1>3, <1>5, <2>1
  <1>10. \A j \in 1 .. Len(t) : Within1(t[j], q, a, n) \/ Within1(t[j], z, b, k)
    <2> TAKE j \in 1 .. Len(t)
    <2>1. CASE j \in 1 .. n
      BY <1>1, <1>4, <2>1 DEF Within1
    <2>2. CASE j \in n + 1 .. n + k
      BY <1>1, <1>2, <1>5, <2>2 DEF Within1
    <2> QED BY <1>6, <2>1, <2>2
  <1>11. Joined(t, q, a, n, z, b, k)
    BY <1>3, <1>7, <1>8, <1>9, <1>10 DEF Joined, Distinct, Spans
  <1> QED BY <1>11 DEF t

----
\* The part t of stream s holds the tokens of its runs from d to e, each once.
Holds(t, runs, m, lens, s, d, e) ==
    /\ t \in Seq(Token) /\ Len(t) = Share(runs, m, e, s) - Share(runs, m, d, s)
    /\ Distinct(t)
    /\ \A j \in 1 .. Len(t) : \E r \in 1 .. m :
          /\ StreamOf(runs[r].seq) = s
          /\ Within1(t[j], runs[r].seq, lens[runs[r].seq] + d[r], e[r] - d[r])
    /\ \A r \in 1 .. m : StreamOf(runs[r].seq) = s =>
          Spans(t, runs[r].seq, lens[runs[r].seq] + d[r], e[r] - d[r])

\* A piece without tokens has no token.
LEMMA NotWithinNone ==
    ASSUME NEW tok, NEW q, NEW a \in Int, Within1(tok, q, a, 0), tok.pos \in Int
    PROVE  FALSE
  BY DEF Within1

\* The tokens of a split of one run.
LEMMA HoldsOne ==
    ASSUME NEW runs, NEW lens, IsBatch(runs, 1, lens), NEW s,
           NEW d \in Progress(runs, 1), NEW e \in Progress(runs, 1), Ahead(d, e, 1)
    PROVE  Holds(Part(runs, s, d, e), runs, 1, lens, s, d, e)
  <1> DEFINE t == Part(runs, s, d, e)
             q == runs[1].seq
             a == lens[q] + d[1]
             n == PartLen(runs, s, d, e, 1)
  <1>0. 1 \in 1 .. 1 /\ \A r \in 1 .. 1 : r = 1
    OBVIOUS
  <1>1. t = PartOf(runs, s, d, e, 1)
    BY PartIs
  <1>2. IsRunPart(PartOf(runs, s, d, e, 1), q, a, n)
    BY <1>0, PartOfIs
  <1>3. Single(t, q, a, n)
    BY <1>1, <1>2, SingleIs
  <1>4. d[1] \in Nat /\ e[1] \in Nat /\ d[1] <= e[1] /\ a \in Nat
    BY <1>0, <1>2 DEF Progress, Ahead, IsRunPart
  <1>5. n = (IF StreamOf(q) = s THEN e[1] - d[1] ELSE 0)
    BY DEF PartLen
  <1>6. n = Share(runs, 1, e, s) - Share(runs, 1, d, s)
    BY <1>4, <1>5 DEF Share
  <1> HIDE DEF t, n, a
  <1>7. /\ t \in Seq(Token) /\ Len(t) = n /\ Distinct(t) /\ Spans(t, q, a, n)
        /\ \A j \in 1 .. Len(t) : Within1(t[j], q, a, n)
    BY <1>3 DEF Single
  <1>8. StreamOf(q) # s => Len(t) = 0
    BY <1>5, <1>7
  <1>9. \A j \in 1 .. Len(t) : StreamOf(q) = s /\ Within1(t[j], q, a, e[1] - d[1])
    BY <1>5, <1>7, <1>8
  <1>10. StreamOf(q) = s => Spans(t, q, a, e[1] - d[1])
    BY <1>5, <1>7
  <1>11. Holds(t, runs, 1, lens, s, d, e)
    BY <1>0, <1>6, <1>7, <1>9, <1>10 DEF Holds, a
  <1> QED BY <1>11 DEF t

\* The tokens of a split of two runs.
LEMMA HoldsTwo ==
    ASSUME NEW runs, NEW lens, IsBatch(runs, 2, lens), NEW s,
           NEW d \in Progress(runs, 2), NEW e \in Progress(runs, 2), Ahead(d, e, 2)
    PROVE  Holds(Part(runs, s, d, e), runs, 2, lens, s, d, e)
  <1> DEFINE t == Part(runs, s, d, e)
             q == runs[1].seq
             z == runs[2].seq
             a == lens[q] + d[1]
             b == lens[z] + d[2]
             n == PartLen(runs, s, d, e, 1)
             k == PartLen(runs, s, d, e, 2)
             x == PartOf(runs, s, d, e, 1)
             y == PartOf(runs, s, d, e, 2)
  <1>0. 1 \in 1 .. 2 /\ 2 \in 1 .. 2 /\ 2 # 1 /\ \A r \in 1 .. 2 : r = 1 \/ r = 2
    OBVIOUS
  <1>1. t = x \o y
    <2>1. t = IF 2 = 1 THEN x ELSE x \o y
      BY PartIs
    <2> QED BY <2>1, <1>0
  <1>2. IsRunPart(x, q, a, n)
    BY <1>0, PartOfIs
  <1>3. IsRunPart(y, z, b, k)
    BY <1>0, PartOfIs
  <1>4. q # z
    BY DEF IsBatch
  <1>5. /\ d[1] \in Nat /\ e[1] \in Nat /\ d[1] <= e[1] /\ a \in Nat
        /\ d[2] \in Nat /\ e[2] \in Nat /\ d[2] <= e[2] /\ b \in Nat
    BY <1>0, <1>2, <1>3 DEF Progress, Ahead, IsRunPart
  <1>6. /\ n = (IF StreamOf(q) = s THEN e[1] - d[1] ELSE 0)
        /\ k = (IF StreamOf(z) = s THEN e[2] - d[2] ELSE 0)
    BY DEF PartLen
  <1>7. n + k = Share(runs, 2, e, s) - Share(runs, 2, d, s)
    BY <1>5, <1>6 DEF Share
  <1> HIDE DEF t, n, a, x, y, k, b, q, z
  <1>8. Joined(t, q, a, n, z, b, k)
    BY <1>1, <1>2, <1>3, <1>4, JoinedIs
  <1>9. /\ t \in Seq(Token) /\ Len(t) = n + k /\ Distinct(t) /\ Spans(t, q, a, n) /\ Spans(t, z, b, k)
        /\ \A j \in 1 .. Len(t) : Within1(t[j], q, a, n) \/ Within1(t[j], z, b, k)
    BY <1>8 DEF Joined
  <1>10. \A j \in 1 .. Len(t) : t[j].pos \in Int
    <2> TAKE j \in 1 .. Len(t)
    <2>1. t[j] \in Token
      BY <1>9
    <2> QED BY <2>1, Consts DEF Token
  <1>11. \A j \in 1 .. Len(t) :
            \/ StreamOf(q) = s /\ Within1(t[j], q, a, e[1] - d[1])
            \/ StreamOf(z) = s /\ Within1(t[j], z, b, e[2] - d[2])
    <2> TAKE j \in 1 .. Len(t)
    <2>1. CASE Within1(t[j], q, a, n)
      <3>1. n # 0
        BY <1>5, <1>10, <2>1, NotWithinNone
      <3> QED BY <1>6, <2>1, <3>1
    <2>2. CASE Within1(t[j], z, b, k)
      <3>1. k # 0
        BY <1>5, <1>10, <2>2, NotWithinNone
      <3> QED BY <1>6, <2>2, <3>1
    <2> QED BY <1>9, <2>1, <2>2
  <1>12. /\ StreamOf(q) = s => Spans(t, q, a, e[1] - d[1])
         /\ StreamOf(z) = s => Spans(t, z, b, e[2] - d[2])
    BY <1>6, <1>9
  <1>13. ASSUME NEW j \in 1 .. Len(t)
         PROVE  \E r \in 1 .. 2 :
                  /\ StreamOf(runs[r].seq) = s
                  /\ Within1(t[j], runs[r].seq, lens[runs[r].seq] + d[r], e[r] - d[r])
    BY <1>0, <1>11 DEF q, z, a, b
  <1>14. ASSUME NEW r \in 1 .. 2, StreamOf(runs[r].seq) = s
         PROVE  Spans(t, runs[r].seq, lens[runs[r].seq] + d[r], e[r] - d[r])
    <2>1. CASE r = 1
      BY <1>12, <1>14, <2>1 DEF q, a
    <2>2. CASE r = 2
      BY <1>12, <1>14, <2>2 DEF z, b
    <2> QED BY <1>0, <2>1, <2>2
  <1>15. Holds(t, runs, 2, lens, s, d, e)
    BY <1>7, <1>9, <1>13, <1>14 DEF Holds
  <1> QED BY <1>15 DEF t

\* The tokens of a split.
LEMMA PartHolds ==
    ASSUME NEW runs, NEW m, NEW lens, IsBatch(runs, m, lens), NEW s,
           NEW d \in Progress(runs, m), NEW e \in Progress(runs, m), Ahead(d, e, m)
    PROVE  Holds(Part(runs, s, d, e), runs, m, lens, s, d, e)
  <1>1. m = 1 \/ m = 2
    BY DEF IsBatch
  <1> QED BY <1>1, HoldsOne, HoldsTwo

\* The micro batch ub takes every sequence from b to c.
Takes(ub, b, c) ==
    /\ \A q \in Seqs : b[q] <= c[q]
    /\ \A s \in DOMAIN ub : Distinct(ub[s])
    /\ \A s \in DOMAIN ub : \A j \in 1 .. Len(ub[s]) :
          /\ StreamOf(ub[s][j].seq) = s
          /\ b[ub[s][j].seq] <= ub[s][j].pos /\ ub[s][j].pos < c[ub[s][j].seq]
    /\ \A q \in Seqs : \A p \in b[q] .. c[q] - 1 :
          /\ StreamOf(q) \in DOMAIN ub
          /\ \E j \in 1 .. Len(ub[StreamOf(q)]) :
                ub[StreamOf(q)][j].seq = q /\ ub[StreamOf(q)][j].pos = p

\* ub is what the runs have between d and e.
PartedBy(ub, runs, m, d, e) ==
    /\ d \in Progress(runs, m) /\ e \in Progress(runs, m) /\ Ahead(d, e, m)
    /\ \E r \in 1 .. m : d[r] < e[r]
    /\ DOMAIN ub = {StreamOf(runs[r].seq) : r \in {x \in 1 .. m : d[x] < e[x]}}
    /\ \A s \in DOMAIN ub : ub[s] = Part(runs, s, d, e)

\* How long the sequences are after a split.
LEMMA EndsAtIs ==
    ASSUME NEW runs, NEW m, NEW lens, IsBatch(runs, m, lens), NEW d \in Progress(runs, m)
    PROVE  /\ EndsAt(runs, m, d, lens) \in Lens
           /\ \A r \in 1 .. m : EndsAt(runs, m, d, lens)[runs[r].seq] = lens[runs[r].seq] + d[r]
           /\ \A q \in Seqs : (\A r \in 1 .. m : runs[r].seq # q) => EndsAt(runs, m, d, lens)[q] = lens[q]
  <1> DEFINE x == EndsAt(runs, m, d, lens)
  <1>1. m = 1 \/ m = 2
    BY DEF IsBatch
  <1>2. 1 \in 1 .. m /\ (m = 2 => 2 \in 1 .. m) /\ \A r \in 1 .. m : r = 1 \/ (m = 2 /\ r = 2)
    BY <1>1
  <1>3. ASSUME NEW r \in 1 .. m
        PROVE  /\ runs[r].seq \in Seqs /\ lens[runs[r].seq] \in Nat /\ d[r] \in Nat
               /\ lens[runs[r].seq] + d[r] \in 0 .. MaxLen
    <2>1. /\ runs[r] \in Runs /\ lens \in Lens /\ d[r] \in Nat /\ d[r] <= Len(runs[r].toks)
          /\ Len(runs[r].toks) # 0
          /\ \A j \in 1 .. Len(runs[r].toks) :
               runs[r].toks[j] = [seq |-> runs[r].seq, pos |-> lens[runs[r].seq] + j - 1]
      BY DEF IsBatch, Progress
    <2>2. /\ runs[r].seq \in Seqs /\ lens[runs[r].seq] \in 0 .. MaxLen /\ runs[r].toks \in Seq(Token)
          /\ Len(runs[r].toks) \in Nat
      BY <2>1 DEF Runs, Lens
    <2> DEFINE k == Len(runs[r].toks)
    <2>3. k \in 1 .. k /\ runs[r].toks[k] \in Token
      BY <2>1, <2>2
    <2>4. runs[r].toks[k] = [seq |-> runs[r].seq, pos |-> lens[runs[r].seq] + k - 1]
      BY <2>1, <2>3
    <2>5. lens[runs[r].seq] + k - 1 \in 0 .. MaxLen - 1
      BY <2>3, <2>4 DEF Token
    <2> HIDE DEF k
    <2>6. d[r] <= k /\ k \in Nat
      BY <2>1, <2>2 DEF k
    <2> DEFINE was == lens[runs[r].seq]
               took == d[r]
    <2>7. was \in Nat /\ took \in Nat /\ took <= k /\ was + k - 1 <= MaxLen - 1 /\ MaxLen \in Nat
      BY <2>1, <2>2, <2>5, <2>6, Consts
    <2>8. runs[r].seq \in Seqs /\ was = lens[runs[r].seq] /\ took = d[r]
      BY <2>2
    <2> HIDE DEF was, took
    <2>9. was + took \in 0 .. MaxLen
      BY <2>6, <2>7
    <2> QED BY <2>7, <2>8, <2>9
  <1>4. ASSUME NEW r \in 1 .. m PROVE x[runs[r].seq] = lens[runs[r].seq] + d[r]
    <2>1. CASE r = 1
      BY <1>3, <2>1 DEF EndsAt
    <2>2. CASE m = 2 /\ r = 2
      <3>1. runs[1].seq # runs[2].seq
        BY <2>2 DEF IsBatch
      <3> QED BY <1>3, <2>2, <3>1 DEF EndsAt
    <2> QED BY <1>2, <2>1, <2>2
  <1>5. ASSUME NEW q \in Seqs, \A r \in 1 .. m : runs[r].seq # q PROVE x[q] = lens[q]
    BY <1>2, <1>5 DEF EndsAt
  <1>6. ASSUME NEW q \in Seqs PROVE x[q] \in 0 .. MaxLen
    <2>1. CASE \E r \in 1 .. m : runs[r].seq = q
      BY <1>3, <1>4, <2>1
    <2>2. CASE \A r \in 1 .. m : runs[r].seq # q
      <3>1. lens[q] \in 0 .. MaxLen
        BY DEF IsBatch, Lens
      <3> QED BY <1>5, <2>2, <3>1
    <2> QED BY <2>1, <2>2
  <1>7. x \in Lens
    BY <1>6 DEF EndsAt, Lens
  <1> QED BY <1>4, <1>5, <1>7

\* A piece of some length is not empty.
LEMMA SpansSome ==
    ASSUME NEW t, NEW q, NEW a \in Nat, NEW n \in Nat \ {0}, Spans(t, q, a, n), Len(t) \in Nat
    PROVE  Len(t) # 0
  <1>1. a \in a .. a + n - 1
    OBVIOUS
  <1>2. PICK j \in 1 .. Len(t) : t[j].pos = a
    BY <1>1 DEF Spans
  <1> QED BY <1>2

\* A split is a micro batch: it goes on where the sequences end, and each has its
\* next positions in it, once.
LEMMA PartedIs ==
    ASSUME NEW runs, NEW m, NEW lens, IsBatch(runs, m, lens), NEW ub, NEW d, NEW e,
           PartedBy(ub, runs, m, d, e)
    PROVE  /\ IsUBatch(ub)
           /\ Takes(ub, EndsAt(runs, m, d, lens), EndsAt(runs, m, e, lens))
           /\ \A s \in DOMAIN ub : Len(ub[s]) = Share(runs, m, e, s) - Share(runs, m, d, s)
  <1> DEFINE b == EndsAt(runs, m, d, lens)
             c == EndsAt(runs, m, e, lens)
  <1>1. /\ d \in Progress(runs, m) /\ e \in Progress(runs, m) /\ Ahead(d, e, m)
        /\ \E r \in 1 .. m : d[r] < e[r]
        /\ DOMAIN ub = {StreamOf(runs[r].seq) : r \in {x \in 1 .. m : d[x] < e[x]}}
        /\ \A s \in DOMAIN ub : ub[s] = Part(runs, s, d, e)
    BY DEF PartedBy
  <1>2. /\ b \in Lens /\ \A r \in 1 .. m : b[runs[r].seq] = lens[runs[r].seq] + d[r]
        /\ \A q \in Seqs : (\A r \in 1 .. m : runs[r].seq # q) => b[q] = lens[q]
    BY <1>1, EndsAtIs
  <1>3. /\ c \in Lens /\ \A r \in 1 .. m : c[runs[r].seq] = lens[runs[r].seq] + e[r]
        /\ \A q \in Seqs : (\A r \in 1 .. m : runs[r].seq # q) => c[q] = lens[q]
    BY <1>1, EndsAtIs
  <1> HIDE DEF b, c
  <1>4. \A s \in DOMAIN ub : Holds(ub[s], runs, m, lens, s, d, e)
    BY <1>1, PartHolds
  <1>5. ASSUME NEW r \in 1 .. m
        PROVE  /\ runs[r].seq \in Seqs /\ lens[runs[r].seq] \in Nat
               /\ d[r] \in Nat /\ e[r] \in Nat /\ d[r] <= e[r] /\ e[r] - d[r] \in Nat
               /\ lens[runs[r].seq] + d[r] \in Nat
               /\ (lens[runs[r].seq] + d[r]) + (e[r] - d[r]) = lens[runs[r].seq] + e[r]
    <2>1. /\ runs[r].seq \in Seqs /\ lens[runs[r].seq] \in Nat
          /\ d[r] \in Nat /\ e[r] \in Nat /\ d[r] <= e[r]
      BY <1>1 DEF IsBatch, Runs, Lens, Progress, Ahead
    <2>2. \A x, y, z \in Nat : y <= z => z - y \in Nat /\ x + y \in Nat /\ (x + y) + (z - y) = x + z
      OBVIOUS
    <2> QED BY <2>1, <2>2
  <1>6. ASSUME NEW s \in DOMAIN ub
        PROVE  s \in Streams /\ ub[s] \in Seq(Token) /\ Len(ub[s]) # 0
    <2>1. PICK r \in 1 .. m : d[r] < e[r] /\ StreamOf(runs[r].seq) = s
      BY <1>1
    <2>2. s \in Streams
      BY <1>5, <2>1, StreamsAre
    <2>3. ub[s] \in Seq(Token) /\ Spans(ub[s], runs[r].seq, lens[runs[r].seq] + d[r], e[r] - d[r])
      BY <1>4, <2>1 DEF Holds
    <2>4. e[r] - d[r] \in Nat \ {0} /\ lens[runs[r].seq] + d[r] \in Nat
      BY <1>5, <2>1
    <2>5. Len(ub[s]) \in Nat
      BY <2>3
    <2>6. Len(ub[s]) # 0
      BY <2>3, <2>4, <2>5, SpansSome
    <2> QED BY <2>2, <2>3, <2>6
  <1>7. IsUBatch(ub)
    BY <1>1, <1>6 DEF IsUBatch
  <1>8. ASSUME NEW q \in Seqs PROVE b[q] <= c[q]
    <2>1. CASE \E r \in 1 .. m : runs[r].seq = q
      <3>1. PICK r \in 1 .. m : runs[r].seq = q
        BY <2>1
      <3>2. b[q] = lens[q] + d[r] /\ c[q] = lens[q] + e[r]
        BY <1>2, <1>3, <3>1
      <3> QED BY <1>5, <3>1, <3>2
    <2>2. CASE \A r \in 1 .. m : runs[r].seq # q
      <3>1. b[q] = lens[q] /\ c[q] = lens[q] /\ lens[q] \in Int
        BY <1>2, <1>3, <2>2 DEF IsBatch, Lens
      <3> QED BY <3>1
    <2> QED BY <2>1, <2>2
  <1>9. ASSUME NEW s \in DOMAIN ub, NEW j \in 1 .. Len(ub[s])
        PROVE  /\ StreamOf(ub[s][j].seq) = s
               /\ b[ub[s][j].seq] <= ub[s][j].pos /\ ub[s][j].pos < c[ub[s][j].seq]
    <2>1. PICK r \in 1 .. m :
            /\ StreamOf(runs[r].seq) = s
            /\ Within1(ub[s][j], runs[r].seq, lens[runs[r].seq] + d[r], e[r] - d[r])
      BY <1>4 DEF Holds
    <2>2. /\ ub[s][j].seq = runs[r].seq /\ lens[runs[r].seq] + d[r] <= ub[s][j].pos
          /\ ub[s][j].pos < lens[runs[r].seq] + e[r]
      BY <1>5, <2>1 DEF Within1
    <2> QED BY <1>2, <1>3, <2>1, <2>2
  <1>10. ASSUME NEW q \in Seqs, NEW p \in b[q] .. c[q] - 1
         PROVE  /\ StreamOf(q) \in DOMAIN ub
                /\ \E j \in 1 .. Len(ub[StreamOf(q)]) :
                      ub[StreamOf(q)][j].seq = q /\ ub[StreamOf(q)][j].pos = p
    <2>0. b[q] \in Nat /\ c[q] \in Nat
      BY <1>2, <1>3, Consts DEF Lens
    <2>1. b[q] < c[q]
      BY <2>0
    <2>2. PICK r \in 1 .. m : runs[r].seq = q
      <3> SUFFICES ASSUME \A r \in 1 .. m : runs[r].seq # q PROVE FALSE
        OBVIOUS
      <3>1. b[q] = c[q]
        BY <1>2, <1>3
      <3> QED BY <2>0, <2>1, <3>1
    <2>3. b[q] = lens[q] + d[r] /\ c[q] = lens[q] + e[r]
      BY <1>2, <1>3, <2>2
    <2>4. d[r] < e[r] /\ p \in lens[q] + d[r] .. (lens[q] + d[r]) + (e[r] - d[r]) - 1
      BY <1>5, <2>1, <2>2, <2>3
    <2> DEFINE s == StreamOf(q)
    <2>5. s \in DOMAIN ub
      BY <1>1, <2>2, <2>4
    <2>6. Spans(ub[s], q, lens[q] + d[r], e[r] - d[r])
      BY <1>4, <2>2, <2>5 DEF Holds
    <2> HIDE DEF s
    <2>7. \E j \in 1 .. Len(ub[s]) : ub[s][j].seq = q /\ ub[s][j].pos = p
      BY <2>4, <2>6 DEF Spans
    <2> QED BY <2>5, <2>7 DEF s
  <1>11. \A s \in DOMAIN ub : Distinct(ub[s]) /\ Len(ub[s]) = Share(runs, m, e, s) - Share(runs, m, d, s)
    BY <1>4 DEF Holds
  <1>12. Takes(ub, b, c)
    BY <1>8, <1>9, <1>10, <1>11 DEF Takes
  <1> QED BY <1>7, <1>11, <1>12 DEF b, c

\* The micro batches are what the runs have between one progress and the next.
WellSplit(ubs, n, runs, m, dn) ==
    /\ n \in Nat /\ DOMAIN ubs = 1 .. n /\ dn \in [1 .. n + 1 -> Progress(runs, m)]
    /\ \A r \in 1 .. m : dn[1][r] = 0
    /\ \A u \in 1 .. n : PartedBy(ubs[u], runs, m, dn[u], dn[u + 1])

\* The runs of a batch.
LEMMA RunsAre ==
    ASSUME NEW runs, NEW m, NEW lens, IsBatch(runs, m, lens), NEW r \in 1 .. m
    PROVE  /\ DOMAIN runs = 1 .. m /\ Len(runs) = m /\ m \in {1, 2}
           /\ runs[r].seq \in Seqs /\ runs[r].toks \in Seq(Token)
           /\ Len(runs[r].toks) \in Nat \ {0}
  <1>1. m \in {1, 2} /\ runs \in [1 .. m -> Runs] /\ Len(runs[r].toks) # 0
    BY DEF IsBatch
  <1>2. runs[r] \in Runs /\ DOMAIN runs = 1 .. m /\ Len(runs) = m
    BY <1>1
  <1>3. runs[r].seq \in Seqs /\ runs[r].toks \in Seq(Token)
    BY <1>2 DEF Runs
  <1> QED BY <1>1, <1>2, <1>3

\* All tokens of a batch.
LEMMA TokensOfIs ==
    ASSUME NEW runs, NEW m, NEW lens, IsBatch(runs, m, lens)
    PROVE  TokensOf(runs) = IF m = 1 THEN runs[1].toks ELSE runs[1].toks \o runs[2].toks
  <1> DEFINE f == [r \in DOMAIN runs |-> runs[r].toks]
  <1>1. TokensOf(runs) = FlattenSeq(f)
    BY DEF TokensOf
  <1>2. m \in {1, 2} /\ DOMAIN runs = 1 .. m
    BY DEF IsBatch
  <1>3. \A r \in 1 .. m : f[r] = runs[r].toks /\ f[r] \in Seq(Token)
    BY <1>2, RunsAre
  <1>4. f \in [1 .. m -> Seq(Token)]
    BY <1>2, <1>3
  <1> HIDE DEF f
  <1>5. FlattenSeq(f) = IF m = 1 THEN f[1] ELSE f[1] \o f[2]
    BY <1>2, <1>4, FlattenIs
  <1>6. 1 \in 1 .. m /\ (m # 1 => 2 \in 1 .. m)
    BY <1>2
  <1> QED BY <1>1, <1>3, <1>5, <1>6

\* What a stream can take in all.
LEMMA TokensForIs ==
    ASSUME NEW runs, NEW m, NEW lens, IsBatch(runs, m, lens), NEW s, NEW d \in Progress(runs, m)
    PROVE  /\ Len(TokensFor(runs, s)) \in Nat
           /\ Share(runs, m, d, s) \in Nat
           /\ Share(runs, m, d, s) <= Len(TokensFor(runs, s))
  <1> DEFINE f == [r \in DOMAIN runs |-> IF StreamOf(runs[r].seq) = s THEN runs[r].toks ELSE <<>>]
  <1>1. TokensFor(runs, s) = FlattenSeq(f)
    BY DEF TokensFor
  <1>2. m \in {1, 2} /\ DOMAIN runs = 1 .. m
    BY DEF IsBatch
  <1>3. ASSUME NEW r \in 1 .. m
        PROVE  /\ f[r] \in Seq(Token) /\ Len(f[r]) \in Nat /\ d[r] \in Nat
               /\ (IF StreamOf(runs[r].seq) = s THEN d[r] ELSE 0) <= Len(f[r])
    <2>1. runs[r].toks \in Seq(Token) /\ d[r] \in Nat /\ d[r] <= Len(runs[r].toks)
      BY RunsAre DEF Progress
    <2>2. f[r] = IF StreamOf(runs[r].seq) = s THEN runs[r].toks ELSE <<>>
      BY <1>2
    <2> HIDE DEF f
    <2>3. <<>> \in Seq(Token) /\ Len(<<>>) = 0
      OBVIOUS
    <2>4. CASE StreamOf(runs[r].seq) = s
      BY <2>1, <2>2, <2>4
    <2>5. CASE StreamOf(runs[r].seq) # s
      BY <2>1, <2>2, <2>3, <2>5
    <2> QED BY <2>4, <2>5
  <1>4. f \in [1 .. m -> Seq(Token)]
    BY <1>2, <1>3
  <1> HIDE DEF f
  <1>5. TokensFor(runs, s) = IF m = 1 THEN f[1] ELSE f[1] \o f[2]
    BY <1>1, <1>2, <1>4, FlattenIs
  <1>6. 1 \in 1 .. m /\ (m # 1 => 2 \in 1 .. m)
    BY <1>2
  <1>7. CASE m = 1
    BY <1>3, <1>5, <1>6, <1>7 DEF Share
  <1>8. CASE m = 2
    <2>1. f[1] \in Seq(Token) /\ f[2] \in Seq(Token)
      BY <1>3, <1>6, <1>8
    <2>2. Len(TokensFor(runs, s)) = Len(f[1]) + Len(f[2])
      BY <1>5, <1>8, <2>1
    <2>3. /\ Len(f[1]) \in Nat /\ Len(f[2]) \in Nat /\ d[1] \in Nat /\ d[2] \in Nat
          /\ (IF StreamOf(runs[1].seq) = s THEN d[1] ELSE 0) <= Len(f[1])
          /\ (IF StreamOf(runs[2].seq) = s THEN d[2] ELSE 0) <= Len(f[2])
      BY <1>3, <1>6, <1>8
    <2>4. Share(runs, m, d, s) = (IF StreamOf(runs[1].seq) = s THEN d[1] ELSE 0)
                                 + (IF StreamOf(runs[2].seq) = s THEN d[2] ELSE 0)
      BY <1>8 DEF Share
    <2>5. PICK x \in Nat, y \in Nat : x = Len(f[1]) /\ y = Len(f[2])
      BY <2>3
    <2>6. PICK a \in Nat, b \in Nat :
            /\ a = (IF StreamOf(runs[1].seq) = s THEN d[1] ELSE 0)
            /\ b = (IF StreamOf(runs[2].seq) = s THEN d[2] ELSE 0)
      BY <2>3
    <2>7. Len(TokensFor(runs, s)) = x + y /\ Share(runs, m, d, s) = a + b /\ a <= x /\ b <= y
      BY <2>2, <2>3, <2>4, <2>5, <2>6
    <2> QED BY <2>7
  <1> QED BY <1>2, <1>7, <1>8

----
\* The piece of two sequences behind each other.
Upto(a, n) == IF a <= n THEN a ELSE n
Past(a, n) == IF a <= n THEN 0 ELSE a - n

\* Sequences with the same elements are the same.
LEMMA SameSeq ==
    ASSUME NEW S, NEW x \in Seq(S), NEW y \in Seq(S), Len(x) = Len(y),
           \A j \in 1 .. Len(x) : x[j] = y[j]
    PROVE  x = y
  OBVIOUS

\* A piece of two sequences joined is a piece of each, joined.
LEMMA CutJoin ==
    ASSUME NEW S, NEW t \in Seq(S), NEW w \in Seq(S), NEW a \in Nat, NEW b \in Nat,
           a <= b, b <= Len(t) + Len(w)
    PROVE  SubSeq(t \o w, a + 1, b)
             = SubSeq(t, Upto(a, Len(t)) + 1, Upto(b, Len(t)))
               \o SubSeq(w, Past(a, Len(t)) + 1, Past(b, Len(t)))
  <1> DEFINE n == Len(t)
             x == SubSeq(t, Upto(a, n) + 1, Upto(b, n))
             y == SubSeq(w, Past(a, n) + 1, Past(b, n))
             all == SubSeq(t \o w, a + 1, b)
  <1>1. n \in Nat /\ Len(w) \in Nat
    OBVIOUS
  <1>2. /\ Upto(a, n) \in Nat /\ Upto(b, n) \in Nat /\ Upto(a, n) <= Upto(b, n) /\ Upto(b, n) <= n
        /\ Past(a, n) \in Nat /\ Past(b, n) \in Nat /\ Past(a, n) <= Past(b, n) /\ Past(b, n) <= Len(w)
    BY <1>1 DEF Upto, Past
  <1>3. IsPiece(x, t, S, Upto(a, n), Upto(b, n))
    BY <1>2, SubSeqIs
  <1>4. IsPiece(y, w, S, Past(a, n), Past(b, n))
    BY <1>2, SubSeqIs
  <1>5. IsJoin(t \o w, t, w, S)
    BY JoinIs
  <1>6. IsPiece(all, t \o w, S, a, b)
    <2>1. t \o w \in Seq(S) /\ b <= Len(t \o w)
      BY <1>5 DEF IsJoin
    <2> QED BY <2>1, SubSeqIs
  <1> HIDE DEF x, y, all, n
  <1>55. Len(t) = n
    BY DEF n
  <1>7. IsJoin(x \o y, x, y, S)
    <2>1. x \in Seq(S) /\ y \in Seq(S)
      BY <1>3, <1>4 DEF IsPiece
    <2> QED BY <2>1, JoinIs
  <1>8. /\ x \in Seq(S) /\ y \in Seq(S) /\ all \in Seq(S) /\ x \o y \in Seq(S)
        /\ Len(x) = Upto(b, n) - Upto(a, n) /\ Len(y) = Past(b, n) - Past(a, n)
        /\ Len(all) = b - a /\ Len(x \o y) = Len(x) + Len(y)
    BY <1>3, <1>4, <1>6, <1>7 DEF IsPiece, IsJoin
  <1>9. Len(all) = Len(x \o y)
    BY <1>1, <1>8 DEF Upto, Past
  <1>10. ASSUME NEW j \in 1 .. Len(all) PROVE all[j] = (x \o y)[j]
    <2>1. j \in 1 .. b - a /\ all[j] = (t \o w)[a + j] /\ a + j \in Nat /\ a + j <= b
      BY <1>6, <1>8 DEF IsPiece
    <2>2. CASE a + j <= n
      <3>1. Upto(a, n) = a /\ j \in 1 .. Upto(b, n) - Upto(a, n) /\ a + j \in 1 .. n
        BY <1>1, <2>1, <2>2 DEF Upto
      <3>2. (t \o w)[a + j] = t[a + j]
        BY <1>5, <1>55, <3>1 DEF IsJoin
      <3>3. (x \o y)[j] = x[j] /\ x[j] = t[a + j]
        BY <1>3, <1>7, <1>8, <3>1 DEF IsPiece, IsJoin
      <3> QED BY <2>1, <3>2, <3>3
    <2>3. CASE a + j > n
      <3>1. a + j \in n + 1 .. n + Len(w) /\ a + j - n \in 1 .. Len(w)
        <4>1. b <= n + Len(w)
          BY <1>55
        <4>2. PICK i \in Int, l \in Nat : i = j /\ i >= 1 /\ l = Len(w)
          BY <1>1, <2>1
        <4> QED BY <1>1, <2>1, <2>3, <4>1, <4>2
      <3>2. (t \o w)[a + j] = w[a + j - n]
        BY <1>5, <1>55, <3>1 DEF IsJoin
      <3> DEFINE k == j - Len(x)
      <3>3. /\ k \in 1 .. Past(b, n) - Past(a, n) /\ Past(a, n) + k = a + j - n
            /\ j \in Len(x) + 1 .. Len(x) + Len(y)
        <4>1. PICK lx \in Int, ly \in Int : lx = Len(x) /\ ly = Len(y)
          BY <1>2, <1>8
        <4>2. lx = Upto(b, n) - Upto(a, n) /\ ly = Past(b, n) - Past(a, n) /\ k = j - lx
          BY <1>8, <4>1
        <4> HIDE DEF k
        <4>3. PICK i \in Int : i = j /\ i > n - a /\ i <= b - a /\ i >= 1
          BY <1>1, <2>1, <2>3
        <4>4. k = i - lx /\ k \in Int
          BY <4>2, <4>3
        <4>5. CASE a <= n
          <5>1. Upto(a, n) = a /\ Past(a, n) = 0 /\ Upto(b, n) = n /\ Past(b, n) = b - n /\ b > n
            BY <1>1, <4>3, <4>5 DEF Upto, Past
          <5>2. lx = n - a /\ ly = b - n /\ k = i - (n - a)
            BY <1>1, <4>2, <4>4, <5>1
          <5> QED BY <1>1, <4>1, <4>3, <5>1, <5>2
        <4>6. CASE a > n
          <5>1. Upto(a, n) = n /\ Past(a, n) = a - n /\ Upto(b, n) = n /\ Past(b, n) = b - n
            BY <1>1, <4>3, <4>6 DEF Upto, Past
          <5>2. lx = 0 /\ ly = b - a /\ k = i
            BY <1>1, <4>2, <4>4, <5>1
          <5> QED BY <1>1, <4>1, <4>3, <5>1, <5>2
        <4> QED BY <1>1, <4>5, <4>6
      <3> HIDE DEF k
      <3>4. (x \o y)[j] = y[k]
        BY <1>7, <3>3 DEF IsJoin, k
      <3>5. y[k] = w[Past(a, n) + k]
        BY <1>4, <3>3 DEF IsPiece
      <3> QED BY <2>1, <3>2, <3>3, <3>4, <3>5
    <2>4. a + j <= n \/ a + j > n
      BY <1>1, <2>1
    <2> QED BY <2>2, <2>3, <2>4
  <1>11. all = x \o y
    BY <1>8, <1>9, <1>10, SameSeq
  <1> QED BY <1>11 DEF x, y, all, n

\* The cuts of a split in pieces of U.
LEMMA Steps ==
    ASSUME NEW U \in Nat \ {0}, NEW L \in Nat, NEW n, n = (L + U - 1) \div U, NEW u \in Nat \ {0}
    PROVE  /\ n \in Nat
           /\ (u - 1) * U \in Nat /\ u * U = (u - 1) * U + U /\ u * U \in Nat
           /\ u <= n => (u - 1) * U < L
  <1>1. n \in Nat /\ n * U <= L + U - 1
    OBVIOUS
  <1>2. \A x, y \in Nat : x * y \in Nat
    OBVIOUS
  <1>3. \A x \in Int : (x - 1) * U = x * U - U
    OBVIOUS
  <1>4. ASSUME NEW v \in Nat, v <= n PROVE v * U <= n * U
    <2>0. n - v \in Nat
      BY <1>1, <1>4
    <2>1. PICK w \in Nat : w = n - v
      BY <2>0
    <2>2. n * U = v * U + w * U
      <3>1. n = v + w
        BY <2>1, <1>1
      <3> QED BY <3>1
    <2>3. w * U \in Nat /\ v * U \in Nat
      BY <1>2
    <2> QED BY <2>2, <2>3
  <1>5. u - 1 \in Nat
    OBVIOUS
  <1>6. (u - 1) * U \in Nat /\ u * U \in Nat /\ n * U \in Nat
    BY <1>1, <1>2, <1>5
  <1>7. (u - 1) * U = u * U - U
    BY <1>3
  <1>8. u <= n => u * U <= n * U
    BY <1>4
  <1>9. PICK a \in Nat, b \in Nat, k \in Nat : a = (u - 1) * U /\ b = u * U /\ k = n * U
    BY <1>6
  <1>10. a = b - U /\ k <= L + U - 1 /\ (u <= n => b <= k)
    BY <1>1, <1>7, <1>8, <1>9
  <1>11. b = a + U /\ (u <= n => a < L)
    BY <1>10
  <1> QED BY <1>1, <1>9, <1>11

\* How far the runs are when k tokens of the batch have been taken.
DoneAt(runs, m, k) ==
    [r \in 1 .. m |-> IF r = 1 THEN Upto(k, Len(runs[1].toks)) ELSE Past(k, Len(runs[1].toks))]

\* A piece of the batch, as split_simple() takes it, is a piece of each run.
LEMMA SimplePart ==
    ASSUME mode # "streams", NEW runs, NEW m, NEW lens, IsBatch(runs, m, lens),
           NEW k \in Nat, NEW l \in Nat, k <= l, l <= Len(TokensOf(runs))
    PROVE  /\ DoneAt(runs, m, k) \in Progress(runs, m) /\ DoneAt(runs, m, l) \in Progress(runs, m)
           /\ Ahead(DoneAt(runs, m, k), DoneAt(runs, m, l), m)
           /\ k < l => \E r \in 1 .. m : DoneAt(runs, m, k)[r] < DoneAt(runs, m, l)[r]
           /\ SubSeq(TokensOf(runs), k + 1, l)
                = Part(runs, 0, DoneAt(runs, m, k), DoneAt(runs, m, l))
  <1> DEFINE d == DoneAt(runs, m, k)
             e == DoneAt(runs, m, l)
             t == runs[1].toks
             w == runs[2].toks
  <1>1. m = 1 \/ m = 2
    BY DEF IsBatch
  <1>2. 1 \in 1 .. m /\ (m = 2 => 2 \in 1 .. m) /\ \A r \in 1 .. m : r = 1 \/ (m = 2 /\ r = 2)
    BY <1>1
  <1>3. t \in Seq(Token) /\ Len(t) \in Nat
    BY <1>2, RunsAre
  <1>4. m = 2 => w \in Seq(Token) /\ Len(w) \in Nat
    BY <1>2, RunsAre
  <1>5. TokensOf(runs) = IF m = 1 THEN t ELSE t \o w
    BY TokensOfIs
  <1>6. m = 1 => l <= Len(t)
    BY <1>5
  <1>7. m = 2 => l <= Len(t) + Len(w)
    <2> HAVE m = 2
    <2>1. TokensOf(runs) = t \o w /\ w \in Seq(Token)
      BY <1>4, <1>5
    <2> HIDE DEF t, w
    <2>2. Len(t \o w) = Len(t) + Len(w)
      BY <1>3, <2>1
    <2> QED BY <2>1, <2>2
  <1>8. /\ d[1] = Upto(k, Len(t)) /\ e[1] = Upto(l, Len(t))
        /\ m = 2 => d[2] = Past(k, Len(t)) /\ e[2] = Past(l, Len(t))
        /\ DOMAIN d = 1 .. m /\ DOMAIN e = 1 .. m /\ d = [r \in 1 .. m |-> d[r]] /\ e = [r \in 1 .. m |-> e[r]]
    BY <1>2 DEF DoneAt
  <1> HIDE DEF d, e
  <1>9. /\ d[1] \in Nat /\ e[1] \in Nat /\ d[1] <= e[1] /\ e[1] <= Len(t) /\ d[1] <= Len(t)
        /\ m = 1 => d[1] = k /\ e[1] = l
    BY <1>3, <1>6, <1>8 DEF Upto
  <1>10. m = 2 => /\ d[2] \in Nat /\ e[2] \in Nat /\ d[2] <= e[2] /\ e[2] <= Len(w) /\ d[2] <= Len(w)
                  /\ d[1] + d[2] = k /\ e[1] + e[2] = l
    <2> HAVE m = 2
    <2>1. PICK x \in Nat, y \in Nat : x = Len(t) /\ y = Len(w)
      BY <1>3, <1>4
    <2>2. l <= x + y
      BY <1>7, <2>1
    <2>3. /\ d[1] = Upto(k, x) /\ e[1] = Upto(l, x) /\ d[2] = Past(k, x) /\ e[2] = Past(l, x)
      BY <1>8, <2>1
    <2>4. Upto(k, x) + Past(k, x) = k /\ Upto(l, x) + Past(l, x) = l /\ Past(k, x) <= Past(l, x)
          /\ Past(k, x) \in Nat /\ Past(l, x) \in Nat /\ Past(l, x) <= y /\ Past(k, x) <= y
      BY <2>2 DEF Upto, Past
    <2> QED BY <2>1, <2>3, <2>4
  <1>11. d \in Progress(runs, m) /\ e \in Progress(runs, m)
    <2>1. \A r \in 1 .. m : d[r] \in Nat /\ e[r] \in Nat /\ d[r] <= Len(runs[r].toks) /\ e[r] <= Len(runs[r].toks)
      BY <1>2, <1>9, <1>10
    <2>2. d \in [1 .. m -> Nat] /\ e \in [1 .. m -> Nat]
      BY <1>8, <2>1
    <2> QED BY <2>1, <2>2 DEF Progress
  <1>12. Ahead(d, e, m)
    BY <1>2, <1>9, <1>10 DEF Ahead
  <1>13. ASSUME k < l PROVE \E r \in 1 .. m : d[r] < e[r]
    <2>1. CASE m = 1
      BY <1>2, <1>9, <1>13, <2>1
    <2>2. CASE m = 2
      BY <1>2, <1>9, <1>10, <1>13, <2>2
    <2> QED BY <1>1, <2>1, <2>2
  <1>14. \A r \in 1 .. m : PartOf(runs, 0, d, e, r) = SubSeq(runs[r].toks, d[r] + 1, e[r])
    BY DEF PartOf, StreamOf
  <1>15. Part(runs, 0, d, e) = IF m = 1 THEN PartOf(runs, 0, d, e, 1)
                               ELSE PartOf(runs, 0, d, e, 1) \o PartOf(runs, 0, d, e, 2)
    BY <1>11, <1>12, PartIs
  <1>16. SubSeq(TokensOf(runs), k + 1, l) = Part(runs, 0, d, e)
    <2>1. CASE m = 1
      BY <1>2, <1>5, <1>9, <1>14, <1>15, <2>1
    <2>2. CASE m = 2
      <3>1. SubSeq(t \o w, k + 1, l)
              = SubSeq(t, Upto(k, Len(t)) + 1, Upto(l, Len(t)))
                \o SubSeq(w, Past(k, Len(t)) + 1, Past(l, Len(t)))
        BY <1>3, <1>4, <1>7, <2>2, CutJoin
      <3>2. Part(runs, 0, d, e) = SubSeq(t, d[1] + 1, e[1]) \o SubSeq(w, d[2] + 1, e[2])
        <4>1. PartOf(runs, 0, d, e, 1) = SubSeq(t, d[1] + 1, e[1])
          BY <1>2, <1>14
        <4>2. PartOf(runs, 0, d, e, 2) = SubSeq(w, d[2] + 1, e[2])
          BY <1>2, <1>14, <2>2
        <4>3. Part(runs, 0, d, e) = PartOf(runs, 0, d, e, 1) \o PartOf(runs, 0, d, e, 2)
          BY <1>15, <2>2
        <4> QED BY <4>1, <4>2, <4>3
      <3>3. TokensOf(runs) = t \o w
        BY <1>5, <2>2
      <3> QED BY <1>8, <2>2, <3>1, <3>2, <3>3
    <2> QED BY <1>1, <2>1, <2>2
  <1> QED BY <1>11, <1>12, <1>13, <1>16 DEF d, e

\* split_simple() takes every token of the batch once, in order.
LEMMA SimpleIs ==
    ASSUME mode # "streams", NEW runs, NEW m, NEW lens, IsBatch(runs, m, lens)
    PROVE  \E n, dn : WellSplit(Simple(runs), n, runs, m, dn)
  <1> DEFINE all == TokensOf(runs)
             L == Len(all)
             n == (L + UBatch - 1) \div UBatch
             ubs == Simple(runs)
             dn == [u \in 1 .. n + 1 |-> DoneAt(runs, m, Upto((u - 1) * UBatch, L))]
  <1>1. ubs = [u \in 1 .. n |-> [s \in {0} |-> SubSeq(all, (u - 1) * UBatch + 1, Min({u * UBatch, L}))]]
    BY DEF Simple
  <1>2. m = 1 \/ m = 2
    BY DEF IsBatch
  <1>20. 1 \in 1 .. m
    BY <1>2
  <1>3. L \in Nat
    <2>1. runs[1].toks \in Seq(Token) /\ (m = 2 => runs[2].toks \in Seq(Token))
      <3>1. m = 2 => 2 \in 1 .. m
        OBVIOUS
      <3> QED BY <1>20, <3>1, RunsAre
    <2>2. all = IF m = 1 THEN runs[1].toks ELSE runs[1].toks \o runs[2].toks
      BY TokensOfIs
    <2> HIDE DEF all
    <2>3. all \in Seq(Token)
      BY <1>2, <2>1, <2>2
    <2> QED BY <2>3
  <1>4. UBatch \in Nat \ {0}
    BY Consts
  <1>5. ASSUME NEW u \in Nat \ {0}
        PROVE  /\ n \in Nat /\ (u - 1) * UBatch \in Nat /\ u * UBatch = (u - 1) * UBatch + UBatch
               /\ u * UBatch \in Nat /\ (u <= n => (u - 1) * UBatch < L)
    <2> DEFINE k == n
    <2>1. k = (L + UBatch - 1) \div UBatch
      OBVIOUS
    <2> HIDE DEF k, L
    <2>2. /\ k \in Nat /\ (u - 1) * UBatch \in Nat /\ u * UBatch = (u - 1) * UBatch + UBatch
          /\ u * UBatch \in Nat /\ (u <= k => (u - 1) * UBatch < L)
      BY <1>3, <1>4, <2>1, Steps
    <2> QED BY <2>2 DEF k
  <1>6. n \in Nat
    <2>1. 1 \in Nat \ {0}
      OBVIOUS
    <2> QED BY <1>5, <2>1
  <1> HIDE DEF n, L, all
  <1>7. ASSUME NEW u \in 1 .. n + 1
        PROVE  /\ Upto((u - 1) * UBatch, L) \in Nat /\ Upto((u - 1) * UBatch, L) <= L
               /\ dn[u] = DoneAt(runs, m, Upto((u - 1) * UBatch, L))
    <2>1. u \in Nat \ {0}
      BY <1>6
    <2>2. (u - 1) * UBatch \in Nat
      BY <1>5, <2>1
    <2> QED BY <1>3, <2>2 DEF Upto
  <1>8. ASSUME NEW u \in 1 .. n
        PROVE  PartedBy(ubs[u], runs, m, dn[u], dn[u + 1])
    <2>1. u \in Nat \ {0} /\ u <= n /\ u \in 1 .. n + 1 /\ u + 1 \in 1 .. n + 1 /\ (u + 1) - 1 = u
      BY <1>6
    <2> DEFINE k == (u - 1) * UBatch
               l == Upto(u * UBatch, L)
    <2>2. k \in Nat /\ u * UBatch = k + UBatch /\ u * UBatch \in Nat /\ k < L
      BY <1>5, <2>1
    <2>3. l \in Nat /\ k < l /\ l <= L /\ Upto(k, L) = k
      BY <1>3, <1>4, <2>2 DEF Upto
    <2>4. Min({u * UBatch, L}) = l
      <3>1. \A x, y \in Int : Min({x, y}) = IF x <= y THEN x ELSE y
        BY DEF Min
      <3> QED BY <1>3, <2>2, <3>1 DEF Upto
    <2>5. ubs[u] = [s \in {0} |-> SubSeq(all, k + 1, l)]
      BY <1>1, <2>4
    <2>6. dn[u] = DoneAt(runs, m, k) /\ dn[u + 1] = DoneAt(runs, m, l)
      BY <1>7, <2>1, <2>3
    <2> HIDE DEF k, l, dn, ubs
    <2>7. /\ dn[u] \in Progress(runs, m) /\ dn[u + 1] \in Progress(runs, m)
          /\ Ahead(dn[u], dn[u + 1], m)
          /\ \E r \in 1 .. m : dn[u][r] < dn[u + 1][r]
          /\ SubSeq(all, k + 1, l) = Part(runs, 0, dn[u], dn[u + 1])
      <3>1. k <= l /\ l <= Len(TokensOf(runs))
        BY <2>2, <2>3 DEF L, all
      <3>2. /\ DoneAt(runs, m, k) \in Progress(runs, m) /\ DoneAt(runs, m, l) \in Progress(runs, m)
            /\ Ahead(DoneAt(runs, m, k), DoneAt(runs, m, l), m)
            /\ k < l => \E r \in 1 .. m : DoneAt(runs, m, k)[r] < DoneAt(runs, m, l)[r]
            /\ SubSeq(TokensOf(runs), k + 1, l)
                 = Part(runs, 0, DoneAt(runs, m, k), DoneAt(runs, m, l))
        BY <2>2, <2>3, <3>1, SimplePart
      <3> QED BY <2>3, <2>6, <3>2 DEF all
    <2>8. \A q : StreamOf(q) = 0
      BY DEF StreamOf
    <2>9. DOMAIN ubs[u] = {0} /\ ubs[u][0] = Part(runs, 0, dn[u], dn[u + 1])
      BY <2>5, <2>7
    <2>10. {StreamOf(runs[r].seq) : r \in {x \in 1 .. m : dn[u][x] < dn[u + 1][x]}} = {0}
      BY <2>7, <2>8
    <2> QED BY <2>7, <2>9, <2>10 DEF PartedBy
  <1>9. DoneAt(runs, m, L) \in Progress(runs, m) /\ DoneAt(runs, m, 0) \in Progress(runs, m)
    <2>1. 0 \in Nat /\ 0 <= L /\ L <= Len(TokensOf(runs))
      BY <1>3 DEF L, all
    <2> QED BY <1>3, <2>1, SimplePart
  <1>10. ASSUME NEW u \in 1 .. n + 1 PROVE dn[u] \in Progress(runs, m)
    <2>1. Upto((u - 1) * UBatch, L) \in Nat /\ Upto((u - 1) * UBatch, L) <= L
      BY <1>7
    <2>2. DoneAt(runs, m, Upto((u - 1) * UBatch, L)) \in Progress(runs, m)
      <3> DEFINE c == Upto((u - 1) * UBatch, L)
      <3> HIDE DEF c
      <3>1. c \in Nat /\ c <= L /\ L <= Len(TokensOf(runs))
        BY <1>3, <2>1 DEF c, L, all
      <3>2. DoneAt(runs, m, c) \in Progress(runs, m)
        BY <1>3, <3>1, SimplePart
      <3> QED BY <3>2 DEF c
    <2> QED BY <1>7, <2>2
  <1>11. dn \in [1 .. n + 1 -> Progress(runs, m)]
    BY <1>10
  <1>12. ASSUME NEW r \in 1 .. m PROVE dn[1][r] = 0
    <2>1. 1 \in 1 .. n + 1
      BY <1>6
    <2>2. Upto((1 - 1) * UBatch, L) = 0
      <3>1. (1 - 1) * UBatch = 0
        BY <1>4
      <3> QED BY <1>3, <3>1 DEF Upto
    <2>3. dn[1] = DoneAt(runs, m, 0)
      BY <2>1, <2>2
    <2>4. Len(runs[1].toks) \in Nat
      BY <1>20, RunsAre
    <2>5. Upto(0, Len(runs[1].toks)) = 0 /\ Past(0, Len(runs[1].toks)) = 0
      BY <2>4 DEF Upto, Past
    <2>6. DoneAt(runs, m, 0)[r] = 0
      BY <2>5 DEF DoneAt
    <2> QED BY <2>3, <2>6
  <1>13. DOMAIN ubs = 1 .. n
    BY <1>1
  <1> HIDE DEF dn, ubs
  <1>14. WellSplit(ubs, n, runs, m, dn)
    BY <1>6, <1>8, <1>11, <1>12, <1>13 DEF WellSplit
  <1> QED BY <1>14 DEF ubs

\* Some run takes part in the next split as long as there are tokens.
LEMMA GroupIs ==
    ASSUME NEW runs, NEW m, NEW lens, IsBatch(runs, m, lens), NEW d \in Progress(runs, m)
    PROVE  /\ EqualGroup(runs, d) \subseteq Live(runs, d)
           /\ Live(runs, d) # {} => EqualGroup(runs, d) # {}
  <1> DEFINE live == Live(runs, d)
             Eq(F) == F = [r \in 0 .. Len(runs) |->
                             IF r = 0 THEN -1
                             ELSE IF r \in live /\ F[r - 1] \in {-1, runs[r].seq - 1} THEN runs[r].seq
                             ELSE F[r - 1]]
             last == CHOOSE F : Eq(F)
  <1>1. EqualGroup(runs, d) = IF mode = "streams" THEN {r \in live : last[r] = runs[r].seq} ELSE live
    BY Zenon DEF EqualGroup
  <1>2. m = 1 \/ m = 2
    BY DEF IsBatch
  <1>3. 1 \in 1 .. m /\ (m = 2 => 2 \in 1 .. m) /\ \A r \in 1 .. m : r = 1 \/ (m = 2 /\ r = 2)
    BY <1>2
  <1>4. DOMAIN runs = 1 .. m /\ Len(runs) = m
    BY <1>3, RunsAre
  <1>5. live \subseteq 1 .. m
    BY <1>4 DEF Live
  <1> HIDE DEF live
  <1> DEFINE a == IF 1 \in live THEN runs[1].seq ELSE -1
             b == IF 2 \in live /\ a \in {-1, runs[2].seq - 1} THEN runs[2].seq ELSE a
             g == [r \in 0 .. Len(runs) |-> IF r = 0 THEN -1 ELSE IF r = 1 THEN a ELSE b]
  <1>6. Eq(g)
    <2>1. g[0] = -1 /\ g[1] = a /\ (m = 2 => g[2] = b)
      BY <1>2, <1>4
    <2>2. \A r \in 0 .. Len(runs) : r = 0 \/ r = 1 \/ (m = 2 /\ r = 2)
      BY <1>2, <1>4
    <2>3. g = [r \in 0 .. Len(runs) |-> g[r]]
      OBVIOUS
    <2> HIDE DEF g
    <2>4. \A r \in 0 .. Len(runs) :
             g[r] = IF r = 0 THEN -1
                    ELSE IF r \in live /\ g[r - 1] \in {-1, runs[r].seq - 1} THEN runs[r].seq
                    ELSE g[r - 1]
      <3> TAKE r \in 0 .. Len(runs)
      <3>1. CASE r = 0
        BY <2>1, <3>1
      <3>2. CASE r = 1
        <4>1. r - 1 = 0 /\ g[r - 1] = -1 /\ g[r] = a
          BY <2>1, <3>2
        <4> QED BY <3>2, <4>1
      <3>3. CASE m = 2 /\ r = 2
        <4>1. r - 1 = 1 /\ g[r - 1] = a /\ g[r] = b
          BY <2>1, <3>3
        <4> QED BY <3>3, <4>1
      <3> QED BY <2>2, <3>1, <3>2, <3>3
    <2> QED BY <2>3, <2>4
  <1>7. Eq(last)
    BY <1>6
  <1> HIDE DEF last, g
  <1>8. \A r \in 0 .. Len(runs) :
           last[r] = IF r = 0 THEN -1
                     ELSE IF r \in live /\ last[r - 1] \in {-1, runs[r].seq - 1} THEN runs[r].seq
                     ELSE last[r - 1]
    BY <1>7
  <1>9. last[0] = -1
    BY <1>2, <1>4, <1>8
  <1>10. last[1] = IF 1 \in live THEN runs[1].seq ELSE -1
    <2>1. 1 \in 0 .. Len(runs) /\ 1 - 1 = 0
      BY <1>2, <1>4
    <2>2. last[1] = IF 1 = 0 THEN -1
                    ELSE IF 1 \in live /\ last[1 - 1] \in {-1, runs[1].seq - 1} THEN runs[1].seq
                    ELSE last[1 - 1]
      BY <1>8, <2>1
    <2> QED BY <1>9, <2>1, <2>2
  <1>11. m = 2 => last[2] = IF 2 \in live /\ last[1] \in {-1, runs[2].seq - 1} THEN runs[2].seq ELSE last[1]
    <2> HAVE m = 2
    <2>1. 2 \in 0 .. Len(runs) /\ 2 - 1 = 1
      BY <1>4
    <2>2. last[2] = IF 2 = 0 THEN -1
                    ELSE IF 2 \in live /\ last[2 - 1] \in {-1, runs[2].seq - 1} THEN runs[2].seq
                    ELSE last[2 - 1]
      BY <1>8, <2>1
    <2> QED BY <2>1, <2>2
  <1>12. EqualGroup(runs, d) \subseteq live
    BY <1>1
  <1>13. ASSUME live # {} PROVE EqualGroup(runs, d) # {}
    <2>1. CASE 1 \in live
      BY <1>1, <1>10, <2>1
    <2>2. CASE 1 \notin live
      <3>1. 2 \in live /\ m = 2
        BY <1>3, <1>5, <1>13, <2>2
      <3> QED BY <1>1, <1>10, <1>11, <2>2, <3>1
    <2> QED BY <2>1, <2>2
  <1> QED BY <1>12, <1>13 DEF live

\* One equal split from d to e.
Taken(runs, m, d, e) ==
    /\ e \in Progress(runs, m) /\ Ahead(d, e, m)
    /\ d = Lengths(runs) => e = d
    /\ d # Lengths(runs) => /\ EqualGroup(runs, d) = {r \in 1 .. m : d[r] < e[r]}
                            /\ \E r \in 1 .. m : d[r] < e[r]

\* One step of split_equal() takes as many tokens of each run of a group.
LEMMA TakenIs ==
    ASSUME NEW runs, NEW m, NEW lens, IsBatch(runs, m, lens), NEW d \in Progress(runs, m)
    PROVE  Taken(runs, m, d, TakenBy(runs, d))
  <1> DEFINE group == EqualGroup(runs, d)
             share == Max({1, UBatch \div Cardinality(group)})
             S == {share} \cup {Len(runs[r].toks) - d[r] : r \in group}
             n == Min(S)
             e == TakenBy(runs, d)
  <1>1. e = IF d = Lengths(runs) THEN d
            ELSE [r \in DOMAIN runs |-> IF r \in group THEN d[r] + n ELSE d[r]]
    BY DEF TakenBy
  <1>2. group \subseteq Live(runs, d) /\ (Live(runs, d) # {} => group # {})
    BY GroupIs
  <1>3. m \in {1, 2} /\ DOMAIN runs = 1 .. m
    BY DEF IsBatch
  <1>4. \A r \in 1 .. m : d[r] \in Nat /\ Len(runs[r].toks) \in Nat /\ d[r] <= Len(runs[r].toks)
    BY RunsAre DEF Progress
  <1>5. Lengths(runs) = [r \in 1 .. m |-> Len(runs[r].toks)] /\ d = [r \in 1 .. m |-> d[r]]
    BY <1>3 DEF Lengths, Progress
  <1> HIDE DEF e, n, group
  <1>6. CASE d = Lengths(runs)
    <2>1. e = d /\ Ahead(d, d, m)
      BY <1>1, <1>4, <1>6 DEF Ahead
    <2>2. Taken(runs, m, d, e)
      BY <1>6, <2>1 DEF Taken
    <2> QED BY <2>2 DEF e
  <1>7. CASE d # Lengths(runs)
    <2>1. \E r \in 1 .. m : d[r] # Len(runs[r].toks)
      BY <1>5, <1>7
    <2>2. Live(runs, d) # {}
      BY <1>3, <1>4, <2>1 DEF Live
    <2>3. group # {} /\ group \subseteq 1 .. m /\ \A r \in group : d[r] < Len(runs[r].toks)
      BY <1>2, <1>3, <2>2 DEF Live
    <2>4. share \in Int /\ share >= 1
      <3>1. IsFiniteSet(group)
        <4>1. IsFiniteSet(1 .. m)
          BY <1>3, FS_Interval
        <4> QED BY <2>3, <4>1, FS_Subset
      <3>2. Cardinality(group) \in Nat \ {0}
        BY <2>3, <3>1, FS_CardinalityType, FS_EmptySet
      <3>3. UBatch \div Cardinality(group) \in Nat
        BY <3>2, Consts
      <3>4. \A x \in Nat : Max({1, x}) \in Int /\ Max({1, x}) >= 1
        <4> TAKE x \in Nat
        <4>1. Max({1, x}) = IF 1 >= x THEN 1 ELSE x
          BY MaxOfTwo
        <4> QED BY <4>1
      <3> QED BY <3>3, <3>4
    <2> HIDE DEF share
    <2>5. S \subseteq Int /\ S # {} /\ \A x \in S : 1 <= x
      <3>1. \A r \in group : Len(runs[r].toks) - d[r] \in Int /\ 1 <= Len(runs[r].toks) - d[r]
        BY <1>4, <2>3
      <3> QED BY <2>4, <3>1
    <2>6. PICK b \in Int : b = 1 /\ \A x \in S : b <= x
      BY <2>5
    <2>7. n \in S /\ \A y \in S : n <= y
      <3> HIDE DEF S
      <3> QED BY <2>5, <2>6, MinIs DEF n
    <2>8. n \in Int /\ 1 <= n
      BY <2>5, <2>7
    <2>9. \A r \in group : n <= Len(runs[r].toks) - d[r]
      BY <2>7
    <2>10. e = [r \in 1 .. m |-> IF r \in group THEN d[r] + n ELSE d[r]]
      BY <1>1, <1>3, <1>7
    <2>11. \A r \in 1 .. m : e[r] = IF r \in group THEN d[r] + n ELSE d[r]
      BY <2>10
    <2>12. \A r \in 1 .. m : e[r] \in Nat /\ e[r] <= Len(runs[r].toks) /\ d[r] <= e[r] /\ (r \in group <=> d[r] < e[r])
      <3> TAKE r \in 1 .. m
      <3>1. CASE r \in group
        BY <1>4, <2>8, <2>9, <2>11, <3>1
      <3>2. CASE r \notin group
        BY <1>4, <2>11, <3>2
      <3> QED BY <3>1, <3>2
    <2>13. e \in Progress(runs, m) /\ Ahead(d, e, m)
      BY <2>10, <2>12 DEF Progress, Ahead
    <2>14. group = {r \in 1 .. m : d[r] < e[r]} /\ \E r \in 1 .. m : d[r] < e[r]
      BY <2>3, <2>12
    <2>15. Taken(runs, m, d, e)
      BY <1>7, <2>13, <2>14 DEF Taken, group
    <2> QED BY <2>15 DEF e
  <1> QED BY <1>6, <1>7

\* A set of numbers that contains with each the one before it is an interval.
LEMMA PrefixIs ==
    ASSUME NEW N \in Nat, NEW K, K \subseteq 1 .. N, \A v \in K : v # 1 => v - 1 \in K
    PROVE  Cardinality(K) \in Nat /\ Cardinality(K) <= N /\ K = 1 .. Cardinality(K)
  <1>1. CASE K = {}
    <2>1. Cardinality(K) = 0
      BY <1>1, FS_EmptySet
    <2> QED BY <1>1, <2>1
  <1>2. CASE K # {}
    <2>1. K \subseteq Int /\ \E b \in Int : \A x \in K : x <= b
      <3>1. \A x \in K : x <= N
        OBVIOUS
      <3> QED BY <3>1
    <2> DEFINE k == Max(K)
    <2>2. k \in K /\ \A y \in K : y <= k
      <3>1. PICK b \in Int : \A x \in K : x <= b
        BY <2>1
      <3> QED BY <1>2, <2>1, <3>1, MaxIs
    <2> HIDE DEF k
    <2>3. k \in 1 .. N
      BY <2>2
    <2> DEFINE n == k - 1
               W == {j \in 0 .. n : k - j \in K}
    <2>4. n \in Nat /\ 0 \in W
      BY <2>2, <2>3
    <2>5. ASSUME NEW j \in 1 .. n, j - 1 \in W PROVE j \in W
      <3>1. k - (j - 1) \in K /\ k - (j - 1) # 1
        BY <2>3, <2>5
      <3>2. (k - (j - 1)) - 1 \in K
        BY <3>1
      <3>3. (k - (j - 1)) - 1 = k - j /\ j \in 0 .. n
        BY <2>3
      <3> QED BY <3>2, <3>3
    <2> HIDE DEF W
    <2>6. \A j \in 0 .. n : j \in W
      <3> HIDE DEF n
      <3> QED BY <2>4, <2>5, IntervalInduct
    <2>7. K = 1 .. k
      <3>1. ASSUME NEW i \in 1 .. k PROVE i \in K
        <4>1. k - i \in 0 .. n /\ k - (k - i) = i
          BY <2>3
        <4> QED BY <2>6, <4>1 DEF W
      <3>2. \A i \in K : i \in 1 .. k
        BY <2>2
      <3> QED BY <3>1, <3>2
    <2>8. Cardinality(1 .. k) = k
      BY <2>3, FS_Interval
    <2> QED BY <2>3, <2>7, <2>8
  <1> QED BY <1>1, <1>2

\* All steps of split_equal().
LEMMA SplitsAre ==
    ASSUME NEW runs, NEW m, NEW lens, IsBatch(runs, m, lens), NEW N \in Nat,
           DOMAIN TokensOf(runs) = 1 .. N
    PROVE  /\ Splits(runs) \in Seq(Progress(runs, m)) /\ Len(Splits(runs)) = N + 1
           /\ Splits(runs)[1] = [r \in 1 .. m |-> 0]
           /\ \A u \in 1 .. N : Taken(runs, m, Splits(runs)[u], Splits(runs)[u + 1])
  <1> DEFINE P == Progress(runs, m)
             b == [r \in DOMAIN runs |-> 0]
             V == NonEmpty(P)
             toks == TokensOf(runs)
             h == [x \in (1 .. N) \X V |-> Append(x[2], TakenBy(runs, Last(x[2])))]
             step == [x \in (1 .. N) \X P |-> TakenBy(runs, x[2])]
             Eq(it) == it = [s \in SUBSET (DOMAIN toks) |->
                               IF s = {} THEN <<b>>
                               ELSE Append(it[s \ {Max(s)}], TakenBy(runs, Last(it[s \ {Max(s)}])))]
             it == CHOOSE g : Eq(g)
             t == Splits(runs)
  <1>1. t = it[DOMAIN toks]
    BY Zenon DEF Splits, FoldLeft, MapThenFoldSet
  <1>2. DOMAIN toks = 1 .. N /\ m \in {1, 2} /\ DOMAIN runs = 1 .. m
    BY DEF IsBatch
  <1> HIDE DEF toks, t
  <1>3. b \in P /\ b = [r \in 1 .. m |-> 0]
    <2>1. \A r \in 1 .. m : Len(runs[r].toks) \in Nat
      BY RunsAre
    <2>2. b = [r \in 1 .. m |-> 0]
      BY <1>2
    <2> HIDE DEF b
    <2>3. b \in [1 .. m -> Nat] /\ \A r \in 1 .. m : b[r] <= Len(runs[r].toks)
      BY <2>1, <2>2
    <2> QED BY <2>2, <2>3 DEF Progress
  <1> HIDE DEF b, P
  <1>4. <<b>> \in V
    BY <1>3 DEF NonEmpty
  <1>5. \A k \in 1 .. N, a \in V : h[<<k, a>>] = Append(a, TakenBy(runs, Last(a)))
    OBVIOUS
  <1>6. \A k \in 1 .. N, a \in P : step[<<k, a>>] = TakenBy(runs, a)
    OBVIOUS
  <1>7. \A a \in V : Last(a) \in P
    BY DEF NonEmpty, Last
  <1> HIDE DEF h, step
  <1>8. Appends(h, N, P, step)
    BY <1>5, <1>6, <1>7 DEF Appends
  <1>9. ASSUME NEW k \in 1 .. N, NEW a \in P
        PROVE  Taken(runs, m, a, step[<<k, a>>]) /\ step[<<k, a>>] \in P
    <2>1. Taken(runs, m, a, TakenBy(runs, a))
      BY TakenIs DEF P
    <2> QED BY <1>6, <2>1 DEF Taken, P
  <1>10. StaysIn(step, 1 .. N, P)
    BY <1>9 DEF StaysIn
  <1>11. StaysIn(h, 1 .. N, V)
    BY <1>8, <1>10, AppendStays
  <1> HIDE DEF V
  <1>12. PICK f : LeftFoldOf(f, N, V, <<b>>, h)
    BY <1>4, <1>11, LeftExists
  <1>13. /\ f \in [SUBSET (1 .. N) -> V]
         /\ \A s \in SUBSET (1 .. N) : f[s] = IF s = {} THEN <<b>> ELSE h[<<Max(s), f[s \ {Max(s)}]>>]
    BY <1>12 DEF LeftFoldOf
  <1>14. ASSUME NEW s \in SUBSET (1 .. N), s # {}
         PROVE  f[s] = Append(f[s \ {Max(s)}], TakenBy(runs, Last(f[s \ {Max(s)}])))
    <2>1. Max(s) \in 1 .. N /\ s \ {Max(s)} \in SUBSET (1 .. N)
      BY <1>14, MaxElement
    <2>2. f[s] = h[<<Max(s), f[s \ {Max(s)}]>>] /\ f[s \ {Max(s)}] \in V
      BY <1>13, <1>14, <2>1
    <2> QED BY <1>5, <2>1, <2>2
  <1>15. Eq(f)
    BY <1>2, <1>13, <1>14
  <1>16. Eq(it)
    BY <1>15
  <1> HIDE DEF it
  <1>17. it[1 .. N] = f[1 .. N]
    <2>1. \A s \in SUBSET (1 .. N) : it[s] = IF s = {} THEN <<b>>
              ELSE Append(it[s \ {Max(s)}], TakenBy(runs, Last(it[s \ {Max(s)}])))
      BY <1>2, <1>16
    <2>2. f[{}] = it[{}]
      BY <1>13, <2>1
    <2>3. \A s \in SUBSET (1 .. N) : s # {} /\ it[s \ {Max(s)}] = f[s \ {Max(s)}] => it[s] = f[s]
      BY <1>14, <2>1
    <2> QED BY <2>2, <2>3, SameLeft
  <1>18. PICK g : Trace(g, N, V, <<b>>, h) /\ g[N] = f[1 .. N]
    BY <1>12, LeftTrace
  <1>19. GrowsBy(g[N], N, P, b, step)
    BY <1>3, <1>8, <1>10, <1>18, Grown DEF V
  <1>20. t = g[N]
    BY <1>1, <1>2, <1>17, <1>18
  <1>21. /\ t \in Seq(P) /\ Len(t) = N + 1 /\ t[1] = b
         /\ \A u \in 1 .. N : t[u + 1] = step[<<u, t[u]>>]
    BY <1>19, <1>20 DEF GrowsBy
  <1>22. ASSUME NEW u \in 1 .. N PROVE Taken(runs, m, t[u], t[u + 1])
    <2>1. t[u] \in P
      BY <1>21
    <2> QED BY <1>9, <1>21, <2>1
  <1> QED BY <1>3, <1>21, <1>22 DEF P, t

\* split_equal() takes every token of the batch once, in order.
LEMMA EqualIs ==
    ASSUME NEW runs, NEW m, NEW lens, IsBatch(runs, m, lens)
    PROVE  \E n, dn : WellSplit(Equal(runs), n, runs, m, dn)
  <1> DEFINE toks == TokensOf(runs)
             N == Len(toks)
             done == Splits(runs)
             all == Lengths(runs)
             K == {v \in DOMAIN toks : done[v] # all}
             n == Cardinality(K)
             ubs == Equal(runs)
             dn == [u \in 1 .. n + 1 |-> done[u]]
  <1>1. ubs = [u \in 1 .. n |->
                [s \in {StreamOf(runs[r].seq) : r \in EqualGroup(runs, done[u])} |->
                    Part(runs, s, done[u], done[u + 1])]]
    BY DEF Equal
  <1>2. m \in {1, 2} /\ DOMAIN runs = 1 .. m
    BY DEF IsBatch
  <1>3. N \in Nat /\ DOMAIN toks = 1 .. N
    <2>1. 1 \in 1 .. m /\ (m = 2 => 2 \in 1 .. m)
      BY <1>2
    <2>2. runs[1].toks \in Seq(Token) /\ (m = 2 => runs[2].toks \in Seq(Token))
      BY <2>1, RunsAre
    <2>3. toks = IF m = 1 THEN runs[1].toks ELSE runs[1].toks \o runs[2].toks
      BY TokensOfIs
    <2> HIDE DEF toks
    <2>4. toks \in Seq(Token)
      BY <1>2, <2>2, <2>3
    <2> QED BY <2>4
  <1>4. /\ done \in Seq(Progress(runs, m)) /\ Len(done) = N + 1
        /\ done[1] = [r \in 1 .. m |-> 0]
        /\ \A u \in 1 .. N : Taken(runs, m, done[u], done[u + 1])
    <2> HIDE DEF N
    <2>1. DOMAIN TokensOf(runs) = 1 .. N
      BY <1>3
    <2> QED BY <1>3, <2>1, SplitsAre
  <1> HIDE DEF N, toks, done, all
  <1>5. K \subseteq 1 .. N
    BY <1>3
  <1>6. ASSUME NEW v \in K, v # 1 PROVE v - 1 \in K
    <2>1. v \in 1 .. N /\ v - 1 \in 1 .. N /\ (v - 1) + 1 = v
      BY <1>3, <1>5, <1>6
    <2>2. Taken(runs, m, done[v - 1], done[v])
      BY <1>4, <2>1
    <2>3. done[v - 1] # all
      BY <2>2 DEF Taken, all
    <2> QED BY <1>3, <2>1, <2>3
  <1> HIDE DEF K
  <1>7. n \in Nat /\ n <= N /\ K = 1 .. n
    BY <1>3, <1>5, <1>6, PrefixIs
  <1> HIDE DEF n
  <1>8. \A u \in 1 .. n + 1 : u \in 1 .. N + 1 /\ done[u] \in Progress(runs, m) /\ dn[u] = done[u]
    BY <1>3, <1>4, <1>7
  <1>9. dn \in [1 .. n + 1 -> Progress(runs, m)]
    BY <1>8
  <1>10. ASSUME NEW u \in 1 .. n PROVE PartedBy(ubs[u], runs, m, dn[u], dn[u + 1])
    <2>1. /\ u \in 1 .. n + 1 /\ u + 1 \in 1 .. n + 1 /\ u \in 1 .. N /\ u \in K
      BY <1>3, <1>7
    <2>2. dn[u] = done[u] /\ dn[u + 1] = done[u + 1]
      BY <1>8, <2>1
    <2>3. Taken(runs, m, done[u], done[u + 1]) /\ done[u] # all
      BY <1>4, <2>1 DEF K
    <2>4. ubs[u] = [s \in {StreamOf(runs[r].seq) : r \in EqualGroup(runs, done[u])} |->
                       Part(runs, s, done[u], done[u + 1])]
      BY <1>1
    <2> HIDE DEF ubs, dn
    <2>5. /\ done[u + 1] \in Progress(runs, m) /\ done[u] \in Progress(runs, m)
          /\ Ahead(done[u], done[u + 1], m)
          /\ EqualGroup(runs, done[u]) = {r \in 1 .. m : done[u][r] < done[u + 1][r]}
          /\ \E r \in 1 .. m : done[u][r] < done[u + 1][r]
      BY <1>8, <2>1, <2>3 DEF Taken, all
    <2>6. /\ DOMAIN ubs[u] = {StreamOf(runs[r].seq) : r \in {x \in 1 .. m : done[u][x] < done[u + 1][x]}}
          /\ \A s \in DOMAIN ubs[u] : ubs[u][s] = Part(runs, s, done[u], done[u + 1])
      BY <2>4, <2>5
    <2> QED BY <2>2, <2>5, <2>6 DEF PartedBy
  <1>11. ASSUME NEW r \in 1 .. m PROVE dn[1][r] = 0
    <2>1. dn[1] = done[1]
      BY <1>7, <1>8
    <2> QED BY <1>4, <2>1
  <1>12. DOMAIN ubs = 1 .. n
    BY <1>1
  <1> HIDE DEF dn, ubs
  <1>13. WellSplit(ubs, n, runs, m, dn)
    BY <1>7, <1>9, <1>10, <1>11, <1>12 DEF WellSplit
  <1> QED BY <1>13 DEF ubs

-----------------------------------------------------------------------------
(* The plan of a batch.                                                    *)

\* What is back at what is back is back.
LEMMA BackTwice ==
    ASSUME NEW c, NEW d, NEW e, Back(d, c), Back(e, d)
    PROVE  Back(e, c)
  <1>1. Within(e, c)
    BY DEF Back, Within
  <1>2. mode # "swa" => Equals(e, c)
    BY DEF Back, Equals
  <1> QED BY <1>1, <1>2 DEF Back

\* d is c with n cells of idxs, which were empty, filled.
FreshFill(c, d, idxs, toks, n) ==
    /\ d \in Good /\ d.has_shift = c.has_shift
    /\ \A j \in 1 .. n : At(d, idxs[j], toks[j].pos, {toks[j].seq})
    /\ \A i \in Idx : (\A j \in 1 .. n : idxs[j] # i) => At(d, i, c.pos[i], c.seq[i])

\* Empty cells that are filled purge nothing.
LEMMA FreshIs ==
    ASSUME NEW c \in Good, NEW n \in Nat, NEW idxs, SlotOf(idxs, n), NEW toks \in [1 .. n -> Token],
           NEW d, RefilledSome(c, d, idxs, toks, n), \A j \in 1 .. n : c.pos[idxs[j]] = -1
    PROVE  FreshFill(c, d, idxs, toks, n)
  <1>1. PICK rm : Refilled(c, d, idxs, toks, n, rm)
    BY DEF RefilledSome
  <1>2. \A i \in Idx : /\ c.pos[i] \in -1 .. MaxLen - 1 /\ c.seq[i] \in SUBSET Seqs
                       /\ (c.pos[i] # -1) <=> (c.seq[i] # {})
    BY GoodType
  <1>3. \A j \in 1 .. n : idxs[j] \in Idx /\ c.seq[idxs[j]] = {}
    BY <1>2 DEF SlotOf
  <1>4. \A q \in Seqs : rm[q] = -1
    BY <1>1, <1>3 DEF Refilled, Overwritten
  <1>5. ASSUME NEW j \in 1 .. n
        PROVE  At(d, idxs[j], toks[j].pos, {toks[j].seq})
    <2>1. toks[j] \in Token
      OBVIOUS
    <2>2. toks[j].seq \in Seqs /\ toks[j].pos \in 0 .. MaxLen - 1
      BY <2>1 DEF Token
    <2>3. LeftAt(d, idxs[j], toks[j].pos, {toks[j].seq}, rm)
      BY <1>1 DEF Refilled
    <2>4. rm[toks[j].seq] < toks[j].pos
      BY <1>4, <2>2
    <2> QED BY <2>3, <2>4 DEF LeftAt, At
  <1>6. ASSUME NEW i \in Idx, \A j \in 1 .. n : idxs[j] # i
        PROVE  At(d, i, c.pos[i], c.seq[i])
    <2>1. LeftAt(d, i, c.pos[i], c.seq[i], rm)
      BY <1>1, <1>6 DEF Refilled
    <2>2. \A q \in c.seq[i] : rm[q] < c.pos[i]
      BY <1>2, <1>4
    <2>3. d.seq[i] = c.seq[i]
      BY <2>1, <2>2 DEF LeftAt
    <2> QED BY <1>2, <2>1, <2>3 DEF LeftAt, At
  <1> QED BY <1>1, <1>5, <1>6 DEF Refilled, FreshFill

\* The tokens of a micro batch as functions.
LEMMA UBatchType ==
    ASSUME NEW ub, IsUBatch(ub), NEW s \in DOMAIN ub
    PROVE  /\ s \in Streams /\ s \in Seqs /\ Len(ub[s]) \in Nat \ {0}
           /\ ub[s] \in [1 .. Len(ub[s]) -> Token] /\ ub[s] \in Seq(Token)
  <1>1. ub[s] \in Seq(Token) /\ Len(ub[s]) # 0 /\ s \in Streams
    BY DEF IsUBatch
  <1> QED BY <1>1, StreamsAre

\* An attempt without a window takes empty cells only.
TakesEmpty(a, b, ub) ==
    /\ \A s \in DOMAIN ub : \A j \in 1 .. Len(ub[s]) :
          /\ b.slot[s][j] \in Idx
          /\ a.cells[s].pos[b.slot[s][j]] = -1
          /\ b.cells[s].pos[b.slot[s][j]] # -1
    /\ \A s \in Streams, i \in Idx : b.cells[s].pos[i] = -1 => a.cells[s].pos[i] = -1

\* Without a window a step of prepare() fills empty cells only.
LEMMA StepTakesEmpty ==
    ASSUME mode # "swa", NEW a \in Stage, NEW b, NEW ub, IsUBatch(ub), StageStep(a, b, ub), b.ok
    PROVE  TakesEmpty(a, b, ub)
  <1>1. UsableSlot(a.cells, b.slot, ub) /\ AppliedTo(a.cells, b.cells, ub, b.slot)
    BY DEF StageStep
  <1>2. a.cells \in Caches
    BY DEF Stage
  <1>3. ASSUME NEW s \in DOMAIN ub
        PROVE  /\ \A j \in 1 .. Len(ub[s]) : b.slot[s][j] \in Idx /\ a.cells[s].pos[b.slot[s][j]] = -1
               /\ FreshFill(a.cells[s], b.cells[s], b.slot[s], ub[s], Len(ub[s]))
    <2>1. \A j \in 1 .. Len(ub[s]) : b.slot[s][j] \in Usable(a.cells[s])
      BY <1>1 DEF UsableSlot
    <2>2. \A j \in 1 .. Len(ub[s]) : b.slot[s][j] \in Idx /\ a.cells[s].pos[b.slot[s][j]] = -1
      BY <2>1, UsableIsEmpty
    <2>3. SlotOf(b.slot[s], Len(ub[s]))
      BY <1>1 DEF UsableSlot, IsSlot
    <2>4. RefilledSome(a.cells[s], b.cells[s], b.slot[s], ub[s], Len(ub[s]))
      BY <1>1 DEF AppliedTo
    <2>5. a.cells[s] \in Good
      BY <1>2, UBatchType DEF Caches
    <2>6. Len(ub[s]) \in Nat /\ ub[s] \in [1 .. Len(ub[s]) -> Token]
      BY UBatchType
    <2>7. FreshFill(a.cells[s], b.cells[s], b.slot[s], ub[s], Len(ub[s]))
      BY <2>2, <2>3, <2>4, <2>5, <2>6, FreshIs
    <2> QED BY <2>2, <2>7
  <1>4. ASSUME NEW s \in DOMAIN ub, NEW j \in 1 .. Len(ub[s])
        PROVE  b.cells[s].pos[b.slot[s][j]] # -1
    <2>1. ub[s][j] \in Token
      BY UBatchType
    <2>2. ub[s][j].pos \in 0 .. MaxLen - 1
      BY <2>1 DEF Token
    <2>3. At(b.cells[s], b.slot[s][j], ub[s][j].pos, {ub[s][j].seq})
      BY <1>3 DEF FreshFill
    <2> QED BY <2>2, <2>3 DEF At
  <1>5. ASSUME NEW s \in Streams, NEW i \in Idx, b.cells[s].pos[i] = -1
        PROVE  a.cells[s].pos[i] = -1
    <2>1. CASE s \notin DOMAIN ub
      BY <1>1, <1>5, <2>1 DEF AppliedTo
    <2>2. CASE s \in DOMAIN ub
      <3>1. \A j \in 1 .. Len(ub[s]) : b.slot[s][j] # i
        BY <1>4, <1>5, <2>2
      <3>2. At(b.cells[s], i, a.cells[s].pos[i], a.cells[s].seq[i])
        BY <1>3, <2>2, <3>1 DEF FreshFill
      <3> QED BY <1>5, <3>2 DEF At
    <2> QED BY <2>1, <2>2
  <1> QED BY <1>3, <1>4, <1>5 DEF TakesEmpty

\* A successful search was successful at every step.
LEMMA StagesOk ==
    ASSUME NEW t, NEW cs, NEW hs, NEW ubs, NEW n \in Nat, Stages(t, cs, hs, ubs, n), t[n + 1].ok
    PROVE  \A u \in 1 .. n + 1 : t[u].ok /\ t[u] \in Stage
  <1> DEFINE W == {k \in 1 .. n + 1 : \A v \in k .. n + 1 : t[v].ok}
  <1>1. n + 1 \in W
    OBVIOUS
  <1>2. \A k \in 1 .. n : k + 1 \in W => k \in W
    <2> SUFFICES ASSUME NEW k \in 1 .. n, k + 1 \in W
                 PROVE  k \in W
      OBVIOUS
    <2>1. StageStep(t[k], t[k + 1], ubs[k])
      BY DEF Stages
    <2>2. t[k + 1].ok
      OBVIOUS
    <2>3. t[k].ok
      BY <2>1, <2>2 DEF StageStep
    <2>4. \A v \in k .. n + 1 : v = k \/ v \in k + 1 .. n + 1
      OBVIOUS
    <2> QED BY <2>3, <2>4
  <1> HIDE DEF W
  <1>3. 1 \in W
    BY <1>1, <1>2, DownInduct
  <1>4. \A u \in 1 .. n + 1 : t[u].ok
    BY <1>3 DEF W
  <1>5. \A u \in 1 .. n + 1 : t[u] \in Stage
    BY DEF Stages
  <1> QED BY <1>4, <1>5

\* What is empty after a step of the search was so before it.
StaysEmpty(a, b) == \A s \in Streams, i \in Idx : b.cells[s].pos[i] = -1 => a.cells[s].pos[i] = -1

\* Without a window no step of prepare() takes a token of an earlier one.
LEMMA StagesEmpty ==
    ASSUME mode # "swa", NEW t, NEW cs, NEW hs, NEW ubs, NEW n \in Nat, UBatches(ubs, n),
           Stages(t, cs, hs, ubs, n), t[n + 1].ok, NEW u \in 1 .. n + 1, NEW v \in u .. n + 1
    PROVE  StaysEmpty(t[u], t[v])
  <1>1. \A k \in 1 .. v - 1 : StaysEmpty(t[k], t[k + 1])
    <2> TAKE k \in 1 .. v - 1
    <2>1. k \in 1 .. n /\ k \in 1 .. n + 1 /\ k + 1 \in 1 .. n + 1
      OBVIOUS
    <2>2. t[k] \in Stage /\ t[k + 1].ok
      BY <2>1, StagesOk
    <2>3. StageStep(t[k], t[k + 1], ubs[k]) /\ IsUBatch(ubs[k])
      BY <2>1 DEF Stages, UBatches
    <2>4. TakesEmpty(t[k], t[k + 1], ubs[k])
      BY <2>2, <2>3, StepTakesEmpty
    <2> QED BY <2>4 DEF TakesEmpty, StaysEmpty
  <1> DEFINE Y == {k \in 1 .. v : StaysEmpty(t[k], t[v])}
  <1>2. v - 1 \in Nat /\ v - 1 + 1 = v
    OBVIOUS
  <1>3. v - 1 + 1 \in Y
    BY DEF StaysEmpty
  <1>4. \A k \in 1 .. v - 1 : k + 1 \in Y => k \in Y
    <2> SUFFICES ASSUME NEW k \in 1 .. v - 1, k + 1 \in Y
                 PROVE  k \in Y
      OBVIOUS
    <2>1. StaysEmpty(t[k], t[k + 1]) /\ StaysEmpty(t[k + 1], t[v])
      BY <1>1
    <2>2. StaysEmpty(t[k], t[v])
      BY <2>1 DEF StaysEmpty
    <2> QED BY <2>2
  <1> DEFINE Z == {k \in 1 .. v : \A x \in k .. v : x \in Y}
  <1>5. v - 1 + 1 \in Z
    BY <1>3
  <1>6. \A k \in 1 .. v - 1 : k + 1 \in Z => k \in Z
    <2> SUFFICES ASSUME NEW k \in 1 .. v - 1, k + 1 \in Z
                 PROVE  k \in Z
      OBVIOUS
    <2>1. k + 1 \in Y
      OBVIOUS
    <2>2. k \in Y
      BY <1>4, <2>1
    <2>3. \A x \in k .. v : x = k \/ x \in k + 1 .. v
      OBVIOUS
    <2> HIDE DEF Y
    <2> QED BY <2>2, <2>3
  <1> HIDE DEF Z
  <1>7. 1 \in Z
    BY <1>2, <1>5, <1>6, DownInduct
  <1> QED BY <1>7 DEF Z

\* The slots of a plan are empty, and apart from each other.
FreeSlots(p, cs) ==
    /\ \A u \in 1 .. Len(p) : \A s \in DOMAIN p[u].ub : \A j \in 1 .. Len(p[u].ub[s]) :
          cs[s].pos[p[u].slot[s][j]] = -1
    /\ \A u \in 1 .. Len(p) : \A v \in u + 1 .. Len(p) :
          \A s \in DOMAIN p[u].ub : s \in DOMAIN p[v].ub =>
              \A j \in 1 .. Len(p[u].ub[s]), k \in 1 .. Len(p[v].ub[s]) :
                  p[u].slot[s][j] # p[v].slot[s][k]

\* The plan after a successful search.
PlanFrom(p, t, ubs, n) ==
    /\ \E S : p \in Seq(S)
    /\ Len(p) = n /\ \A u \in 1 .. n : p[u].ub = ubs[u] /\ p[u].slot = t[u + 1].slot

\* Without a window the slots of a plan are empty and different.
LEMMA StagesFree ==
    ASSUME mode # "swa", NEW t, NEW cs, NEW hs, NEW ubs, NEW n \in Nat, UBatches(ubs, n),
           Stages(t, cs, hs, ubs, n), t[n + 1].ok, NEW p, PlanFrom(p, t, ubs, n)
    PROVE  FreeSlots(p, cs)
  <1>1. \A u \in 1 .. n : TakesEmpty(t[u], t[u + 1], ubs[u])
    <2> TAKE u \in 1 .. n
    <2>1. t[u] \in Stage /\ t[u + 1].ok
      BY StagesOk
    <2>2. StageStep(t[u], t[u + 1], ubs[u]) /\ IsUBatch(ubs[u])
      BY DEF Stages, UBatches
    <2> QED BY <2>1, <2>2, StepTakesEmpty
  <1>2. t[1].cells = cs
    BY DEF Stages
  <1>3. Len(p) = n /\ \A u \in 1 .. n : p[u].ub = ubs[u] /\ p[u].slot = t[u + 1].slot
    BY DEF PlanFrom
  <1>4. \A u \in 1 .. n : \A s \in DOMAIN ubs[u] : s \in Streams
    BY DEF UBatches, IsUBatch
  <1>5. ASSUME NEW u \in 1 .. n, NEW s \in DOMAIN ubs[u], NEW j \in 1 .. Len(ubs[u][s])
        PROVE  cs[s].pos[t[u + 1].slot[s][j]] = -1
    <2>1. t[u + 1].slot[s][j] \in Idx /\ t[u].cells[s].pos[t[u + 1].slot[s][j]] = -1
      BY <1>1 DEF TakesEmpty
    <2>2. 1 \in 1 .. n + 1 /\ u \in 1 .. n + 1
      OBVIOUS
    <2>3. StaysEmpty(t[1], t[u])
      BY <2>2, StagesEmpty
    <2> QED BY <1>2, <1>4, <2>1, <2>3 DEF StaysEmpty
  <1>6. ASSUME NEW u \in 1 .. n, NEW v \in u + 1 .. n, NEW s \in DOMAIN ubs[u], s \in DOMAIN ubs[v],
               NEW j \in 1 .. Len(ubs[u][s]), NEW k \in 1 .. Len(ubs[v][s]),
               t[u + 1].slot[s][j] = t[v + 1].slot[s][k]
        PROVE  FALSE
    <2>1. v \in 1 .. n /\ u + 1 \in 1 .. n + 1 /\ v \in u + 1 .. n + 1
      OBVIOUS
    <2>2. t[v + 1].slot[s][k] \in Idx /\ t[v].cells[s].pos[t[v + 1].slot[s][k]] = -1
      BY <1>1, <1>6, <2>1 DEF TakesEmpty
    <2>3. t[u + 1].cells[s].pos[t[u + 1].slot[s][j]] # -1
      BY <1>1 DEF TakesEmpty
    <2>4. StaysEmpty(t[u + 1], t[v])
      BY <2>1, StagesEmpty
    <2> QED BY <1>4, <1>6, <2>2, <2>3, <2>4 DEF StaysEmpty
  <1>7. \A u \in 1 .. Len(p) : \A s \in DOMAIN p[u].ub : \A j \in 1 .. Len(p[u].ub[s]) :
           cs[s].pos[p[u].slot[s][j]] = -1
    <2> TAKE u \in 1 .. Len(p)
    <2>1. u \in 1 .. n /\ p[u].ub = ubs[u] /\ p[u].slot = t[u + 1].slot
      BY <1>3
    <2> QED BY <1>5, <2>1
  <1>8. ASSUME NEW u \in 1 .. Len(p), NEW v \in u + 1 .. Len(p), NEW s \in DOMAIN p[u].ub,
               s \in DOMAIN p[v].ub,
               NEW j \in 1 .. Len(p[u].ub[s]), NEW k \in 1 .. Len(p[v].ub[s])
        PROVE  p[u].slot[s][j] # p[v].slot[s][k]
    <2>1. u \in 1 .. n /\ p[u].ub = ubs[u] /\ p[u].slot = t[u + 1].slot
      BY <1>3
    <2>2. v \in 1 .. n /\ v \in u + 1 .. n /\ p[v].ub = ubs[v] /\ p[v].slot = t[v + 1].slot
      BY <1>3
    <2> QED BY <1>6, <1>8, <2>1, <2>2
  <1> QED BY <1>7, <1>8 DEF FreeSlots

\* A plan is for sequences that are base[1] long; each micro batch takes them
\* from base[u] to base[u + 1].
PlanOf(p, base) ==
    /\ \E S : p \in Seq(S)
    /\ base \in [1 .. Len(p) + 1 -> Lens]
    /\ \A u \in 1 .. Len(p) : /\ IsUBatch(p[u].ub) /\ IsSlot(p[u].slot, p[u].ub)
                              /\ Takes(p[u].ub, base[u], base[u + 1])
PlanFor(p, lens) == \E base : PlanOf(p, base) /\ base[1] = lens

\* Nothing is left to do in an empty plan.
LEMMA NoPlan ==
    ASSUME NEW lens \in Lens
    PROVE  PlanFor(<<>>, lens)
  <1> DEFINE base == [u \in 1 .. 1 |-> lens]
  <1>1. Len(<<>>) = 0 /\ <<>> \in Seq({})
    OBVIOUS
  <1>2. base \in [1 .. Len(<<>>) + 1 -> Lens] /\ base[1] = lens
    BY <1>1
  <1> HIDE DEF base
  <1>3. PlanOf(<<>>, base)
    BY <1>1, <1>2 DEF PlanOf
  <1> QED BY <1>2, <1>3 DEF PlanFor

\* The micro batches of a good split.
LEMMA WellSplitIs ==
    ASSUME NEW runs, NEW m, NEW lens, IsBatch(runs, m, lens), NEW ubs, NEW n, NEW dn,
           WellSplit(ubs, n, runs, m, dn)
    PROVE  UBatches(ubs, n)
  <1> SUFFICES ASSUME NEW u \in 1 .. n PROVE IsUBatch(ubs[u])
    BY DEF WellSplit, UBatches
  <1>1. PartedBy(ubs[u], runs, m, dn[u], dn[u + 1])
    BY DEF WellSplit
  <1> QED BY <1>1, PartedIs

\* The slots of a batch that found its room are a plan: its micro batches continue
\* the sequences, one after the other.
LEMMA SplitPlan ==
    ASSUME NEW runs, NEW m, NEW lens, IsBatch(runs, m, lens), NEW ubs, NEW n, NEW dn,
           WellSplit(ubs, n, runs, m, dn), NEW t, NEW cs, NEW hs, Stages(t, cs, hs, ubs, n), t[n + 1].ok,
           NEW p, PlanFrom(p, t, ubs, n)
    PROVE  PlanFor(p, lens)
  <1> DEFINE base == [u \in 1 .. n + 1 |-> EndsAt(runs, m, dn[u], lens)]
  <1>1. n \in Nat /\ Len(p) = n /\ \A u \in 1 .. n : p[u].ub = ubs[u] /\ p[u].slot = t[u + 1].slot
    BY DEF WellSplit, PlanFrom
  <1>2. \A u \in 1 .. n + 1 : dn[u] \in Progress(runs, m)
    BY DEF WellSplit
  <1>3. \A u \in 1 .. n + 1 : EndsAt(runs, m, dn[u], lens) \in Lens
    BY <1>2, EndsAtIs
  <1>4. base \in [1 .. n + 1 -> Lens] /\ \A u \in 1 .. n + 1 : base[u] = EndsAt(runs, m, dn[u], lens)
    BY <1>3
  <1>5. base[1] = lens
    <2>1. base[1] = EndsAt(runs, m, dn[1], lens)
      BY <1>1, <1>4
    <2>2. m \in {1, 2} /\ lens \in Lens /\ \A r \in 1 .. m : dn[1][r] = 0
      BY DEF WellSplit, IsBatch
    <2>3. dn[1][1] = 0 /\ (m = 2 => dn[1][2] = 0)
      BY <2>2
    <2>4. \A q \in Seqs : lens[q] + 0 = lens[q]
      BY <2>2 DEF Lens
    <2>5. EndsAt(runs, m, dn[1], lens) = [q \in Seqs |-> lens[q]]
      BY <2>3, <2>4 DEF EndsAt
    <2> QED BY <2>1, <2>2, <2>5 DEF Lens
  <1> HIDE DEF base
  <1>6. ASSUME NEW u \in 1 .. n
        PROVE  IsUBatch(ubs[u]) /\ IsSlot(t[u + 1].slot, ubs[u]) /\ Takes(ubs[u], base[u], base[u + 1])
    <2>1. PartedBy(ubs[u], runs, m, dn[u], dn[u + 1])
      BY DEF WellSplit
    <2>2. IsUBatch(ubs[u]) /\ Takes(ubs[u], EndsAt(runs, m, dn[u], lens), EndsAt(runs, m, dn[u + 1], lens))
      BY <2>1, PartedIs
    <2>3. u \in 1 .. n + 1 /\ u + 1 \in 1 .. n + 1
      BY <1>1
    <2>4. t[u + 1].ok
      BY <1>1, <2>3, StagesOk
    <2>5. UsableSlot(t[u].cells, t[u + 1].slot, ubs[u])
      BY <2>4 DEF Stages, StageStep
    <2> QED BY <1>4, <2>2, <2>3, <2>5 DEF UsableSlot
  <1>7. PlanOf(p, base)
    BY <1>1, <1>4, <1>6 DEF PlanOf, PlanFrom
  <1> QED BY <1>5, <1>7 DEF PlanFor

-----------------------------------------------------------------------------
(* Room for a batch.                                                       *)

\* The counted positions of a sequence are those of its cells.
LEMMA HeldIs ==
    ASSUME NEW c \in Good, NEW q \in Seqs
    PROVE  /\ SeqPosSet(c, q) \subseteq 0 .. MaxLen
           /\ \A i \in Idx : q \in c.seq[i] => c.pos[i] \in SeqPosSet(c, q)
           /\ \A p \in SeqPosSet(c, q) : \E i \in Idx : q \in c.seq[i] /\ c.pos[i] = p
  <1>1. \A p \in 0 .. MaxLen : c.seq_pos[q][p] = Cardinality(Holders(c, q, p))
    BY DEF Good, Counted
  <1>2. \A p : IsFiniteSet(Holders(c, q, p)) /\ Cardinality(Holders(c, q, p)) \in Nat
    <2> TAKE p
    <2>1. Holders(c, q, p) \subseteq Idx
      BY DEF Holders
    <2> QED BY <2>1, Finite, FS_Subset, FS_CardinalityType
  <1>3. \A p : Cardinality(Holders(c, q, p)) = 0 <=> Holders(c, q, p) = {}
    BY <1>2, FS_EmptySet
  <1>4. ASSUME NEW i \in Idx, q \in c.seq[i]
        PROVE  c.pos[i] \in SeqPosSet(c, q)
    <2>1. c.pos[i] \in 0 .. MaxLen
      BY <1>4, GoodType, Consts
    <2>2. i \in Holders(c, q, c.pos[i])
      BY <1>4 DEF Holders
    <2>3. c.seq_pos[q][c.pos[i]] > 0
      BY <1>1, <1>2, <1>3, <2>1, <2>2
    <2> QED BY <2>1, <2>3 DEF SeqPosSet
  <1>5. ASSUME NEW p \in SeqPosSet(c, q)
        PROVE  \E i \in Idx : q \in c.seq[i] /\ c.pos[i] = p
    <2>1. p \in 0 .. MaxLen /\ c.seq_pos[q][p] > 0
      BY DEF SeqPosSet
    <2>2. Holders(c, q, p) # {}
      BY <1>1, <1>3, <2>1
    <2> QED BY <2>2 DEF Holders
  <1>6. SeqPosSet(c, q) \subseteq 0 .. MaxLen
    BY DEF SeqPosSet
  <1> QED BY <1>4, <1>5, <1>6

\* The last position of a sequence.
LEMMA LastIs ==
    ASSUME NEW c \in Good, NEW q \in Seqs, NEW x \in Idx, q \in c.seq[x]
    PROVE  /\ SeqPosMax(c, q) \in 0 .. MaxLen /\ c.pos[x] <= SeqPosMax(c, q)
           /\ \E i \in Idx : q \in c.seq[i] /\ c.pos[i] = SeqPosMax(c, q)
  <1> DEFINE S == SeqPosSet(c, q)
  <1>1. S \subseteq 0 .. MaxLen /\ c.pos[x] \in S /\ \A p \in S : \E i \in Idx : q \in c.seq[i] /\ c.pos[i] = p
    BY HeldIs
  <1> HIDE DEF S
  <1>2. Max(S) \in S /\ \A y \in S : y <= Max(S)
    <2>1. S \subseteq Int /\ S # {} /\ MaxLen \in Int /\ \A y \in S : y <= MaxLen
      BY <1>1, Consts
    <2> QED BY <2>1, MaxIs
  <1>3. SeqPosMax(c, q) = Max(S)
    BY <1>1 DEF SeqPosMax, S
  <1> QED BY <1>1, <1>2, <1>3

\* A cell that was usable and is not in the slot stays so when the slot is filled.
LEMMA UsableStays ==
    ASSUME NEW c \in Good, NEW n \in Nat, NEW idxs, SlotOf(idxs, n),
           \A j \in 1 .. n : idxs[j] \in Usable(c),
           NEW toks, NEW d, RefilledSome(c, d, idxs, toks, n),
           NEW i \in Usable(c), \A j \in 1 .. n : idxs[j] # i
    PROVE  i \in Usable(d)
  <1>1. PICK rm : Refilled(c, d, idxs, toks, n, rm)
    BY DEF RefilledSome
  <1>2. d \in Good /\ rm \in [Seqs -> -1 .. MaxLen - 1] /\ Overwritten(c, idxs, n, rm) /\ i \in Idx
    BY <1>1 DEF Refilled, Usable
  <1>3. LeftAt(d, i, c.pos[i], c.seq[i], rm)
    BY <1>1, <1>2 DEF Refilled
  <1>4. CASE d.seq[i] = {}
    BY <1>2, <1>3, <1>4 DEF LeftAt, Usable, CanUse
  <1>5. CASE d.seq[i] # {}
    <2>1. c.pos[i] # -1
      BY <1>2, <1>3, <1>5, GoodType DEF LeftAt
    <2>2. PICK q \in Seqs : c.seq[i] = {q} /\ Masked(c.pos[i], SeqPosMax(c, q) + 1)
      BY <2>1 DEF Usable, CanUse
    <2>3. d.seq[i] = {q} /\ d.pos[i] = c.pos[i] /\ rm[q] < c.pos[i]
      BY <1>3, <1>5, <2>2 DEF LeftAt
    <2>4. PICK x \in Idx : q \in c.seq[x] /\ c.pos[x] = SeqPosMax(c, q)
      BY <1>2, <2>2, LastIs
    <2>5. SeqPosMax(c, q) \in 0 .. MaxLen /\ c.pos[i] <= SeqPosMax(c, q)
      BY <1>2, <2>2, LastIs
    <2>6. c.pos[i] \in Int /\ rm[q] \in Int
      BY <1>2, GoodType
    <2>7. \A j \in 1 .. n : idxs[j] # x
      <3> SUFFICES ASSUME NEW j \in 1 .. n, idxs[j] = x
                   PROVE  FALSE
        OBVIOUS
      <3>1. x \in Usable(c)
        OBVIOUS
      <3>2. c.pos[x] # -1
        BY <2>4, GoodType
      <3>3. c.seq[x] = {q}
        BY <2>4, <3>1, <3>2 DEF Usable, CanUse
      <3>4. rm[q] >= c.pos[x]
        BY <1>2, <3>3 DEF Overwritten
      <3> QED BY <2>3, <2>4, <2>5, <2>6, <3>4
    <2>8. LeftAt(d, x, c.pos[x], c.seq[x], rm)
      BY <1>1, <2>7 DEF Refilled
    <2>9. q \in d.seq[x] /\ d.pos[x] = SeqPosMax(c, q)
      <3>1. rm[q] < c.pos[x]
        BY <2>3, <2>4, <2>5, <2>6
      <3>2. q \in d.seq[x]
        BY <2>4, <2>8, <3>1 DEF LeftAt
      <3> QED BY <2>4, <2>8, <3>2 DEF LeftAt
    <2>10. SeqPosMax(d, q) \in 0 .. MaxLen /\ SeqPosMax(c, q) <= SeqPosMax(d, q)
      BY <1>2, <2>9, LastIs
    <2>11. Masked(c.pos[i], SeqPosMax(d, q) + 1)
      BY <2>2, <2>5, <2>6, <2>10, Consts DEF Masked
    <2> QED BY <1>2, <2>3, <2>11 DEF Usable, CanUse
  <1> QED BY <1>4, <1>5

\* There are finitely many usable cells.
LEMMA UsableFinite ==
    ASSUME NEW c
    PROVE  IsFiniteSet(Usable(c)) /\ Cardinality(Usable(c)) \in Nat
  <1>1. Usable(c) \subseteq Idx
    BY DEF Usable
  <1> QED BY <1>1, Finite, FS_Subset, FS_CardinalityType

\* Filling a slot costs as many usable cells as it has.
LEMMA RoomStays ==
    ASSUME NEW c \in Good, NEW n \in Nat, NEW idxs, SlotOf(idxs, n),
           \A j \in 1 .. n : idxs[j] \in Usable(c),
           NEW toks, NEW d, RefilledSome(c, d, idxs, toks, n)
    PROVE  Cardinality(Usable(c)) <= Cardinality(Usable(d)) + n
  <1> DEFINE X == {idxs[j] : j \in 1 .. n}
             f == [x \in X |-> CHOOSE j \in 1 .. n : idxs[j] = x]
  <1>1. IsFiniteSet(1 .. n) /\ Cardinality(1 .. n) = n
    BY FS_Interval
  <1>2. IsFiniteSet(X)
    BY Finite, FS_Subset DEF SlotOf
  <1>3. \A x \in X : f[x] \in 1 .. n /\ idxs[f[x]] = x
    OBVIOUS
  <1>4. f \in [X -> 1 .. n]
    BY <1>3
  <1>5. \A x, y \in X : f[x] = f[y] => x = y
    BY <1>3
  <1>6. \A i \in Usable(c) : i \in Usable(d) \cup X
    <2> TAKE i \in Usable(c)
    <2>1. (\A j \in 1 .. n : idxs[j] # i) => i \in Usable(d)
      BY UsableStays
    <2> QED BY <2>1
  <1> HIDE DEF f, X
  <1>7. Cardinality(X) <= n
    BY <1>1, <1>2, <1>4, <1>5, NotSmaller
  <1>8. Cardinality(X) \in Nat
    BY <1>2, FS_CardinalityType
  <1>9. IsFiniteSet(Usable(d)) /\ Cardinality(Usable(d)) \in Nat /\ Cardinality(Usable(c)) \in Nat
    BY UsableFinite
  <1>10. /\ IsFiniteSet(Usable(d) \cup X)
         /\ Cardinality(Usable(d) \cup X)
              = Cardinality(Usable(d)) + Cardinality(X) - Cardinality(Usable(d) \cap X)
    BY <1>2, <1>9, FS_Union
  <1>11. Cardinality(Usable(d) \cap X) \in Nat
    <2>1. IsFiniteSet(Usable(d) \cap X)
      BY <1>9, FS_Subset
    <2> QED BY <2>1, FS_CardinalityType
  <1>12. Cardinality(Usable(c)) <= Cardinality(Usable(d) \cup X)
    <2>1. Usable(c) \subseteq Usable(d) \cup X
      BY <1>6
    <2> QED BY <1>10, <2>1, FS_Subset
  <1> QED BY <1>7, <1>8, <1>9, <1>10, <1>11, <1>12

\* Every stream has usable cells for its tokens of the batch.
Roomy(cs, runs) == \A s \in Streams : Len(TokensFor(runs, s)) <= Cardinality(Usable(cs[s]))

\* The share of a stream grows with the progress.
LEMMA ShareGrows ==
    ASSUME NEW runs, NEW m, NEW lens, IsBatch(runs, m, lens), NEW s,
           NEW d \in Progress(runs, m), NEW e \in Progress(runs, m), Ahead(d, e, m)
    PROVE  /\ Share(runs, m, d, s) \in Nat /\ Share(runs, m, e, s) \in Nat
           /\ Share(runs, m, d, s) <= Share(runs, m, e, s)
  <1>1. m \in {1, 2} /\ d \in [1 .. m -> Nat] /\ e \in [1 .. m -> Nat]
    BY DEF IsBatch, Progress
  <1>2. d[1] \in Nat /\ e[1] \in Nat /\ d[1] <= e[1]
    BY <1>1 DEF Ahead
  <1>3. m = 2 => d[2] \in Nat /\ e[2] \in Nat /\ d[2] <= e[2]
    BY <1>1 DEF Ahead
  <1> QED BY <1>1, <1>2, <1>3 DEF Share

\* What is left of the room after u micro batches.
RoomLeft(cs, t, runs, m, dn, u) ==
    /\ t[u].ok
    /\ \A s \in Streams : Cardinality(Usable(cs[s]))
                            <= Cardinality(Usable(t[u].cells[s])) + Share(runs, m, dn[u], s)

\* A step of prepare() uses up as many cells as it has tokens.
LEMMA RoomStep ==
    ASSUME NEW runs, NEW m, NEW lens, IsBatch(runs, m, lens), NEW ubs, NEW n, NEW dn,
           WellSplit(ubs, n, runs, m, dn), NEW t, NEW cs \in Caches, NEW hs, Stages(t, cs, hs, ubs, n),
           Roomy(cs, runs), NEW u \in 1 .. n, RoomLeft(cs, t, runs, m, dn, u)
    PROVE  RoomLeft(cs, t, runs, m, dn, u + 1)
  <1> DEFINE ub == ubs[u]
             a == t[u]
             b == t[u + 1]
             d == dn[u]
             e == dn[u + 1]
  <1>1. n \in Nat /\ u \in 1 .. n + 1 /\ u + 1 \in 1 .. n + 1
    BY DEF WellSplit
  <1>2. PartedBy(ub, runs, m, d, e)
    BY DEF WellSplit
  <1>3. d \in Progress(runs, m) /\ e \in Progress(runs, m) /\ Ahead(d, e, m)
    BY <1>2 DEF PartedBy
  <1>4. IsUBatch(ub) /\ \A s \in DOMAIN ub : Len(ub[s]) = Share(runs, m, e, s) - Share(runs, m, d, s)
    BY <1>2, PartedIs
  <1>5. StageStep(a, b, ub) /\ a \in Stage
    BY <1>1 DEF Stages
  <1>6. a.ok /\ \A s \in Streams : Cardinality(Usable(cs[s]))
                                     <= Cardinality(Usable(a.cells[s])) + Share(runs, m, d, s)
    BY DEF RoomLeft
  <1> HIDE DEF ub, a, b, d, e
  <1>7. \A s : /\ Share(runs, m, d, s) \in Nat /\ Share(runs, m, e, s) \in Nat
               /\ Share(runs, m, d, s) <= Share(runs, m, e, s)
    BY <1>3, ShareGrows
  <1>8. \A s : Len(TokensFor(runs, s)) \in Nat /\ Share(runs, m, e, s) <= Len(TokensFor(runs, s))
    BY <1>3, TokensForIs
  <1>9. \A c : Cardinality(Usable(c)) \in Nat
    BY UsableFinite
  <1>10. HasRoom(a.cells, ub)
    <2> SUFFICES ASSUME NEW s \in DOMAIN ub PROVE Len(ub[s]) <= Cardinality(Usable(a.cells[s]))
      BY DEF HasRoom
    <2>1. s \in Streams
      BY <1>4, UBatchType
    <2>2. Len(TokensFor(runs, s)) <= Cardinality(Usable(cs[s]))
      BY <2>1 DEF Roomy
    <2> QED BY <1>4, <1>6, <1>7, <1>8, <1>9, <2>1, <2>2
  <1>11. b.ok
    BY <1>5, <1>6, <1>10 DEF StageStep
  <1>12. UsableSlot(a.cells, b.slot, ub) /\ AppliedTo(a.cells, b.cells, ub, b.slot)
    BY <1>5, <1>11 DEF StageStep
  <1>13. ASSUME NEW s \in Streams
         PROVE  Cardinality(Usable(cs[s])) <= Cardinality(Usable(b.cells[s])) + Share(runs, m, e, s)
    <2>1. CASE s \notin DOMAIN ub
      <3>1. b.cells[s] = a.cells[s]
        BY <1>12, <2>1 DEF AppliedTo
      <3> QED BY <1>6, <1>7, <1>9, <3>1
    <2>2. CASE s \in DOMAIN ub
      <3>1. Len(ub[s]) \in Nat
        BY <1>4, <2>2, UBatchType
      <3>2. SlotOf(b.slot[s], Len(ub[s])) /\ \A j \in 1 .. Len(ub[s]) : b.slot[s][j] \in Usable(a.cells[s])
        BY <1>12, <2>2 DEF UsableSlot, IsSlot
      <3>3. RefilledSome(a.cells[s], b.cells[s], b.slot[s], ub[s], Len(ub[s]))
        BY <1>12, <2>2 DEF AppliedTo
      <3>4. a.cells[s] \in Good
        BY <1>5 DEF Stage, Caches
      <3>5. Cardinality(Usable(a.cells[s])) <= Cardinality(Usable(b.cells[s])) + Len(ub[s])
        BY <3>1, <3>2, <3>3, <3>4, RoomStays
      <3> QED BY <1>4, <1>6, <1>7, <1>9, <2>2, <3>5
    <2> QED BY <2>1, <2>2
  <1>14. RoomLeft(cs, t, runs, m, dn, u + 1)
    BY <1>11, <1>13 DEF RoomLeft, b, e
  <1> QED BY <1>14

\* A batch that fits into the usable cells finds a slot in every step.
LEMMA SearchSucceeds ==
    ASSUME NEW runs, NEW m, NEW lens, IsBatch(runs, m, lens), NEW ubs, NEW n, NEW dn,
           WellSplit(ubs, n, runs, m, dn), NEW t, NEW cs \in Caches, NEW hs, Stages(t, cs, hs, ubs, n),
           Roomy(cs, runs)
    PROVE  t[n + 1].ok
  <1> DEFINE W == {k \in 0 .. n : RoomLeft(cs, t, runs, m, dn, k + 1)}
  <1>1. n \in Nat
    BY DEF WellSplit
  <1>2. RoomLeft(cs, t, runs, m, dn, 1)
    <2>1. t[1].ok /\ t[1].cells = cs
      BY DEF Stages
    <2>2. dn[1] \in Progress(runs, m) /\ 1 \in 1 .. n + 1
      BY <1>1 DEF WellSplit
    <2>3. \A s : Share(runs, m, dn[1], s) \in Nat
      BY <2>2, TokensForIs
    <2>4. \A c : Cardinality(Usable(c)) \in Nat
      BY UsableFinite
    <2> QED BY <2>1, <2>3, <2>4 DEF RoomLeft
  <1>3. 0 \in W
    BY <1>1, <1>2
  <1>4. \A k \in 1 .. n : k - 1 \in W => k \in W
    <2> SUFFICES ASSUME NEW k \in 1 .. n, k - 1 \in W PROVE k \in W
      OBVIOUS
    <2>1. RoomLeft(cs, t, runs, m, dn, k - 1 + 1) /\ k - 1 + 1 = k
      BY <1>1
    <2>2. RoomLeft(cs, t, runs, m, dn, k)
      BY <2>1
    <2>3. RoomLeft(cs, t, runs, m, dn, k + 1)
      BY <2>2, RoomStep
    <2> QED BY <1>1, <2>3
  <1> HIDE DEF W
  <1>5. \A k \in 0 .. n : k \in W
    BY <1>1, <1>3, <1>4, IntervalInduct
  <1>6. n \in W
    BY <1>1, <1>5
  <1> QED BY <1>6 DEF W, RoomLeft

\* What an attempt, and init_batch(), answers.
Answered(a, cs, lens) ==
    /\ a.ok \in BOOLEAN /\ a.cells \in Caches /\ a.heads \in Heads
    /\ \A s \in Streams : Back(a.cells[s], cs[s])
    /\ PlanFor(a.plan, lens)
    /\ mode # "swa" => FreeSlots(a.plan, cs)

\* The answer of prepare() for a batch that was split well.
LEMMA AnswerIs ==
    ASSUME NEW runs, NEW m, NEW lens, IsBatch(runs, m, lens), NEW ubs, NEW n, NEW dn,
           WellSplit(ubs, n, runs, m, dn), NEW cs \in Caches, NEW hs \in Heads,
           NEW p, p = Prepared(cs, hs, ubs)
    PROVE  /\ Answered(Answer(p, ubs), cs, lens)
           /\ p.ok \in BOOLEAN /\ p.cells \in Caches /\ p.heads \in Heads
           /\ \A s \in Streams : Back(p.cells[s], cs[s])
           /\ Roomy(cs, runs) => p.ok
  <1> DEFINE t == Attempts(cs, hs, ubs)
             a == Answer(p, ubs)
  <1>1. n \in Nat /\ UBatches(ubs, n) /\ DOMAIN ubs = 1 .. n
    BY WellSplitIs DEF WellSplit
  <1>2. Ready(p, t, cs, hs, ubs, n)
    BY <1>1, PreparedIs
  <1> HIDE DEF t
  <1>3. /\ Stages(t, cs, hs, ubs, n) /\ p.ok = t[n + 1].ok /\ p.ok \in BOOLEAN
        /\ p.slots = [u \in 1 .. n |-> t[u + 1].slot] /\ p.heads \in Heads /\ p.cells \in Caches
        /\ \A s \in Streams : Back(p.cells[s], cs[s])
    BY <1>2 DEF Ready
  <1>4. /\ a.ok = p.ok /\ a.cells = p.cells /\ a.heads = p.heads
        /\ a.plan = IF p.ok THEN [u \in 1 .. n |-> [ub |-> ubs[u], slot |-> p.slots[u]]] ELSE <<>>
    BY <1>1 DEF Answer
  <1> HIDE DEF a
  <1>5. lens \in Lens
    BY DEF IsBatch
  <1>6. CASE p.ok
    <2> DEFINE P == [u \in 1 .. n |-> [ub |-> ubs[u], slot |-> p.slots[u]]]
               S == {P[u] : u \in 1 .. n}
    <2>1. P \in Seq(S) /\ Len(P) = n
      BY <1>1
    <2>2. \A u \in 1 .. n : P[u].ub = ubs[u] /\ P[u].slot = t[u + 1].slot
      BY <1>3
    <2> HIDE DEF P, S
    <2>3. PlanFrom(P, t, ubs, n)
      BY <2>1, <2>2 DEF PlanFrom
    <2>4. PlanFor(P, lens)
      BY <1>3, <1>6, <2>3, SplitPlan
    <2>5. mode # "swa" => FreeSlots(P, cs)
      BY <1>1, <1>3, <1>6, <2>3, StagesFree
    <2>6. a.plan = P
      BY <1>4, <1>6 DEF P
    <2> QED BY <1>3, <1>4, <1>6, <2>4, <2>5, <2>6 DEF Answered, a
  <1>7. CASE ~ p.ok
    <2>1. a.plan = <<>>
      BY <1>4, <1>7
    <2>2. PlanFor(a.plan, lens)
      BY <1>5, <2>1, NoPlan
    <2>3. FreeSlots(a.plan, cs)
      BY <2>1 DEF FreeSlots
    <2>4. Answered(a, cs, lens)
      BY <1>3, <1>4, <2>2, <2>3 DEF Answered
    <2>5. Roomy(cs, runs) => p.ok
      BY <1>3, SearchSucceeds
    <2> QED BY <1>3, <2>4, <2>5 DEF a
  <1> QED BY <1>3, <1>6, <1>7

\* init_batch(): the first split, and with a window the second.
LEMMA InitBatchIs ==
    ASSUME NEW runs, NEW m, NEW lens, IsBatch(runs, m, lens), NEW cs \in Caches, NEW hs \in Heads
    PROVE  /\ Answered(InitBatch(cs, hs, runs), cs, lens)
           /\ Roomy(cs, runs) => InitBatch(cs, hs, runs).ok
  <1> DEFINE ubs == FirstSplit(runs)
             p == Prepared(cs, hs, ubs)
             vbs == Equal(runs)
             r == Prepared(p.cells, p.heads, vbs)
  <1>1. PICK n, dn : WellSplit(ubs, n, runs, m, dn)
    BY SimpleIs, EqualIs DEF FirstSplit
  <1>2. PICK k, en : WellSplit(vbs, k, runs, m, en)
    BY EqualIs
  <1> HIDE DEF ubs, vbs
  <1> HIDE DEF p
  <1>3. /\ Answered(Answer(p, ubs), cs, lens)
        /\ p.ok \in BOOLEAN /\ p.cells \in Caches /\ p.heads \in Heads
        /\ \A s \in Streams : Back(p.cells[s], cs[s])
        /\ Roomy(cs, runs) => p.ok
    <2>1. p = Prepared(cs, hs, ubs)
      BY DEF p
    <2> QED BY <1>1, <2>1, AnswerIs
  <1>4. InitBatch(cs, hs, runs) = IF p.ok \/ mode # "swa" THEN Answer(p, ubs) ELSE Answer(r, vbs)
    BY DEF InitBatch, SecondAttempt, p, ubs, vbs
  <1> HIDE DEF r
  <1>5. CASE p.ok \/ mode # "swa"
    <2>1. p.ok => Answer(p, ubs).ok
      BY DEF Answer
    <2> QED BY <1>3, <1>4, <1>5, <2>1
  <1>6. CASE ~ (p.ok \/ mode # "swa")
    <2>1. r = Prepared(p.cells, p.heads, vbs)
      BY DEF r
    <2>2. Answered(Answer(r, vbs), p.cells, lens)
      BY <1>2, <1>3, <2>1, AnswerIs
    <2> DEFINE a == Answer(r, vbs)
    <2> HIDE DEF a
    <2>3. \A s \in Streams : Back(a.cells[s], cs[s])
      <3> TAKE s \in Streams
      <3>1. Back(p.cells[s], cs[s]) /\ Back(a.cells[s], p.cells[s])
        BY <1>3, <2>2 DEF Answered, a
      <3> QED BY <3>1, BackTwice
    <2>4. Answered(a, cs, lens)
      BY <1>6, <2>2, <2>3 DEF Answered, a
    <2> QED BY <1>3, <1>4, <1>6, <2>4 DEF a
  <1> QED BY <1>5, <1>6

-----------------------------------------------------------------------------
(* The books: the inductive invariant behind Bookkeeping.                  *)

\* What the callers can believe, and how long it is.
Mems == {mm \in [Seqs -> Seq(Seqs \X Nat)] : \A q \in Seqs : Len(mm[q]) <= MaxLen}
LensOf(mm) == [q \in Seqs |-> Len(mm[q])]

\* The lengths of the sequences.
LEMMA LensAre ==
    ASSUME NEW mm \in Mems
    PROVE  /\ LensOf(mm) \in Lens
           /\ \A q \in Seqs : LensOf(mm)[q] = Len(mm[q]) /\ Len(mm[q]) \in 0 .. MaxLen
  <1>1. \A q \in Seqs : mm[q] \in Seq(Seqs \X Nat) /\ Len(mm[q]) <= MaxLen
    BY DEF Mems
  <1>2. \A q \in Seqs : Len(mm[q]) \in 0 .. MaxLen
    BY <1>1, Consts
  <1> QED BY <1>2 DEF LensOf, Lens

\* A run of n new tokens behind the l tokens of sequence q.
IsNewRun(r, q, n, l) ==
    /\ r \in Runs /\ r.seq = q /\ Len(r.toks) = n /\ n # 0
    /\ \A j \in 1 .. n : r.toks[j] = [seq |-> q, pos |-> l + j - 1]

\* A function on 1 .. n is a sequence.
LEMMA ListType ==
    ASSUME NEW W, NEW n \in Nat, NEW t \in [1 .. n -> W]
    PROVE  t \in Seq(W) /\ Len(t) = n
  OBVIOUS

\* The tokens of a run continue the sequence.
LEMMA NewToks ==
    ASSUME NEW q \in Seqs, NEW n \in Nat \ {0}, NEW l \in Nat, NEW toks,
           toks = [j \in 1 .. n |-> [seq |-> q, pos |-> l + j - 1]], Last(toks).pos < MaxLen
    PROVE  IsNewRun([seq |-> q, toks |-> toks], q, n, l)
  <1>1. DOMAIN toks = 1 .. n /\ \A j \in 1 .. n : toks[j] = [seq |-> q, pos |-> l + j - 1]
    OBVIOUS
  <1>2. \A j \in 1 .. n : l + j - 1 \in Nat
    OBVIOUS
  <1>3. toks \in Seq([seq : Seqs, pos : Nat]) /\ Len(toks) = n
    <2>1. \A j \in 1 .. n : toks[j] \in [seq : Seqs, pos : Nat]
      BY <1>1, <1>2
    <2>2. toks \in [1 .. n -> [seq : Seqs, pos : Nat]]
      BY <2>1
    <2> QED BY <2>2
  <1>4. Last(toks) = toks[n]
    BY <1>3 DEF Last
  <1>5. toks[n] = [seq |-> q, pos |-> l + n - 1]
    BY <1>1
  <1>6. toks[n].pos = l + n - 1
    BY <1>5
  <1>7. l + n - 1 < MaxLen
    BY <1>4, <1>6
  <1>8. \A j \in 1 .. n : toks[j] \in Token
    <2> TAKE j \in 1 .. n
    <2>1. l + j - 1 \in 0 .. MaxLen - 1
      BY <1>7, Consts
    <2>2. [seq |-> q, pos |-> l + j - 1] \in Token
      BY <2>1 DEF Token
    <2> QED BY <1>1, <2>2
  <1>9. toks \in Seq(Token)
    <2>1. toks \in [1 .. n -> Token]
      BY <1>1, <1>3, <1>8
    <2> QED BY <2>1, ListType
  <1> QED BY <1>1, <1>3, <1>9 DEF IsNewRun, Runs

\* A run of the caller continues its sequence.
LEMMA NewRunIs ==
    ASSUME mem \in Mems, NEW q \in Seqs, NEW n \in 1 .. MaxNew, Last(NewRun(q, n).toks).pos < MaxLen
    PROVE  IsNewRun(NewRun(q, n), q, n, Len(mem[q]))
  <1> DEFINE toks == [j \in 1 .. n |-> [seq |-> q, pos |-> Len(mem[q]) + j - 1]]
             l == Len(mem[q])
  <1>1. l \in Nat /\ n \in Nat \ {0}
    BY LensAre, Consts
  <1>2. toks = [j \in 1 .. n |-> [seq |-> q, pos |-> l + j - 1]]
    OBVIOUS
  <1>3. NewRun(q, n) = [seq |-> q, toks |-> toks]
    BY DEF NewRun
  <1> HIDE DEF toks, l
  <1>4. Last(toks).pos < MaxLen
    BY <1>3
  <1>5. IsNewRun([seq |-> q, toks |-> toks], q, n, l)
    BY <1>1, <1>2, <1>4, NewToks
  <1> QED BY <1>3, <1>5 DEF l

\* The batches of the callers.
LEMMA BatchIs ==
    ASSUME mem \in Mems, NEW batch \in Batches,
           \A k \in DOMAIN batch : Last(batch[k].toks).pos < MaxLen
    PROVE  \E m : IsBatch(batch, m, LensOf(mem))
  <1>1. LensOf(mem) \in Lens /\ \A q \in Seqs : LensOf(mem)[q] = Len(mem[q])
    BY LensAre
  <1>2. CASE \E q \in Seqs, n \in 1 .. MaxNew : batch = <<NewRun(q, n)>>
    <2>1. PICK q \in Seqs, n \in 1 .. MaxNew : batch = <<NewRun(q, n)>>
      BY <1>2
    <2> DEFINE r == NewRun(q, n)
    <2>2. batch = <<r>>
      BY <2>1
    <2> HIDE DEF r
    <2>3. DOMAIN batch = 1 .. 1 /\ batch[1] = r
      BY <2>2
    <2>4. Last(r.toks).pos < MaxLen
      BY <2>3
    <2>5. IsNewRun(r, q, n, Len(mem[q]))
      BY <2>4, NewRunIs DEF r
    <2>6. batch \in [1 .. 1 -> Runs]
      BY <2>2, <2>3, <2>5 DEF IsNewRun
    <2>7. IsBatch(batch, 1, LensOf(mem))
      <3>1. \A x \in 1 .. 1 : x = 1 /\ batch[x] = r
        BY <2>3
      <3>2. /\ Len(r.toks) = n /\ n # 0 /\ r.seq = q
            /\ \A j \in 1 .. n : r.toks[j] = [seq |-> q, pos |-> LensOf(mem)[q] + j - 1]
        BY <1>1, <2>5 DEF IsNewRun
      <3> QED BY <1>1, <2>6, <3>1, <3>2 DEF IsBatch
    <2> QED BY <2>7
  <1>3. CASE \E q \in {r \in Seqs \X Seqs : r[1] # r[2]}, n \in 1 .. MaxNew, m \in 1 .. MaxNew :
                 batch = <<NewRun(q[1], n), NewRun(q[2], m)>>
    <2>1. PICK q \in {r \in Seqs \X Seqs : r[1] # r[2]}, n \in 1 .. MaxNew, m \in 1 .. MaxNew :
                 batch = <<NewRun(q[1], n), NewRun(q[2], m)>>
      BY <1>3
    <2>0. q[1] \in Seqs /\ q[2] \in Seqs /\ q[1] # q[2]
      OBVIOUS
    <2>00. PICK a \in Seqs, b \in Seqs : a = q[1] /\ b = q[2] /\ a # b
      BY <2>0
    <2> DEFINE r == NewRun(a, n)
               w == NewRun(b, m)
    <2>2. batch = <<r, w>>
      BY <2>1, <2>00
    <2> HIDE DEF r, w
    <2>3. DOMAIN batch = 1 .. 2 /\ batch[1] = r /\ batch[2] = w
      BY <2>2
    <2>4. Last(r.toks).pos < MaxLen /\ Last(w.toks).pos < MaxLen
      BY <2>3
    <2>5. IsNewRun(r, a, n, Len(mem[a])) /\ IsNewRun(w, b, m, Len(mem[b]))
      BY <2>4, NewRunIs DEF r, w
    <2>6. batch \in [1 .. 2 -> Runs]
      BY <2>2, <2>3, <2>5 DEF IsNewRun
    <2>7. IsBatch(batch, 2, LensOf(mem))
      <3>1. \A x \in 1 .. 2 : (x = 1 /\ batch[x] = r) \/ (x = 2 /\ batch[x] = w)
        BY <2>3
      <3> QED BY <1>1, <2>00, <2>3, <2>5, <2>6, <3>1 DEF IsBatch, IsNewRun
    <2> QED BY <2>7
  <1> QED BY <1>2, <1>3 DEF Batches

\* The positions of a sequence in a micro batch that takes it from b to c.
LEMMA PosOfIs ==
    ASSUME NEW ub, IsUBatch(ub), NEW b \in Lens, NEW c \in Lens, Takes(ub, b, c), NEW q \in Seqs
    PROVE  /\ PosOf(ub, q) = b[q] .. c[q] - 1
           /\ Cardinality(PosOf(ub, q)) = c[q] - b[q] /\ b[q] \in Nat /\ c[q] \in 0 .. MaxLen /\ b[q] <= c[q]
           /\ PosOf(ub, q) # {} => Min(PosOf(ub, q)) = b[q]
  <1>1. b[q] \in 0 .. MaxLen /\ c[q] \in 0 .. MaxLen /\ b[q] <= c[q] /\ MaxLen \in Nat
    BY Consts DEF Lens, Takes
  <1>2. PICK x \in Int, y \in Int : x = b[q] /\ y = c[q]
    BY <1>1
  <1>3. \A s \in DOMAIN ub : /\ Len(ub[s]) \in Nat /\ ub[s] \in [1 .. Len(ub[s]) -> Token]
    BY UBatchType
  <1>4. ASSUME NEW p \in PosOf(ub, q)
        PROVE  p \in x .. y - 1
    <2>1. PICK t \in Tokens(ub) : t.seq = q /\ t.pos = p
      BY DEF PosOf
    <2>2. PICK s \in DOMAIN ub : t \in Range(ub[s])
      BY DEF Tokens
    <2>3. PICK j \in DOMAIN ub[s] : t = ub[s][j]
      BY <2>2 DEF Range
    <2>4. j \in 1 .. Len(ub[s]) /\ t \in Token
      BY <1>3, <2>3
    <2>5. b[t.seq] <= t.pos /\ t.pos < c[t.seq]
      BY <2>3, <2>4 DEF Takes
    <2>6. p \in Int
      BY <2>1, <2>4 DEF Token
    <2> QED BY <1>1, <1>2, <2>1, <2>5, <2>6
  <1>5. ASSUME NEW p \in x .. y - 1
        PROVE  p \in PosOf(ub, q)
    <2>1. p \in b[q] .. c[q] - 1
      BY <1>2
    <2> DEFINE s == StreamOf(q)
    <2>2. s \in DOMAIN ub /\ \E j \in 1 .. Len(ub[s]) : ub[s][j].seq = q /\ ub[s][j].pos = p
      BY <2>1 DEF Takes
    <2> HIDE DEF s
    <2>3. PICK j \in 1 .. Len(ub[s]) : ub[s][j].seq = q /\ ub[s][j].pos = p
      BY <2>2
    <2>4. ub[s][j] \in Range(ub[s])
      BY <1>3, <2>2 DEF Range
    <2>5. ub[s][j] \in Tokens(ub)
      BY <2>2, <2>4 DEF Tokens
    <2> QED BY <2>3, <2>5 DEF PosOf
  <1>6. PosOf(ub, q) = x .. y - 1
    BY <1>4, <1>5
  <1>7. Cardinality(x .. y - 1) = y - x
    <2>1. Cardinality(x .. y - 1) = IF x > y - 1 THEN 0 ELSE y - 1 - x + 1
      BY FS_Interval
    <2>2. x <= y
      BY <1>1, <1>2
    <2> QED BY <2>1, <2>2
  <1>8. x <= y - 1 => Min(x .. y - 1) = x
    BY MinFrom
  <1> QED BY <1>1, <1>2, <1>6, <1>7, <1>8

\* The head after cells were freed.
LEMMA HeadAfterIs ==
    ASSUME NEW c \in Good, NEW d, NEW head \in 0 .. Size
    PROVE  HeadAfter(c, d, head) \in 0 .. Size
  <1>1. Freed(c, d) \subseteq Idx
    BY DEF Freed, Good, CellsType
  <1>2. Freed(c, d) # {} => Min(Freed(c, d)) \in Freed(c, d)
    <2>1. Freed(c, d) \subseteq Int /\ \A x \in Freed(c, d) : 0 <= x
      BY <1>1 DEF Idx
    <2> QED BY <2>1, MinIs
  <1>3. Idx \subseteq 0 .. Size
    BY Consts DEF Idx
  <1> QED BY <1>1, <1>2, <1>3 DEF HeadAfter

\* What is left of a plan after its first micro batch.
LEMMA PlanTail ==
    ASSUME NEW p, NEW lens, PlanFor(p, lens), p # <<>>
    PROVE  \E c : /\ c \in Lens /\ lens \in Lens /\ PlanFor(Tail(p), c)
                  /\ IsUBatch(Head(p).ub) /\ IsSlot(Head(p).slot, Head(p).ub)
                  /\ Takes(Head(p).ub, lens, c)
  <1>1. PICK base : PlanOf(p, base) /\ base[1] = lens
    BY DEF PlanFor
  <1>2. PICK S : p \in Seq(S)
    BY <1>1 DEF PlanOf
  <1>3. PICK n \in Nat \ {0} : n = Len(p)
    BY <1>2
  <1>4. base \in [1 .. n + 1 -> Lens]
    BY <1>1, <1>3 DEF PlanOf
  <1>5. \A u \in 1 .. n : /\ IsUBatch(p[u].ub) /\ IsSlot(p[u].slot, p[u].ub)
                          /\ Takes(p[u].ub, base[u], base[u + 1])
    BY <1>1, <1>3 DEF PlanOf
  <1>6. /\ Head(p) = p[1] /\ Tail(p) \in Seq(S) /\ Len(Tail(p)) = n - 1
        /\ \A u \in 1 .. n - 1 : Tail(p)[u] = p[u + 1]
    BY <1>2, <1>3
  <1> DEFINE nb == [u \in 1 .. n |-> base[u + 1]]
             r == Tail(p)
  <1>7. nb \in [1 .. (n - 1) + 1 -> Lens] /\ \A u \in 1 .. n : nb[u] = base[u + 1]
    BY <1>4
  <1> HIDE DEF nb, r
  <1>8. r \in Seq(S) /\ Len(r) = n - 1 /\ \A u \in 1 .. n - 1 : r[u] = p[u + 1]
    BY <1>6 DEF r
  <1>9. \A u \in 1 .. n - 1 : /\ IsUBatch(r[u].ub) /\ IsSlot(r[u].slot, r[u].ub)
                              /\ Takes(r[u].ub, nb[u], nb[u + 1])
    <2> TAKE u \in 1 .. n - 1
    <2>1. u + 1 \in 1 .. n /\ r[u] = p[u + 1] /\ nb[u] = base[u + 1] /\ nb[u + 1] = base[u + 1 + 1]
      BY <1>7, <1>8
    <2> QED BY <1>5, <2>1
  <1>10. PlanOf(r, nb)
    BY <1>7, <1>8, <1>9 DEF PlanOf
  <1>11. nb[1] = base[1 + 1] /\ 1 \in 1 .. n /\ 1 \in 1 .. n + 1 /\ 1 + 1 \in 1 .. n + 1
    BY <1>3, <1>7
  <1>12. PlanFor(r, base[1 + 1])
    BY <1>10, <1>11 DEF PlanFor
  <1>13. base[1 + 1] \in Lens /\ base[1] \in Lens
    BY <1>4, <1>11
  <1>14. /\ IsUBatch(p[1].ub) /\ IsSlot(p[1].slot, p[1].ub)
         /\ Takes(p[1].ub, base[1], base[1 + 1])
    BY <1>5, <1>11
  <1> QED BY <1>1, <1>6, <1>12, <1>13, <1>14 DEF r

Answers == {"ok", "computing", "no_slot", "invalid", "aborted"}

\* A saved sequence: its tokens, and the cells with their positions.
IsImage(img) ==
    /\ img.mem \in Seq(Seqs \X Nat) /\ Len(img.mem) <= MaxLen
    /\ Len(img.cells) \in Nat /\ DOMAIN img.cells = 1 .. Len(img.cells)
    /\ \A j \in 1 .. Len(img.cells) : img.cells[j].pos \in 0 .. MaxLen - 1

\* The inductive invariant behind Bookkeeping, of the values of the variables.
Books(cs, hs, dt, sc, pl, sv, r, mm, o) ==
    /\ cs \in Caches /\ hs \in Heads /\ DOMAIN dt = Streams
    /\ sc \in Seq(Seqs \X Seqs)
    /\ mm \in Mems /\ PlanFor(pl, LensOf(mm))
    /\ \A img \in sv : IsImage(img)
    /\ r \in Answers /\ o \in 0 .. MaxOps
BooksInv ==
    mode \in Modes /\ Books(cells, heads, data, sc_info, plan, saved, ret, mem, ops)
BooksNext == Books(cells', heads', data', sc_info', plan', saved', ret', mem', ops')

\* What the invariant says, part by part.
LEMMA BooksAre ==
    ASSUME BooksInv
    PROVE  /\ cells \in Caches /\ heads \in Heads /\ DOMAIN data = Streams
           /\ sc_info \in Seq(Seqs \X Seqs) /\ mem \in Mems /\ PlanFor(plan, LensOf(mem))
           /\ \A img \in saved : IsImage(img)
           /\ ret \in Answers /\ ops \in 0 .. MaxOps
           /\ \A s \in Streams : cells[s] \in Good /\ heads[s] \in 0 .. Size
           /\ \A q \in Seqs : Len(mem[q]) \in 0 .. MaxLen /\ mem[q] \in Seq(Seqs \X Nat)
           /\ LensOf(mem) \in Lens /\ \A q \in Seqs : LensOf(mem)[q] = Len(mem[q])
  <1>1. mem \in Mems
    BY DEF BooksInv, Books
  <1>2. /\ \A q \in Seqs : Len(mem[q]) \in 0 .. MaxLen
        /\ LensOf(mem) \in Lens /\ \A q \in Seqs : LensOf(mem)[q] = Len(mem[q])
    BY <1>1, LensAre
  <1>3. \A q \in Seqs : mem[q] \in Seq(Seqs \X Nat)
    BY <1>1 DEF Mems
  <1>4. \A s \in Streams : cells[s] \in Good /\ heads[s] \in 0 .. Size
    BY DEF BooksInv, Books, Caches, Heads
  <1> QED BY <1>1, <1>2, <1>3, <1>4 DEF BooksInv, Books

\* One stream, one head or one sequence replaced.
LEMMA CellsSet ==
    ASSUME NEW cs \in Caches, NEW s, NEW d \in Good
    PROVE  [cs EXCEPT ![s] = d] \in Caches
  BY DEF Caches

\* A head is set.
LEMMA HeadsSet ==
    ASSUME NEW hs \in Heads, NEW s, NEW h \in 0 .. Size
    PROVE  [hs EXCEPT ![s] = h] \in Heads
  BY DEF Heads

\* A sequence gets other tokens.
LEMMA MemSet ==
    ASSUME NEW mm \in Mems, NEW q \in Seqs, NEW t \in Seq(Seqs \X Nat), Len(t) <= MaxLen
    PROVE  /\ [mm EXCEPT ![q] = t] \in Mems /\ [mm EXCEPT ![q] = t][q] = t
           /\ \A r \in Seqs \ {q} : [mm EXCEPT ![q] = t][r] = mm[r]
  <1> DEFINE nm == [mm EXCEPT ![q] = t]
  <1>1. mm \in [Seqs -> Seq(Seqs \X Nat)] /\ \A r \in Seqs : Len(mm[r]) <= MaxLen
    BY DEF Mems
  <1>2. nm \in [Seqs -> Seq(Seqs \X Nat)]
    BY <1>1
  <1>3. nm[q] = t /\ \A r \in Seqs \ {q} : nm[r] = mm[r]
    BY <1>1
  <1>4. \A r \in Seqs : Len(nm[r]) <= MaxLen
    BY <1>1, <1>3
  <1> QED BY <1>2, <1>3, <1>4 DEF Mems

\* A stream becomes d, and its head follows.
LEMMA BecomesIs ==
    ASSUME BooksInv, NEW s \in Streams, NEW d \in Good, Becomes(s, d)
    PROVE  cells' \in Caches /\ heads' \in Heads
  <1>1. cells \in Caches /\ heads \in Heads /\ cells[s] \in Good /\ heads[s] \in 0 .. Size
    BY BooksAre
  <1>2. HeadAfter(cells[s], d, heads[s]) \in 0 .. Size
    BY <1>1, HeadAfterIs
  <1>3. /\ cells' = [cells EXCEPT ![s] = d]
        /\ heads' = [heads EXCEPT ![s] = HeadAfter(cells[s], d, heads[s])]
    BY <1>1 DEF Becomes
  <1> QED BY <1>1, <1>2, <1>3, CellsSet, HeadsSet

\* A call without a plan.
LEMMA CalledBooks ==
    ASSUME BooksInv, Called, cells' \in Caches, heads' \in Heads, DOMAIN data' = Streams,
           sc_info' \in Seq(Seqs \X Seqs), mem' \in Mems, plan' = plan,
           \A img \in saved' : IsImage(img), ret' \in Answers
    PROVE  BooksNext
  <1>1. LensOf(mem') \in Lens
    BY LensAre
  <1>2. PlanFor(plan', LensOf(mem'))
    BY <1>1, NoPlan DEF Called
  <1>3. ops' \in 0 .. MaxOps
    BY BooksAre, Consts DEF Called
  <1> QED BY <1>2, <1>3 DEF BooksNext, Books

\* A truncated sequence keeps the books.
LEMMA TruncateBooks ==
    ASSUME BooksInv, NEW q \in Seqs, NEW p \in 0 .. MaxLen, Truncate(q, p)
    PROVE  BooksNext
  <1> DEFINE s == StreamOf(q)
             k == Kept(q, p)
             d == SeqRmRange(cells[s], q, k, Infinite)
             t == SubSeq(mem[q], 1, k)
  <1>1. s \in Streams /\ cells[s] \in Good /\ mem[q] \in Seq(Seqs \X Nat) /\ Len(mem[q]) \in 0 .. MaxLen
    BY BooksAre, StreamsAre
  <1>2. k \in {0, p} /\ p < Len(mem[q]) /\ k \in Int
    BY DEF Kept, Truncate
  <1>3. Infinite \in Int
    BY Consts DEF Infinite
  <1>4. Becomes(s, d) /\ mem' = [mem EXCEPT ![q] = t] /\ Called
    BY DEF Truncate
  <1> HIDE DEF s, k
  <1>5. d \in Good
    BY <1>1, <1>2, <1>3, SeqRmRangeIs DEF RangeRemoved
  <1>6. t \in Seq(Seqs \X Nat) /\ Len(t) <= MaxLen
    <2>1. k \in 0 .. Len(mem[q])
      BY <1>1, <1>2
    <2>2. PICK m : m = mem[q]
      OBVIOUS
    <2>3. SubSeq(m, 1, k) \in Seq(Seqs \X Nat) /\ Len(SubSeq(m, 1, k)) = k
      BY <1>1, <2>1, <2>2
    <2> QED BY <1>1, <2>1, <2>2, <2>3, Consts
  <1> HIDE DEF d, t
  <1>7. cells' \in Caches /\ heads' \in Heads
    BY <1>1, <1>4, <1>5, BecomesIs
  <1>8. mem' \in Mems
    BY <1>4, <1>6, BooksAre, MemSet
  <1>9. /\ UNCHANGED <<sc_info, data, plan, saved>> /\ ret' = "ok"
    BY DEF Truncate
  <1> QED BY <1>4, <1>7, <1>8, <1>9, BooksAre, CalledBooks DEF Answers

\* What the action CutAndShift does to the cells.
LEMMA CutDoes ==
    ASSUME BooksInv, NEW q \in Seqs, NEW to \in 0 .. MaxLen, NEW from \in 0 .. MaxLen,
           NEW n \in 0 .. MaxLen, CutAndShift(q, to, from, n)
    PROVE  LET c == cells[StreamOf(q)]
           IN  \E cut, add, d : /\ RangeRemoved(c, cut, q, to, from)
                                /\ RangeMoved(cut, add, q, from, from + n, to - from)
                                /\ RangeRemoved(add, d, q, to + n, Infinite)
                                /\ cells' = [cells EXCEPT ![StreamOf(q)] = d]
  <1> DEFINE s == StreamOf(q)
             c == cells[s]
             cut == SeqRmRange(c, q, to, from)
             add == SeqAddRange(cut, q, from, from + n, to - from)
             d == SeqRmRange(add, q, to + n, Infinite)
  <1>1. s \in Streams /\ c \in Good /\ mem[q] \in Seq(Seqs \X Nat) /\ Len(mem[q]) \in 0 .. MaxLen
    BY BooksAre, StreamsAre
  <1>2. to < from /\ n > 0 /\ from + n <= Len(mem[q]) /\ Infinite \in Int
    BY Consts DEF CutAndShift, Infinite
  <1>3. cells' = [cells EXCEPT ![s] = d]
    BY DEF CutAndShift
  <1> HIDE DEF s, c
  <1>4. RangeRemoved(c, cut, q, to, from)
    BY <1>1, SeqRmRangeIs
  <1> HIDE DEF cut
  <1>5. cut \in Good
    BY <1>4 DEF RangeRemoved
  <1>6. \A i \in Idx : q \in cut.seq[i] /\ cut.pos[i] >= from /\ cut.pos[i] < from + n
                          => cut.pos[i] + (to - from) \in 0 .. MaxLen - 1
    <2> SUFFICES ASSUME NEW i \in Idx, cut.pos[i] >= from, cut.pos[i] < from + n
                 PROVE  cut.pos[i] + (to - from) \in 0 .. MaxLen - 1
      OBVIOUS
    <2>1. cut.pos[i] \in Int
      BY <1>5, GoodType
    <2>2. PICK x \in Int : x = cut.pos[i]
      BY <2>1
    <2>3. to + n < MaxLen
      BY <1>1, <1>2, Consts
    <2>4. x + (to - from) >= 0 /\ x + (to - from) <= MaxLen - 1
      BY <2>2, <2>3, <1>2, Consts
    <2> QED BY <2>2, <2>4, Consts
  <1>7. RangeMoved(cut, add, q, from, from + n, to - from)
    <2>1. from + n \in Int /\ to - from \in Int
      OBVIOUS
    <2> QED BY <1>5, <1>6, <2>1, SeqAddRangeIs
  <1>8. add \in Good
    BY <1>7 DEF RangeMoved
  <1> HIDE DEF add
  <1>9. RangeRemoved(add, d, q, to + n, Infinite)
    <2>1. to + n \in Int
      OBVIOUS
    <2> QED BY <1>2, <1>8, <2>1, SeqRmRangeIs
  <1> HIDE DEF d
  <1> QED BY <1>3, <1>4, <1>7, <1>9 DEF c, s

\* m with the part between to and from cut out, n tokens moved up, and the rest gone.
IsCut(t, m, to, from, n) ==
    /\ t \in Seq(Seqs \X Nat) /\ Len(t) = to + n
    /\ \A j \in 1 .. to : t[j] = m[j]
    /\ \A j \in to + 1 .. to + n : t[j] = m[j - to + from]

\* The tokens of a sequence from which a part is cut.
LEMMA CutMem ==
    ASSUME NEW m \in Seq(Seqs \X Nat), NEW to \in Nat, NEW from \in Nat, NEW n \in Nat,
           to < from, from + n <= Len(m)
    PROVE  IsCut(SubSeq(m, 1, to) \o SubSeq(m, from + 1, from + n), m, to, from, n)
  <1> DEFINE x == SubSeq(m, 0 + 1, to)
             y == SubSeq(m, from + 1, from + n)
             z == x \o y
  <1>1. IsPiece(x, m, Seqs \X Nat, 0, to) /\ IsPiece(y, m, Seqs \X Nat, from, from + n)
    BY SubSeqIs
  <1> HIDE DEF x, y
  <1>2. /\ x \in Seq(Seqs \X Nat) /\ Len(x) = to /\ \A j \in 1 .. to : x[j] = m[j]
    BY <1>1 DEF IsPiece
  <1>3. y \in Seq(Seqs \X Nat) /\ Len(y) = n /\ \A j \in 1 .. n : y[j] = m[from + j]
    BY <1>1 DEF IsPiece
  <1>4. IsJoin(x \o y, x, y, Seqs \X Nat)
    BY <1>2, <1>3, JoinIs
  <1>5. /\ z \in Seq(Seqs \X Nat) /\ Len(z) = to + n /\ \A j \in 1 .. to : z[j] = x[j]
        /\ \A j \in to + 1 .. to + n : z[j] = y[j - to]
    BY <1>2, <1>3, <1>4 DEF IsJoin
  <1> HIDE DEF z
  <1>6. \A j \in to + 1 .. to + n : z[j] = m[j - to + from]
    <2> TAKE j \in to + 1 .. to + n
    <2>1. j - to \in 1 .. n /\ from + (j - to) = j - to + from
      OBVIOUS
    <2> QED BY <1>3, <1>5, <2>1
  <1>7. IsCut(z, m, to, from, n)
    BY <1>2, <1>5, <1>6 DEF IsCut
  <1> QED BY <1>7 DEF z, x, y

\* Cutting and shifting keeps the books: no position leaves its range.
LEMMA CutBooks ==
    ASSUME BooksInv, NEW q \in Seqs, NEW to \in 0 .. MaxLen, NEW from \in 0 .. MaxLen,
           NEW n \in 0 .. MaxLen, CutAndShift(q, to, from, n)
    PROVE  BooksNext
  <1> DEFINE t == SubSeq(mem[q], 1, to) \o SubSeq(mem[q], from + 1, from + n)
  <1>1. mem[q] \in Seq(Seqs \X Nat) /\ Len(mem[q]) \in 0 .. MaxLen
    BY BooksAre
  <1>2. to < from /\ from + n <= Len(mem[q]) /\ Called
    BY DEF CutAndShift
  <1>3. heads' = [heads EXCEPT ![StreamOf(q)] = 0] /\ mem' = [mem EXCEPT ![q] = t]
    BY DEF CutAndShift
  <1>4. PICK d \in Good : cells' = [cells EXCEPT ![StreamOf(q)] = d]
    BY CutDoes DEF RangeRemoved
  <1>5. t \in Seq(Seqs \X Nat) /\ Len(t) <= MaxLen
    <2> DEFINE m == mem[q]
    <2>1. m \in Seq(Seqs \X Nat) /\ Len(m) <= MaxLen /\ from + n <= Len(m)
      BY <1>1, <1>2, Consts
    <2>0. to \in Nat /\ from \in Nat /\ n \in Nat /\ MaxLen \in Nat
      BY Consts
    <2>2. t = SubSeq(m, 1, to) \o SubSeq(m, from + 1, from + n)
      OBVIOUS
    <2> HIDE DEF m, t
    <2>3. IsCut(t, m, to, from, n)
      BY <1>2, <2>0, <2>1, <2>2, CutMem
    <2>4. t \in Seq(Seqs \X Nat) /\ Len(t) = to + n
      BY <2>3 DEF IsCut
    <2>5. Len(m) \in Nat
      BY <2>1
    <2> QED BY <1>2, <2>0, <2>1, <2>4, <2>5
  <1> HIDE DEF t
  <1>6. cells' \in Caches /\ heads' \in Heads /\ mem' \in Mems
    <2>1. 0 \in 0 .. Size
      BY Consts
    <2> QED BY <1>3, <1>4, <1>5, <2>1, BooksAre, CellsSet, HeadsSet, MemSet
  <1>7. UNCHANGED <<sc_info, data, plan, saved>> /\ ret' = "ok"
    BY DEF CutAndShift
  <1> QED BY <1>2, <1>6, <1>7, BooksAre, CalledBooks DEF Answers

\* The sequence r has left the cells of c.
LEMMA RangeAll ==
    ASSUME NEW c \in Good, NEW d, NEW r \in Seqs, RangeRemoved(c, d, r, 0, Infinite)
    PROVE  d \in Good /\ \A i \in Idx : r \notin d.seq[i]
  <1> SUFFICES ASSUME NEW i \in Idx PROVE r \notin d.seq[i]
    BY DEF RangeRemoved
  <1>1. c.pos[i] \in -1 .. MaxLen - 1 /\ ((c.pos[i] # -1) <=> (c.seq[i] # {}))
    BY GoodType
  <1>2. r \in c.seq[i] => c.pos[i] >= 0 /\ c.pos[i] < Infinite
    BY <1>1, Consts DEF Infinite
  <1> QED BY <1>2 DEF RangeRemoved

\* A copy keeps the books, within a stream and across streams.
LEMMA CopyBooks ==
    ASSUME BooksInv, NEW q \in Seqs, NEW r \in Seqs, CopySequence(q, r)
    PROVE  BooksNext
  <1>1. /\ cells \in Caches /\ heads \in Heads /\ sc_info \in Seq(Seqs \X Seqs) /\ mem \in Mems
        /\ \A s \in Streams : cells[s] \in Good /\ heads[s] \in 0 .. Size
    BY BooksAre
  <1>2. Called /\ UNCHANGED <<mode, data, plan, saved>> /\ ret' = "ok" /\ mem' = [mem EXCEPT ![r] = mem[q]]
    BY DEF CopySequence
  <1>3. mem' \in Mems
    <2>1. mem[q] \in Seq(Seqs \X Nat) /\ Len(mem[q]) <= MaxLen
      BY BooksAre
    <2> QED BY <1>1, <1>2, <2>1, MemSet
  <1>4. cells' \in Caches /\ heads' \in Heads /\ sc_info' \in Seq(Seqs \X Seqs)
    <2>1. CASE mode = "streams"
      <3>1. Streams = Seqs
        BY <2>1, StreamsAre
      <3>2. /\ cells' = [cells EXCEPT ![r] = StreamCopy(cells[q], q, r)]
            /\ heads' = [heads EXCEPT ![r] = heads[q]]
            /\ sc_info' = Append(sc_info, <<q, r>>)
        BY <2>1 DEF CopySequence
      <3>3. StreamCopy(cells[q], q, r) \in Good
        BY <1>1, <3>1, StreamCopyIs DEF CopiedFrom
      <3>4. heads[q] \in 0 .. Size
        BY <1>1, <3>1
      <3>5. Append(sc_info, <<q, r>>) \in Seq(Seqs \X Seqs)
        BY <1>1
      <3> QED BY <1>1, <3>2, <3>3, <3>4, <3>5, CellsSet, HeadsSet
    <2>2. CASE mode # "streams"
      <3> DEFINE c == SeqRmRange(cells[0], r, 0, Infinite)
                 d == SeqCpCells(c, q, r)
      <3>1. 0 \in Streams
        BY <2>2, StreamsAre
      <3>2. /\ cells' = [cells EXCEPT ![0] = d]
            /\ heads' = [heads EXCEPT ![0] = HeadAfter(cells[0], c, heads[0])]
            /\ UNCHANGED sc_info
        <4>1. DOMAIN heads = Streams
          BY <1>1 DEF Heads
        <4> QED BY <2>2, <3>1, <4>1 DEF CopySequence
      <3>3. RangeRemoved(cells[0], c, r, 0, Infinite)
        <4>1. Infinite \in Int /\ 0 \in Int
          BY Consts DEF Infinite
        <4> QED BY <1>1, <3>1, <4>1, SeqRmRangeIs
      <3> HIDE DEF c
      <3>4. c \in Good /\ \A i \in Idx : r \notin c.seq[i]
        BY <1>1, <3>1, <3>3, RangeAll
      <3>5. d \in Good
        BY <3>4, ShareIs DEF SharedWith
      <3>6. HeadAfter(cells[0], c, heads[0]) \in 0 .. Size
        BY <1>1, <3>1, HeadAfterIs
      <3> HIDE DEF d
      <3> QED BY <1>1, <3>2, <3>5, <3>6, CellsSet, HeadsSet
    <2> QED BY <2>1, <2>2
  <1> QED BY <1>2, <1>3, <1>4, BooksAre, CalledBooks DEF Answers

\* Keeping one sequence keeps the books.
LEMMA KeepBooks ==
    ASSUME BooksInv, NEW q \in Seqs, KeepSequence(q)
    PROVE  BooksNext
  <1> DEFINE s == StreamOf(q)
             d == SeqKeepCells(cells[s], q)
  <1>1. s \in Streams /\ cells[s] \in Good
    BY BooksAre, StreamsAre
  <1>2. Becomes(s, d) /\ Called
    BY DEF KeepSequence
  <1> HIDE DEF s
  <1>3. d \in Good
    BY <1>1, KeepIs DEF KeptOnly
  <1> HIDE DEF d
  <1>4. cells' \in Caches /\ heads' \in Heads
    BY <1>1, <1>2, <1>3, BecomesIs
  <1>5. mem' \in Mems
    <2>1. mem' = [r \in Seqs |-> IF r # q /\ StreamOf(r) = StreamOf(q) THEN <<>> ELSE mem[r]]
      BY DEF KeepSequence
    <2>2. <<>> \in Seq(Seqs \X Nat) /\ Len(<<>>) <= MaxLen
      BY Consts
    <2>3. \A r \in Seqs : mem[r] \in Seq(Seqs \X Nat) /\ Len(mem[r]) <= MaxLen
      BY BooksAre
    <2>4. \A r \in Seqs : mem'[r] \in {<<>>, mem[r]}
      BY <2>1
    <2>5. \A r \in Seqs : mem'[r] \in Seq(Seqs \X Nat) /\ Len(mem'[r]) <= MaxLen
      BY <2>2, <2>3, <2>4
    <2> QED BY <2>1, <2>5 DEF Mems
  <1>6. UNCHANGED <<sc_info, data, plan, saved>> /\ ret' = "ok"
    BY DEF KeepSequence
  <1> QED BY <1>2, <1>4, <1>5, <1>6, BooksAre, CalledBooks DEF Answers

\* No sequence has tokens.
LEMMA NoMem == [q \in Seqs |-> <<>>] \in Mems
  <1>1. <<>> \in Seq(Seqs \X Nat) /\ Len(<<>>) <= MaxLen
    BY Consts
  <1> QED BY <1>1 DEF Mems

\* Clearing the cache keeps the books.
LEMMA ClearBooks ==
    ASSUME BooksInv, Clear
    PROVE  BooksNext
  <1>1. cells' \in Caches
    BY EmptyIsGood DEF Clear, Caches
  <1>2. heads' \in Heads
    BY Consts DEF Clear, Heads
  <1>3. mem' \in Mems /\ Called /\ UNCHANGED <<sc_info, data, plan, saved>> /\ ret' = "ok"
    BY NoMem DEF Clear
  <1> QED BY <1>1, <1>2, <1>3, BooksAre, CalledBooks DEF Answers

\* The cells of a sequence, in their order.
LEMMA OwnCells ==
    ASSUME NEW c, NEW q
    PROVE  Lists(Ordered({i \in Idx : q \in c.seq[i]}), {i \in Idx : q \in c.seq[i]})
  <1>1. {i \in Idx : q \in c.seq[i]} \subseteq 0 .. Size
    BY Consts DEF Idx
  <1>2. Size \in Nat
    BY Consts
  <1> QED BY <1>1, <1>2, OrderedIs

\* An image holds what its sequence holds.
LEMMA SaveBooks ==
    ASSUME BooksInv, NEW q \in Seqs, SaveSequence(q)
    PROVE  BooksNext
  <1> DEFINE s == StreamOf(q)
             K == {i \in Idx : q \in cells[s].seq[i]}
             own == Ordered(K)
             img == [mem |-> mem[q],
                     cells |-> [j \in DOMAIN own |->
                         [pos |-> cells[s].pos[own[j]], kv |-> data[s][own[j]]]]]
  <1>1. s \in Streams /\ cells[s] \in Good /\ mem[q] \in Seq(Seqs \X Nat) /\ Len(mem[q]) <= MaxLen
    BY BooksAre, StreamsAre
  <1>2. saved' = {img} /\ Called /\ UNCHANGED <<mode, cells, heads, sc_info, data, plan, mem>> /\ ret' = "ok"
    BY DEF SaveSequence
  <1> HIDE DEF s
  <1>3. Lists(own, K)
    BY OwnCells
  <1>4. \A i \in K : cells[s].pos[i] \in 0 .. MaxLen - 1
    <2> TAKE i \in K
    <2>1. i \in Idx /\ cells[s].seq[i] # {}
      OBVIOUS
    <2> QED BY <1>1, <2>1, GoodType, Consts
  <1> HIDE DEF own, K
  <1> DEFINE n == Cardinality(K)
  <1>5. n \in Nat /\ DOMAIN own = 1 .. n /\ \A j \in 1 .. n : own[j] \in K
    BY <1>3 DEF Lists
  <1> HIDE DEF n
  <1>6. IsImage(img)
    <2> DEFINE ic == [j \in 1 .. n |-> [pos |-> cells[s].pos[own[j]], kv |-> data[s][own[j]]]]
    <2>1. img.mem = mem[q] /\ img.cells = ic
      BY <1>5
    <2>2. Len(ic) = n /\ DOMAIN ic = 1 .. n /\ \A j \in 1 .. n : ic[j].pos = cells[s].pos[own[j]]
      BY <1>5
    <2> HIDE DEF img, ic
    <2> QED BY <1>1, <1>4, <1>5, <2>1, <2>2 DEF IsImage
  <1> HIDE DEF img
  <1> QED BY <1>2, <1>6, BooksAre, CalledBooks DEF Answers

\* The slot that a search in a good stream found, for tokens that fit.
LEMMA RefillIs ==
    ASSUME NEW c \in Good, NEW h \in 0 .. Size, NEW n \in Nat, NEW toks \in [1 .. n -> Token],
           SlotCells(c, h, n) # <<>>
    PROVE  LET idxs == SlotCells(c, h, n)
           IN  /\ SlotOf(idxs, n) /\ n # 0 /\ DOMAIN idxs = 1 .. n
               /\ \A j \in 1 .. n : idxs[j] \in Usable(c)
               /\ RefilledSome(c, FilledStream(c, idxs, toks), idxs, toks, n)
               /\ Last(idxs) + 1 \in 0 .. Size
  <1> DEFINE idxs == SlotCells(c, h, n)
  <1>1. Found(c, idxs, n)
    BY SlotCellsIs
  <1> HIDE DEF idxs
  <1>2. idxs # <<>>
    BY DEF idxs
  <1>3. SlotOf(idxs, n) /\ n # 0 /\ \A j \in 1 .. n : idxs[j] \in Usable(c)
    BY <1>1, <1>2 DEF Found
  <1>4. idxs \in [1 .. n -> Idx] /\ DOMAIN idxs = 1 .. n
    BY <1>3 DEF SlotOf
  <1>5. Last(idxs) \in Idx
    <2>1. Len(idxs) = n /\ n \in 1 .. n
      BY <1>3, <1>4
    <2> QED BY <1>4, <2>1 DEF Last
  <1>6. Last(idxs) + 1 \in 0 .. Size
    BY <1>5, Consts DEF Idx
  <1>7. RefilledSome(c, FilledStream(c, idxs, toks), idxs, toks, n)
    BY <1>3, FilledStreamIs
  <1> QED BY <1>3, <1>4, <1>6, <1>7 DEF idxs

\* The image that is restored, and its tokens.
ImageOf == CHOOSE x \in saved : TRUE
ImageToks(r) == [j \in DOMAIN ImageOf.cells |-> [seq |-> r, pos |-> ImageOf.cells[j].pos]]

\* What is saved, as tokens of the sequence it is restored to.
LEMMA ImageIs ==
    ASSUME BooksInv, saved # {}, NEW r \in Seqs
    PROVE  /\ ImageOf \in saved /\ IsImage(ImageOf)
           /\ Len(ImageToks(r)) = Len(ImageOf.cells) /\ Len(ImageOf.cells) \in Nat
           /\ ImageToks(r) \in [1 .. Len(ImageOf.cells) -> Token]
           /\ \A j \in 1 .. Len(ImageOf.cells) : /\ ImageToks(r)[j].seq = r
                                                 /\ ImageToks(r)[j].pos = ImageOf.cells[j].pos
  <1> DEFINE img == ImageOf
             n == Len(img.cells)
  <1>1. img \in saved
    BY DEF ImageOf
  <1>2. IsImage(img)
    BY <1>1, BooksAre
  <1> HIDE DEF img
  <1>3. n \in Nat /\ DOMAIN img.cells = 1 .. n /\ \A j \in 1 .. n : img.cells[j].pos \in 0 .. MaxLen - 1
    BY <1>2 DEF IsImage
  <1>4. ImageToks(r) = [j \in 1 .. n |-> [seq |-> r, pos |-> img.cells[j].pos]]
    BY <1>3 DEF ImageToks, img
  <1> HIDE DEF n
  <1>5. \A j \in 1 .. n : [seq |-> r, pos |-> img.cells[j].pos] \in Token
    BY <1>3 DEF Token
  <1> DEFINE toks == ImageToks(r)
  <1> HIDE DEF toks
  <1>4a. toks = [j \in 1 .. n |-> [seq |-> r, pos |-> img.cells[j].pos]]
    BY <1>4 DEF toks
  <1>6. toks \in [1 .. n -> Token]
    BY <1>4a, <1>5
  <1>6a. Len(toks) = n
    BY <1>3, <1>6
  <1>7. \A j \in 1 .. n : toks[j] = [seq |-> r, pos |-> img.cells[j].pos]
    BY <1>4a
  <1>8. \A j \in 1 .. n : toks[j].seq = r /\ toks[j].pos = img.cells[j].pos
    <2> TAKE j \in 1 .. n
    <2>1. toks[j] = [seq |-> r, pos |-> img.cells[j].pos]
      BY <1>7
    <2> QED BY <2>1
  <1> QED BY <1>1, <1>2, <1>3, <1>6, <1>6a, <1>8 DEF img, n, toks

\* What restoring a sequence does: it is emptied, and its image is put into a
\* slot, or there was none.
Restores(r, c, n, idxs) ==
    /\ RangeRemoved(cells[StreamOf(r)], c, r, 0, Infinite)
    /\ n = Len(ImageOf.cells)
    /\ \/ /\ idxs # <<>> /\ SlotOf(idxs, n) /\ n # 0 /\ DOMAIN idxs = 1 .. n
          /\ \A j \in 1 .. n : idxs[j] \in Usable(c)
          /\ \E d : /\ RefilledSome(c, d, idxs, ImageToks(r), n)
                    /\ cells' = [cells EXCEPT ![StreamOf(r)] = d]
          /\ heads' = [heads EXCEPT ![StreamOf(r)] = Last(idxs) + 1] /\ Last(idxs) + 1 \in 0 .. Size
          /\ data' = [data EXCEPT ![StreamOf(r)] =
                        Written(@, idxs, [j \in 1 .. n |-> ImageOf.cells[j].kv])]
          /\ mem' = [mem EXCEPT ![r] = ImageOf.mem] /\ ret' = "ok"
       \/ /\ idxs = <<>>
          /\ cells' = [cells EXCEPT ![StreamOf(r)] = c]
          /\ \E h \in 0 .. Size : heads' = [heads EXCEPT ![StreamOf(r)] = h]
          /\ mem' = [mem EXCEPT ![r] = <<>>] /\ ret' = "no_slot" /\ UNCHANGED data

\* What a restore does, with or without a slot.
LEMMA RestoreDoes ==
    ASSUME BooksInv, NEW r \in Seqs, RestoreSequence(r)
    PROVE  \E c, n, idxs : Restores(r, c, n, idxs)
  <1> DEFINE s == StreamOf(r)
             img == ImageOf
             c == SeqRmRange(cells[s], r, 0, Infinite)
             h == HeadAfter(cells[s], c, heads[s])
             toks == ImageToks(r)
             n == Len(toks)
             idxs == SlotCells(c, h, n)
             d == FilledStream(c, idxs, toks)
  <1>1. s \in Streams /\ cells[s] \in Good /\ heads[s] \in 0 .. Size /\ saved # {}
    BY BooksAre, StreamsAre DEF RestoreSequence
  <1>2. IF idxs # <<>>
        THEN /\ cells' = [cells EXCEPT ![s] = d]
             /\ heads' = [heads EXCEPT ![s] = Last(idxs) + 1]
             /\ data' = [data EXCEPT ![s] = Written(@, idxs, [j \in DOMAIN idxs |-> img.cells[j].kv])]
             /\ mem' = [mem EXCEPT ![r] = img.mem]
             /\ ret' = "ok"
        ELSE /\ cells' = [cells EXCEPT ![s] = c]
             /\ heads' = [heads EXCEPT ![s] = h]
             /\ mem' = [mem EXCEPT ![r] = <<>>]
             /\ ret' = "no_slot"
             /\ UNCHANGED data
    BY DEF RestoreSequence, ImageOf, ImageToks
  <1>3. n = Len(img.cells) /\ n \in Nat /\ toks \in [1 .. n -> Token]
    BY <1>1, ImageIs
  <1> HIDE DEF s, img, toks, n
  <1>4. RangeRemoved(cells[s], c, r, 0, Infinite)
    <2>1. Infinite \in Int /\ 0 \in Int
      BY Consts DEF Infinite
    <2> QED BY <1>1, <2>1, SeqRmRangeIs
  <1>5. c \in Good
    BY <1>4 DEF RangeRemoved
  <1> HIDE DEF c
  <1>6. h \in 0 .. Size
    BY <1>1, HeadAfterIs
  <1> HIDE DEF h
  <1>7. idxs # <<>> => /\ SlotOf(idxs, n) /\ n # 0 /\ DOMAIN idxs = 1 .. n
                       /\ \A j \in 1 .. n : idxs[j] \in Usable(c)
                       /\ RefilledSome(c, d, idxs, toks, n)
                       /\ Last(idxs) + 1 \in 0 .. Size
    BY <1>3, <1>5, <1>6, RefillIs
  <1> HIDE DEF d, idxs
  <1>8. CASE idxs # <<>>
    <2>1. data' = [data EXCEPT ![s] = Written(@, idxs, [j \in 1 .. n |-> img.cells[j].kv])]
      BY <1>2, <1>7, <1>8
    <2>2. Restores(r, c, n, idxs)
      BY <1>2, <1>3, <1>4, <1>7, <1>8, <2>1 DEF Restores, s, img, toks
    <2> QED BY <2>2
  <1>9. CASE idxs = <<>>
    <2>1. Restores(r, c, n, idxs)
      BY <1>2, <1>3, <1>4, <1>6, <1>9 DEF Restores, s, img, toks
    <2> QED BY <2>1
  <1> QED BY <1>8, <1>9

\* A restored sequence keeps the books.
LEMMA RestoreBooks ==
    ASSUME BooksInv, NEW r \in Seqs, RestoreSequence(r)
    PROVE  BooksNext
  <1>1. PICK c, n, idxs : Restores(r, c, n, idxs)
    BY RestoreDoes
  <1>2. Called /\ UNCHANGED <<mode, sc_info, plan, saved>> /\ saved # {}
    BY DEF RestoreSequence
  <1>3. cells \in Caches /\ heads \in Heads /\ mem \in Mems /\ DOMAIN data = Streams
    BY BooksAre
  <1>4. IsImage(ImageOf)
    BY <1>2, ImageIs
  <1>5. cells' \in Caches
    <2>1. PICK d \in Good : cells' = [cells EXCEPT ![StreamOf(r)] = d]
      BY <1>1 DEF Restores, RangeRemoved, RefilledSome, Refilled
    <2> QED BY <1>3, <2>1, CellsSet
  <1>6. heads' \in Heads
    <2>1. PICK h \in 0 .. Size : heads' = [heads EXCEPT ![StreamOf(r)] = h]
      BY <1>1 DEF Restores
    <2> QED BY <1>3, <2>1, HeadsSet
  <1>7. mem' \in Mems
    <2>1. PICK t \in Seq(Seqs \X Nat) : Len(t) <= MaxLen /\ mem' = [mem EXCEPT ![r] = t]
      <3>1. <<>> \in Seq(Seqs \X Nat) /\ Len(<<>>) <= MaxLen
        BY Consts
      <3>2. mem' = [mem EXCEPT ![r] = ImageOf.mem] \/ mem' = [mem EXCEPT ![r] = <<>>]
        BY <1>1 DEF Restores
      <3> QED BY <1>4, <3>1, <3>2 DEF IsImage
    <2> QED BY <1>3, <2>1, MemSet
  <1>8. DOMAIN data' = Streams /\ ret' \in Answers
    BY <1>1, <1>3 DEF Restores, Answers
  <1> QED BY <1>2, <1>5, <1>6, <1>7, <1>8, BooksAre, CalledBooks

\* What decode() of a batch does: nothing, or the plan for it.
Unpended == [s \in Streams |-> ResetShift(cells[s])]
Plans(a) ==
    /\ Answered(a, Unpended, LensOf(mem)) /\ Unpended \in Caches
    /\ data' = UpdatedData /\ sc_info' = <<>>
    /\ cells' = a.cells /\ heads' = a.heads /\ plan' = a.plan
    /\ ret' \in {"computing", "no_slot"}

\* The cache after the pending update.
LEMMA UnpendedIs ==
    ASSUME BooksInv
    PROVE  Unpended \in Caches
  <1>1. \A s \in Streams : ResetShift(cells[s]) \in Good
    BY BooksAre, ResetShiftIs DEF Unshifted
  <1> QED BY <1>1 DEF Unpended, Caches

\* What a decode does until its first micro batch: it plans all, or refuses.
LEMMA DecodeDoes ==
    ASSUME BooksInv, NEW batch \in Batches, Decode(batch)
    PROVE  \/ \E a : Plans(a)
           \/ ret' = "invalid" /\ UNCHANGED <<data, sc_info, cells, heads, plan>>
  <1> DEFINE ib == InitBatch([s \in Streams |-> ResetShift(cells[s])], heads, batch)
  <1>1. \A k \in DOMAIN batch : Last(batch[k].toks).pos < MaxLen
    BY DEF Decode
  <1>2. \/ /\ data' = UpdatedData /\ sc_info' = <<>> /\ cells' = ib.cells
           /\ heads' = ib.heads /\ plan' = ib.plan
           /\ ret' = IF ib.ok THEN "computing" ELSE "no_slot"
        \/ ret' = "invalid" /\ UNCHANGED <<data, sc_info, cells, heads, plan>>
    BY Zenon DEF Decode
  <1>3. ib = InitBatch(Unpended, heads, batch)
    BY DEF Unpended
  <1> HIDE DEF ib
  <1>4. PICK m : IsBatch(batch, m, LensOf(mem))
    BY <1>1, BooksAre, BatchIs
  <1>5. Answered(InitBatch(Unpended, heads, batch), Unpended, LensOf(mem))
    BY <1>4, BooksAre, UnpendedIs, InitBatchIs
  <1>6. Answered(ib, Unpended, LensOf(mem))
    BY <1>3, <1>5
  <1> QED BY <1>2, <1>6, UnpendedIs DEF Plans

\* Planning a batch keeps the books, whether it finds its slots or not.
LEMMA DecodeBooks ==
    ASSUME BooksInv, NEW batch \in Batches, Decode(batch)
    PROVE  BooksNext
  <1>1. UNCHANGED <<mode, saved, mem>> /\ Called
    BY DEF Decode
  <1>2. ops' \in 0 .. MaxOps
    BY <1>1, BooksAre, Consts DEF Called
  <1>3. CASE \E a : Plans(a)
    <2>1. PICK a : Plans(a)
      BY <1>3
    <2>2. cells' \in Caches /\ heads' \in Heads /\ PlanFor(plan', LensOf(mem))
      BY <2>1 DEF Plans, Answered
    <2>3. DOMAIN data' = Streams
      BY <2>1 DEF Plans, UpdatedData
    <2>4. sc_info' \in Seq(Seqs \X Seqs) /\ ret' \in Answers
      BY <2>1 DEF Plans, Answers
    <2> QED BY <1>1, <1>2, <2>2, <2>3, <2>4, BooksAre DEF BooksNext, Books
  <1>4. CASE ret' = "invalid" /\ UNCHANGED <<data, sc_info, cells, heads, plan>>
    <2>1. ret' \in Answers
      BY <1>4 DEF Answers
    <2> QED BY <1>1, <1>2, <1>4, <2>1, BooksAre DEF BooksNext, Books
  <1> QED BY <1>3, <1>4, DecodeDoes

\* The first micro batch of a plan that takes the sequences as far as c.
FirstOfPlan(ub, slot, c) ==
    /\ plan # <<>> /\ ub = Head(plan).ub /\ slot = Head(plan).slot
    /\ c \in Lens /\ PlanFor(Tail(plan), c)
    /\ IsUBatch(ub) /\ IsSlot(slot, ub) /\ Takes(ub, LensOf(mem), c)

\* The first micro batch of a plan.
LEMMA PlanStep ==
    ASSUME BooksInv, plan # <<>>
    PROVE  \E ub, slot, c : FirstOfPlan(ub, slot, c)
  <1>1. PlanFor(plan, LensOf(mem))
    BY BooksAre
  <1>2. PICK c : /\ c \in Lens /\ LensOf(mem) \in Lens /\ PlanFor(Tail(plan), c)
                 /\ IsUBatch(Head(plan).ub) /\ IsSlot(Head(plan).slot, Head(plan).ub)
                 /\ Takes(Head(plan).ub, LensOf(mem), c)
    BY <1>1, PlanTail
  <1>3. FirstOfPlan(Head(plan).ub, Head(plan).slot, c)
    BY <1>2 DEF FirstOfPlan
  <1> QED BY <1>3

\* What the callers believe of q after the micro batch.
Longer(q, n, t) ==
    /\ t \in Seq(Seqs \X Nat) /\ Len(t) = Len(mem[q]) + n
    /\ \A j \in 1 .. Len(mem[q]) : t[j] = mem[q][j]
    /\ \A j \in Len(mem[q]) + 1 .. Len(mem[q]) + n : t[j] = <<q, j - 1>>

\* A sequence with n tokens more.
LEMMA LongerIs ==
    ASSUME NEW q \in Seqs, mem[q] \in Seq(Seqs \X Nat), NEW n \in Nat
    PROVE  Longer(q, n, mem[q] \o [j \in 1 .. n |-> <<q, Len(mem[q]) + j - 1>>])
  <1> DEFINE x == mem[q]
             l == Len(x)
             y == [j \in 1 .. n |-> <<q, l + j - 1>>]
  <1>1. x \in Seq(Seqs \X Nat) /\ l \in Nat
    OBVIOUS
  <1>0. l = Len(x)
    OBVIOUS
  <1> HIDE DEF x, l
  <1>2. \A j \in 1 .. n : <<q, l + j - 1>> \in Seqs \X Nat
    BY <1>1
  <1>3. y \in Seq(Seqs \X Nat) /\ Len(y) = n /\ \A j \in 1 .. n : y[j] = <<q, l + j - 1>>
    BY <1>2
  <1> HIDE DEF y
  <1>4. IsJoin(x \o y, x, y, Seqs \X Nat)
    BY <1>1, <1>3, JoinIs
  <1> DEFINE z == x \o y
  <1>5. /\ z \in Seq(Seqs \X Nat) /\ Len(z) = l + n /\ \A j \in 1 .. l : z[j] = x[j]
        /\ \A j \in l + 1 .. l + n : z[j] = y[j - l]
    BY <1>0, <1>3, <1>4 DEF IsJoin
  <1> HIDE DEF z
  <1>6. \A j \in l + 1 .. l + n : z[j] = <<q, j - 1>>
    <2> TAKE j \in l + 1 .. l + n
    <2>1. j - l \in 1 .. n /\ l + (j - l) - 1 = j - 1
      BY <1>1
    <2>2. y[j - l] = <<q, l + (j - l) - 1>>
      BY <1>3, <2>1
    <2> QED BY <1>5, <2>1, <2>2
  <1>7. Longer(q, n, z)
    BY <1>0, <1>5, <1>6 DEF Longer, x, l
  <1> QED BY <1>7 DEF z, y, x, l

\* What the computation of a micro batch does.
Computes(ub, slot, c) ==
    /\ FirstOfPlan(ub, slot, c)
    /\ AppliedTo(cells, cells', ub, slot) /\ heads' \in Heads /\ data' = WrittenData(ub, slot)
    /\ mem' \in Mems /\ LensOf(mem') = c
    /\ \A q \in Seqs : Longer(q, c[q] - Len(mem[q]), mem'[q])
    /\ plan' = Tail(plan) /\ ret' \in {"ok", ret}

\* What a micro batch that is computed does.
LEMMA ComputeDoes ==
    ASSUME BooksInv, ComputeUBatch
    PROVE  \E ub, slot, c : Computes(ub, slot, c)
  <1>1. PICK ub, slot, c : FirstOfPlan(ub, slot, c)
    BY PlanStep DEF ComputeUBatch
  <1>2. /\ plan # <<>> /\ ub = Head(plan).ub /\ slot = Head(plan).slot
        /\ c \in Lens /\ IsUBatch(ub) /\ IsSlot(slot, ub) /\ Takes(ub, LensOf(mem), c)
    BY <1>1 DEF FirstOfPlan
  <1>3. /\ cells' = Applied(cells, ub, slot) /\ heads' = HeadsApplied(heads, ub, slot)
        /\ data' = WrittenData(ub, slot)
        /\ mem' = [q \in Seqs |-> mem[q] \o
                     [j \in 1 .. Cardinality(PosOf(ub, q)) |-> <<q, Len(mem[q]) + j - 1>>]]
        /\ plan' = Tail(plan) /\ ret' \in {"ok", ret}
    BY <1>2 DEF ComputeUBatch
  <1>4. AppliedTo(cells, cells', ub, slot) /\ heads' \in Heads
    BY <1>2, <1>3, BooksAre, AppliedIs, HeadsAppliedIs
  <1>5. ASSUME NEW q \in Seqs
        PROVE  Longer(q, c[q] - Len(mem[q]), mem'[q]) /\ Len(mem'[q]) = c[q] /\ c[q] \in 0 .. MaxLen
    <2>1. /\ Cardinality(PosOf(ub, q)) = c[q] - LensOf(mem)[q] /\ LensOf(mem)[q] \in Nat
          /\ c[q] \in 0 .. MaxLen /\ LensOf(mem)[q] <= c[q]
      BY <1>2, BooksAre, PosOfIs
    <2>2. LensOf(mem)[q] = Len(mem[q]) /\ mem[q] \in Seq(Seqs \X Nat)
      BY BooksAre
    <2>3. PICK n \in Nat : n = Cardinality(PosOf(ub, q)) /\ n = c[q] - Len(mem[q])
      BY <2>1, <2>2
    <2>4. mem'[q] = mem[q] \o [j \in 1 .. n |-> <<q, Len(mem[q]) + j - 1>>]
      BY <1>3, <2>3
    <2>5. Longer(q, n, mem'[q])
      BY <2>2, <2>4, LongerIs
    <2>6. Len(mem'[q]) = Len(mem[q]) + n
      BY <2>5 DEF Longer
    <2> QED BY <2>1, <2>2, <2>3, <2>5, <2>6
  <1>6. mem' \in Mems
    <2>1. \A q \in Seqs : mem'[q] \in Seq(Seqs \X Nat) /\ Len(mem'[q]) <= MaxLen
      BY <1>5, Consts DEF Longer
    <2> QED BY <1>3, <2>1 DEF Mems
  <1>7. LensOf(mem') = c
    <2>1. \A q \in Seqs : LensOf(mem')[q] = c[q]
      BY <1>5 DEF LensOf
    <2>2. c \in [Seqs -> 0 .. MaxLen]
      BY <1>2 DEF Lens
    <2> QED BY <2>1, <2>2 DEF LensOf
  <1>8. Computes(ub, slot, c)
    BY <1>1, <1>3, <1>4, <1>5, <1>6, <1>7 DEF Computes
  <1> QED BY <1>8

\* A computed micro batch keeps the books.
LEMMA ComputeBooks ==
    ASSUME BooksInv, ComputeUBatch
    PROVE  BooksNext
  <1>1. PICK ub, slot, c : Computes(ub, slot, c)
    BY ComputeDoes
  <1>2. UNCHANGED <<mode, sc_info, saved, ops>>
    BY DEF ComputeUBatch
  <1>3. cells' \in Caches /\ heads' \in Heads /\ mem' \in Mems /\ PlanFor(plan', LensOf(mem'))
    BY <1>1 DEF Computes, AppliedTo, FirstOfPlan
  <1>4. DOMAIN data' = Streams
    BY <1>1 DEF Computes, WrittenData
  <1>5. ret' \in Answers
    BY <1>1, BooksAre DEF Computes, Answers
  <1> QED BY <1>2, <1>3, <1>4, <1>5, BooksAre DEF BooksNext, Books

Own(ub, s) == {q \in Seqs : PosOf(ub, q) # {} /\ StreamOf(q) = s}

\* What an aborted micro batch does: it is filled into its slot and withdrawn.
Aborts(ub, slot, c, as) ==
    /\ FirstOfPlan(ub, slot, c)
    /\ AppliedTo(cells, as, ub, slot)
    /\ cells' \in Caches /\ heads' \in Heads /\ plan' = <<>>
    /\ \A s \in Streams : WithdrawnOf(cells'[s], as[s], LensOf(mem), Own(ub, s))

\* What a micro batch that is aborted does.
LEMMA AbortDoes ==
    ASSUME BooksInv, AbortUBatch
    PROVE  \E ub, slot, c, as : Aborts(ub, slot, c, as)
  <1>1. PICK ub, slot, c : FirstOfPlan(ub, slot, c)
    BY PlanStep DEF AbortUBatch
  <1>2. /\ plan # <<>> /\ ub = Head(plan).ub /\ slot = Head(plan).slot
        /\ c \in Lens /\ IsUBatch(ub) /\ IsSlot(slot, ub) /\ Takes(ub, LensOf(mem), c)
    BY <1>1 DEF FirstOfPlan
  <1> DEFINE as == Applied(cells, ub, slot)
             hs == HeadsApplied(heads, ub, slot)
             own == {q \in Seqs : PosOf(ub, q) # {}}
             left == [s \in Streams |-> Withdrawn(as[s], ub, {q \in own : StreamOf(q) = s})]
  <1>3. /\ cells' = left /\ heads' = [s \in Streams |-> HeadAfter(as[s], left[s], hs[s])]
        /\ plan' = <<>>
    BY <1>2 DEF AbortUBatch
  <1>4. AppliedTo(cells, as, ub, slot) /\ hs \in Heads
    BY <1>2, BooksAre, AppliedIs, HeadsAppliedIs
  <1>5. \A s \in Streams : {q \in own : StreamOf(q) = s} = Own(ub, s)
    BY DEF Own
  <1> HIDE DEF as, hs
  <1>6. \A s \in Streams : left[s] = Withdrawn(as[s], ub, Own(ub, s))
    BY <1>5
  <1> HIDE DEF own, left
  <1>7. \A s \in Streams : as[s] \in Good /\ hs[s] \in 0 .. Size
    BY <1>4 DEF AppliedTo, Caches, Heads
  <1> DEFINE lo == LensOf(mem)
  <1>8. \A s : \A q \in Own(ub, s) : lo[q] \in Int /\ lo[q] = Min(PosOf(ub, q))
    <2> TAKE s
    <2> TAKE q \in Own(ub, s)
    <2>1. q \in Seqs /\ PosOf(ub, q) # {}
      BY DEF Own
    <2>2. Min(PosOf(ub, q)) = LensOf(mem)[q] /\ LensOf(mem)[q] \in Nat
      BY <1>2, <2>1, BooksAre, PosOfIs
    <2> QED BY <2>2
  <1> HIDE DEF lo
  <1>9. ASSUME NEW s \in Streams
        PROVE  WithdrawnOf(left[s], as[s], lo, Own(ub, s))
    <2> DEFINE S == Own(ub, s)
    <2>1. S \in SUBSET Seqs
      BY DEF Own
    <2>2. \A q \in S : lo[q] \in Int /\ lo[q] = Min(PosOf(ub, q))
      BY <1>8
    <2> HIDE DEF S
    <2>3. WithdrawnOf(Withdrawn(as[s], ub, S), as[s], lo, S)
      BY <1>7, <2>1, <2>2, WithdrawnIs
    <2> QED BY <1>6, <2>3 DEF S
  <1>10. \A s \in Streams : left[s] \in Good
    BY <1>9 DEF WithdrawnOf
  <1>11. cells' \in Caches
    BY <1>3, <1>10 DEF Caches, left
  <1>12. heads' \in Heads
    <2>1. \A s \in Streams : HeadAfter(as[s], left[s], hs[s]) \in 0 .. Size
      BY <1>7, HeadAfterIs
    <2> QED BY <1>3, <2>1 DEF Heads
  <1>13. \A s \in Streams : WithdrawnOf(cells'[s], as[s], LensOf(mem), Own(ub, s))
    BY <1>3, <1>9 DEF lo
  <1>14. Aborts(ub, slot, c, as)
    BY <1>1, <1>3, <1>4, <1>11, <1>12, <1>13 DEF Aborts
  <1> QED BY <1>14

\* An aborted micro batch keeps the books.
LEMMA AbortBooks ==
    ASSUME BooksInv, AbortUBatch
    PROVE  BooksNext
  <1>1. PICK ub, slot, c, as : Aborts(ub, slot, c, as)
    BY AbortDoes
  <1>2. UNCHANGED <<mode, sc_info, data, saved, mem, ops>> /\ ret' = "aborted"
    BY DEF AbortUBatch
  <1>3. cells' \in Caches /\ heads' \in Heads /\ plan' = <<>>
    BY <1>1 DEF Aborts
  <1>4. PlanFor(plan', LensOf(mem))
    BY <1>3, BooksAre, NoPlan
  <1>5. ret' \in Answers
    BY <1>2 DEF Answers
  <1> QED BY <1>2, <1>3, <1>4, <1>5, BooksAre DEF BooksNext, Books

\* The mode does not change, and so the invariant means the same in both states.
LEMMA ModeStays ==
    ASSUME Next
    PROVE  mode' = mode
  BY DEF Next, Decode, ComputeUBatch, AbortUBatch, Truncate, CutAndShift, CopySequence,
         KeepSequence, SaveSequence, RestoreSequence, Clear

\* What depends on the mode only stays.
LEMMA SameMode ==
    ASSUME mode' = mode
    PROVE  /\ Streams' = Streams /\ Caches' = Caches /\ Heads' = Heads
           /\ \A q : StreamOf(q)' = StreamOf(q)
  <1>1. Streams' = Streams
    BY DEF Streams
  <1> QED BY <1>1 DEF Caches, Heads, StreamOf

\* The invariant in terms of the next state.
LEMMA BooksKept ==
    ASSUME BooksInv, mode' = mode, BooksNext
    PROVE  BooksInv'
  <1>1. Streams' = Streams /\ \A q : StreamOf(q)' = StreamOf(q)
    BY SameMode
  <1>2. /\ cells' \in Caches /\ heads' \in Heads /\ DOMAIN data' = Streams
        /\ sc_info' \in Seq(Seqs \X Seqs)
        /\ mem' \in Mems /\ PlanFor(plan', LensOf(mem'))
        /\ \A img \in saved' : IsImage(img)
        /\ ret' \in Answers /\ ops' \in 0 .. MaxOps
    BY DEF BooksNext, Books
  <1>3. PICK base : PlanOf(plan', base) /\ base[1] = LensOf(mem')
    BY <1>2 DEF PlanFor
  <1>4. (\E S : plan' \in Seq(S)) /\ base \in [1 .. Len(plan') + 1 -> Lens]
    BY <1>3 DEF PlanOf
  <1>5. ASSUME NEW u \in 1 .. Len(plan')
        PROVE  /\ IsUBatch(plan[u].ub)' /\ IsSlot(plan[u].slot, plan[u].ub)'
               /\ Takes(plan[u].ub, base[u], base[u + 1])'
    <2>1. /\ IsUBatch(plan'[u].ub) /\ IsSlot(plan'[u].slot, plan'[u].ub)
          /\ Takes(plan'[u].ub, base[u], base[u + 1])
      BY <1>3 DEF PlanOf
    <2>2. IsUBatch(plan[u].ub)'
      BY <1>1, <2>1 DEF IsUBatch
    <2>3. IsSlot(plan[u].slot, plan[u].ub)'
      BY <2>1 DEF IsSlot
    <2>4. Takes(plan[u].ub, base[u], base[u + 1])'
      BY <1>1, <2>1 DEF Takes
    <2> QED BY <2>2, <2>3, <2>4
  <1>6. PlanOf(plan, base)'
    BY <1>4, <1>5 DEF PlanOf
  <1>7. (base[1] = LensOf(mem))'
    BY <1>3
  <1>8. PlanFor(plan, LensOf(mem))'
    BY <1>6, <1>7 DEF PlanFor
  <1>9. Caches' = Caches /\ Heads' = Heads
    BY SameMode
  <1>10. (mode \in Modes)'
    BY DEF BooksInv
  <1>11. (/\ cells \in Caches /\ heads \in Heads /\ DOMAIN data = Streams
          /\ sc_info \in Seq(Seqs \X Seqs)
          /\ mem \in Mems /\ PlanFor(plan, LensOf(mem))
          /\ \A img \in saved : IsImage(img)
          /\ ret \in Answers /\ ops \in 0 .. MaxOps)'
    BY <1>1, <1>2, <1>8, <1>9
  <1> QED BY <1>10, <1>11 DEF BooksInv, Books

\* The books are right in the beginning.
LEMMA BooksInit == Init => BooksInv
  <1> SUFFICES ASSUME Init PROVE BooksInv
    OBVIOUS
  <1>1. cells \in Caches /\ heads \in Heads /\ DOMAIN data = Streams
    BY EmptyIsGood, Consts DEF Init, Caches, Heads
  <1>2. sc_info \in Seq(Seqs \X Seqs)
    BY DEF Init
  <1>3. mem \in Mems
    BY NoMem DEF Init
  <1>4. PlanFor(plan, LensOf(mem))
    <2>1. LensOf(mem) \in Lens
      BY <1>3, LensAre
    <2>2. PlanFor(<<>>, LensOf(mem))
      BY <2>1, NoPlan
    <2> QED BY <2>2 DEF Init
  <1>5. ops \in 0 .. MaxOps /\ ret \in Answers /\ mode \in Modes /\ saved = {}
    BY Consts DEF Init, Answers
  <1> QED BY <1>1, <1>2, <1>3, <1>4, <1>5 DEF BooksInv, Books

\* Every step keeps the books.
LEMMA BooksStep == BooksInv /\ Next => BooksInv'
  <1> SUFFICES ASSUME BooksInv, Next PROVE BooksNext
    BY BooksKept, ModeStays
  <1>1. ASSUME NEW batch \in Batches, Decode(batch) PROVE BooksNext
    BY <1>1, DecodeBooks
  <1>2. CASE ComputeUBatch
    BY <1>2, ComputeBooks
  <1>3. CASE AbortUBatch
    BY <1>3, AbortBooks
  <1>4. ASSUME NEW q \in Seqs, NEW p \in 0 .. MaxLen, Truncate(q, p) PROVE BooksNext
    BY <1>4, TruncateBooks
  <1>5. ASSUME NEW q \in Seqs, NEW to \in 0 .. MaxLen, NEW from \in 0 .. MaxLen,
               NEW n \in 0 .. MaxLen, CutAndShift(q, to, from, n)
        PROVE  BooksNext
    BY <1>5, CutBooks
  <1>6. ASSUME NEW q \in Seqs, NEW r \in Seqs, CopySequence(q, r) PROVE BooksNext
    BY <1>6, CopyBooks
  <1>7. ASSUME NEW q \in Seqs, KeepSequence(q) PROVE BooksNext
    BY <1>7, KeepBooks
  <1>8. ASSUME NEW q \in Seqs, SaveSequence(q) PROVE BooksNext
    BY <1>8, SaveBooks
  <1>9. ASSUME NEW q \in Seqs, RestoreSequence(q) PROVE BooksNext
    BY <1>9, RestoreBooks
  <1>10. CASE Clear
    BY <1>10, ClearBooks
  <1> QED BY <1>1, <1>2, <1>3, <1>4, <1>5, <1>6, <1>7, <1>8, <1>9, <1>10 DEF Next

\* The books are always right.
LEMMA BooksAlways == Spec => []BooksInv
  <1>1. BooksInv /\ UNCHANGED vars => BooksInv'
    <2> SUFFICES ASSUME BooksInv, UNCHANGED vars PROVE BooksInv'
      OBVIOUS
    <2>1. BooksNext /\ mode' = mode
      BY DEF BooksInv, BooksNext, vars
    <2> QED BY <2>1, BooksKept
  <1> QED BY BooksInit, BooksStep, <1>1, PTL DEF Spec

\* The redundant state of llama_kv_cells agrees with the cells, whatever was
\* decoded, aborted, cut, copied, shifted or restored: used is the set of cells in
\* use, seq_pos counts the positions of every sequence, and a cell is in use when
\* it belongs to some sequence.
THEOREM BookkeepingAlways == Spec => []Bookkeeping
  <1>1. BooksInv => Bookkeeping
    <2> SUFFICES ASSUME BooksInv PROVE Bookkeeping
      OBVIOUS
    <2>1. \A s \in Streams : cells[s] \in Good /\ heads[s] \in 0 .. Size
      BY BooksAre
    <2>2. \A c \in Good : /\ c.pos \in [Idx -> -1 .. MaxLen - 1] /\ c.seq \in [Idx -> SUBSET Seqs]
                            /\ c.used \in SUBSET Idx
      BY DEF Good, CellsType
    <2>3. TypeOK
      <3>1. \A k \in DOMAIN sc_info : sc_info[k] \in Seqs \X Seqs
        BY BooksAre
      <3>2. DOMAIN data = Streams /\ DOMAIN cells = Streams
        BY BooksAre DEF Caches
      <3>3. mode \in Modes
        BY DEF BooksInv
      <3>4. \A q \in Seqs : Len(mem[q]) <= MaxLen
        BY BooksAre, Consts
      <3> QED BY <2>1, <2>2, <3>1, <3>2, <3>3, <3>4, BooksAre DEF TypeOK, Answers
    <2>4. ASSUME NEW s \in Streams
          PROVE  LET c == cells[s] IN
                 /\ c.used = {i \in Idx : c.pos[i] # -1}
                 /\ c.used = {i \in Idx : c.seq[i] # {}}
                 /\ \A q \in Seqs, p \in 0 .. MaxLen :
                       c.seq_pos[q][p] = Cardinality({i \in Idx : q \in c.seq[i] /\ c.pos[i] = p})
                 /\ c.has_shift \/ \A i \in Idx : c.shift[i] = 0
      <3> DEFINE c == cells[s]
      <3>1. c \in Good
        BY <2>1
      <3> HIDE DEF c
      <3>2. Counted(c) /\ Marked(c) /\ Announced(c) /\ c.used \in SUBSET Idx
        BY <2>2, <3>1 DEF Good
      <3>3. c.used = {i \in Idx : c.pos[i] # -1} /\ c.used = {i \in Idx : c.seq[i] # {}}
        BY <3>2 DEF Marked
      <3>4. \A q \in Seqs, p \in 0 .. MaxLen :
               c.seq_pos[q][p] = Cardinality({i \in Idx : q \in c.seq[i] /\ c.pos[i] = p})
        BY <3>2 DEF Counted, Holders
      <3> QED BY <3>2, <3>3, <3>4 DEF Announced, c
    <2> QED BY <2>3, <2>4 DEF Bookkeeping
  <1> QED BY <1>1, BooksAlways, PTL

-----------------------------------------------------------------------------
(* Room is found.                                                          *)

\* A batch that the usable cells can hold finds its slots in init_batch(): the search
\* of find_slot() from the remembered head misses no cell, and what prepare() does
\* for one micro batch takes no room from the next.
THEOREM RoomIsAlwaysFound == Spec => []RoomIsFound
  <1>1. BooksInv => RoomIsFound
    <2> SUFFICES ASSUME BooksInv, NEW batch \in Batches,
                        \A k \in DOMAIN batch : Last(batch[k].toks).pos < MaxLen,
                        \A s \in Streams : Len(TokensFor(batch, s))
                                             <= Cardinality({i \in Idx : CanUse(cells[s], i)})
                 PROVE  InitBatch(cells, heads, batch).ok
      BY DEF RoomIsFound
    <2>1. Roomy(cells, batch)
      BY DEF Roomy, Usable
    <2>2. PICK m : IsBatch(batch, m, LensOf(mem))
      BY BooksAre, BatchIs
    <2> QED BY <2>1, <2>2, BooksAre, InitBatchIs
  <1> QED BY <1>1, BooksAlways, PTL
=============================================================================
