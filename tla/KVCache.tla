------------------------------- MODULE KVCache -------------------------------
(***************************************************************************)
(* The KV cache of a llama context (src/llama-kv-cache.cpp) over the cells *)
(* of src/llama-kv-cells.h: which token of which sequence lives in which   *)
(* cell, and whether the key and value data in that cell belong to it.     *)
(*                                                                         *)
(* A cache is used in one of three ways, chosen at construction:           *)
(*   "unified"  all sequences share one stream of cells;                   *)
(*   "streams"  every sequence has a stream of its own, a copy of a        *)
(*              sequence copies data, and does so only at the next update; *)
(*   "swa"      one stream, with a sliding window of NSwa positions: cells *)
(*              that no token can see any more are overwritten.            *)
(*                                                                         *)
(* The callers are the server and the examples: decode, truncate, cut and  *)
(* shift, copy, keep, clear, save and restore a sequence.  mem is a ghost: *)
(* what the caller believes each sequence holds, one token per position.   *)
(* A token is the pair of the sequence and the position it was decoded at. *)
(***************************************************************************)
EXTENDS Integers, Sequences, FiniteSets, SequencesExt, FiniteSetsExt

CONSTANTS
    NSeq,         \* sequences (n_seq_max)
    Size,         \* cells of a stream (kv_size)
    NSwa,         \* width of the sliding window
    UBatch,       \* tokens of a micro batch (n_ubatch)
    MaxLen,       \* bound: tokens of a sequence
    MaxNew,       \* bound: tokens of one sequence in a batch
    MaxOps,       \* bound: calls of the callers
    Modes,        \* the ways of use to explore
    EagerState,   \* may a caller save or restore while updates are pending
    Lookahead     \* may a batch with a sliding window be several micro batches

ASSUME KVAssumption ==
    /\ {NSeq, Size, NSwa, UBatch, MaxLen, MaxNew, MaxOps} \subseteq Nat \ {0}
    /\ Modes \subseteq {"unified", "streams", "swa"}
    /\ {EagerState, Lookahead} \subseteq BOOLEAN

VARIABLES
    mode,         \* how the cache is used
    cells,        \* stream -> llama_kv_cells
    heads,        \* stream -> where the next search for a slot starts
    sc_info,      \* stream copies waiting for the next update
    data,         \* stream -> cell -> the token and the position its key was rotated to
    plan,         \* the micro batches still to compute, each with its slots
    saved,        \* the saved state of a sequence, or {}
    ret,          \* the answer of the last call
    mem,          \* ghost: sequence -> its tokens
    ops           \* calls so far

vars == <<mode, cells, heads, sc_info, data, plan, saved, ret, mem, ops>>

Seqs == 0 .. NSeq - 1
Idx == 0 .. Size - 1
Streams == IF mode = "streams" THEN Seqs ELSE {0}
StreamOf(q) == IF mode = "streams" THEN q ELSE 0      \* seq_to_stream
NoToken == <<-1, -1>>

----------------------------------------------------------------------------
(* llama_kv_cells                                                          *)

EmptyCells ==
    [pos |-> [i \in Idx |-> -1], shift |-> [i \in Idx |-> 0],
     seq |-> [i \in Idx |-> {}], used |-> {}, has_shift |-> FALSE,
     seq_pos |-> [q \in Seqs |-> [p \in 0 .. MaxLen |-> 0]]]

\* seq_pos_inc() and seq_pos_dec() for every sequence of cell i.
SeqPosCount(c, i, qs, d) ==
    [c EXCEPT !.seq_pos = [q \in Seqs |->
        IF q \in qs THEN [c.seq_pos[q] EXCEPT ![c.pos[i]] = @ + d] ELSE c.seq_pos[q]]]
SeqPosAdd(c, i) == SeqPosCount(c, i, c.seq[i], 1)
SeqPosRm(c, i) == SeqPosCount(c, i, c.seq[i], -1)

SeqPosSet(c, q) == {p \in 0 .. MaxLen : c.seq_pos[q][p] > 0}
SeqPosMin(c, q) == IF SeqPosSet(c, q) = {} THEN -1 ELSE Min(SeqPosSet(c, q))
SeqPosMax(c, q) == IF SeqPosSet(c, q) = {} THEN -1 ELSE Max(SeqPosSet(c, q))

Emptied(c, i) ==
    [c EXCEPT !.pos[i] = -1, !.shift[i] = 0, !.seq[i] = {}, !.used = @ \ {i}]

Rm(c, i) == Emptied(SeqPosRm(c, i), i)

SeqRm(c, i, q) ==
    LET d == [SeqPosCount(c, i, {q}, -1) EXCEPT !.seq[i] = @ \ {q}]
    IN  IF d.seq[i] = {} THEN Emptied(d, i) ELSE d

SeqKeep(c, i, q) ==
    IF q \in c.seq[i] THEN SeqPosAdd([SeqPosRm(c, i) EXCEPT !.seq[i] = {q}], i)
    ELSE IF c.seq[i] # {} THEN Rm(c, i) ELSE c

SeqAdd(c, i, q) == [SeqPosCount(c, i, {q}, 1) EXCEPT !.seq[i] = @ \cup {q}]

PosSet(c, i, p) == [c EXCEPT !.pos[i] = p, !.used = @ \cup {i}]

\* A bug of the kind pos_add() could have: the counts keep the old position.
PosAdd_Uncounted(c, i, d) ==
    [c EXCEPT !.pos[i] = @ + d, !.shift[i] = @ + d, !.has_shift = TRUE]

PosAdd(c, i, d) ==
    LET moved == [SeqPosRm(c, i) EXCEPT !.pos[i] = @ + d, !.shift[i] = @ + d,
                                        !.has_shift = TRUE]
    IN  IF moved.pos[i] < 0 THEN Emptied(moved, i) ELSE SeqPosAdd(moved, i)

\* cp() of a cell of a slot, and set() of it back.
Copied(c, i) == [pos |-> c.pos[i], seq |-> c.seq[i]]

SetCell(c, i, old) ==
    LET gone == IF c.pos[i] # -1 THEN SeqPosRm(c, i) ELSE c
        back == [gone EXCEPT !.pos[i] = old.pos, !.seq[i] = old.seq,
                             !.used = IF old.pos = -1 THEN @ \ {i} ELSE @ \cup {i}]
    IN  IF old.pos # -1 THEN SeqPosAdd(back, i) ELSE back

----------------------------------------------------------------------------
(* llama_kv_cache: the sequence operations                                 *)

PosIn(c, p0, p1) == {i \in Idx : c.pos[i] >= p0 /\ c.pos[i] < p1}
Infinite == MaxLen + 1

\* The cells of q with a position in [p0, p1) leave q.
SeqRmRange(c, q, p0, p1) ==
    FoldSet(LAMBDA i, acc : SeqRm(acc, i, q), c,
            {i \in PosIn(c, p0, p1) : q \in c.seq[i]})

SeqAddRange(c, q, p0, p1, d) ==
    FoldSet(LAMBDA i, acc : PosAdd(acc, i, d), c,
            {i \in PosIn(c, p0, p1) : q \in c.seq[i]})

\* r joins the cells of q; the others leave the cells.
SeqCpCells(c, q, r) ==
    FoldSet(LAMBDA i, acc : SeqAdd(acc, i, r), c, {i \in Idx : q \in c.seq[i]})

SeqKeepCells(c, q) == FoldSet(LAMBDA i, acc : SeqKeep(acc, i, q), c, Idx)

\* The cells that were used in c and are not in d.
Freed(c, d) == c.used \ d.used

\* "If we freed up a slot, set head to it so searching can start there."
HeadAfter(c, d, head) ==
    IF Freed(c, d) # {} /\ Min(Freed(c, d)) < head THEN Min(Freed(c, d)) ELSE head

\* Stream s changes to d, its head follows.
Becomes(s, d) ==
    /\ cells' = [cells EXCEPT ![s] = d]
    /\ heads' = [heads EXCEPT ![s] = HeadAfter(cells[s], d, @)]

\* get_has_shift() and a copy in sc_info: what memory_update() would do.
Pending == sc_info # <<>> \/ \E s \in Streams : cells[s].has_shift

\* update(): first the copies between streams, in order, then the K-shift of
\* every cell.
AfterCopies ==
    FoldLeft(LAMBDA dt, copy : [dt EXCEPT ![copy[2]] = dt[copy[1]]], data, sc_info)

Shifted(c, dt) ==
    [i \in Idx |-> [dt[i] EXCEPT !.at = IF c.pos[i] = -1 THEN @ ELSE @ + c.shift[i]]]

UpdatedData == [s \in Streams |-> Shifted(cells[s], AfterCopies[s])]

\* reset_shift()
ResetShift(c) == [c EXCEPT !.has_shift = FALSE, !.shift = [i \in Idx |-> 0]]

----------------------------------------------------------------------------
(* llama_kv_cache: finding a slot and filling it                           *)

\* llama_hparams::is_masked_swa(), the standard window.
Masked(p0, p1) == mode = "swa" /\ p1 - p0 >= NSwa

\* A bug of the kind find_slot() could have: a cell shared by sequences is
\* judged by one of them.
CanUse_Shared(c, i) ==
    \/ c.pos[i] = -1
    \/ \E q \in c.seq[i] : Masked(c.pos[i], SeqPosMax(c, q) + 1)

CanUse(c, i) ==
    \/ c.pos[i] = -1
    \/ \E q \in Seqs : c.seq[i] = {q} /\ Masked(c.pos[i], SeqPosMax(c, q) + 1)

\* Where the search starts: "if we have enough unused cells before the current
\* head, better to start searching from the beginning of the cache".
SearchFrom(c, head, n) ==
    IF head > Cardinality(c.used) + 2 * n \/ head >= Size THEN 0 ELSE head

\* The elements of a finite set of numbers, the smallest first.
Ordered(S) ==
    [j \in 1 .. Cardinality(S) |->
        CHOOSE x \in S : Cardinality({y \in S : y <= x}) = j]

\* A bug of the kind find_slot() could have: the search ends with the cache.
Around_NoWrap(from) == [k \in 1 .. Size - from |-> from + k - 1]

Around(from) == [k \in 1 .. Size |-> (from + k - 1) % Size]

\* The first n usable cells from there on, around the end of the cache; <<>>
\* when there are fewer.
SlotCells(c, head, n) ==
    LET order == Around(SearchFrom(c, head, n))
        good  == Ordered({k \in DOMAIN order : CanUse(c, order[k])})
    IN  IF Len(good) < n THEN <<>> ELSE [j \in 1 .. n |-> order[good[j]]]

\* find_slot(): a micro batch is a function from the streams that take part in it
\* to their tokens, a slot one from them to as many cells; <<>> when a stream has
\* no room.
AllOrNothing(found) == IF \E s \in DOMAIN found : found[s] = <<>> THEN <<>> ELSE found

FindSlot(cs, hs, ub) ==
    AllOrNothing([s \in DOMAIN ub |-> SlotCells(cs[s], hs[s], Len(ub[s]))])

\* One token into one cell; rm remembers the largest position of each sequence
\* that was overwritten (seq_pos_max_rm).
Placed(acc, i, tok) ==
    LET old == acc.c
        q   == CHOOSE r \in old.seq[i] : TRUE
        own == old.pos[i] # -1
    IN  [c  |-> SeqAdd(PosSet(IF own THEN Rm(old, i) ELSE old, i, tok.pos), i, tok.seq),
         rm |-> IF own THEN [acc.rm EXCEPT ![q] = Max({@, old.pos[i]})] ELSE acc.rm]

\* A bug of the kind apply_ubatch() could have: older positions stay.
Purged_Kept(filled) == filled.c

\* "we want to preserve the invariant that all positions between
\* [pos_min, pos_max] for each sequence will be present in the cache"
Purged(filled) ==
    FoldSet(LAMBDA q, acc : SeqRmRange(acc, q, 0, filled.rm[q] + 1), filled.c,
            {q \in Seqs : filled.rm[q] # -1})

FilledStream(c, idxs, toks) ==
    Purged(FoldLeftDomain(LAMBDA acc, j : Placed(acc, idxs[j], toks[j]),
                          [c |-> c, rm |-> [q \in Seqs |-> -1]], toks))

\* apply_ubatch(): fill the slot, purge, move the heads behind the slot.
Applied(cs, ub, slot) ==
    [s \in DOMAIN cs |->
        IF s \in DOMAIN ub THEN FilledStream(cs[s], slot[s], ub[s]) ELSE cs[s]]

HeadsApplied(hs, ub, slot) ==
    [s \in DOMAIN hs |-> IF s \in DOMAIN ub THEN Last(slot[s]) + 1 ELSE hs[s]]

----------------------------------------------------------------------------
(* llama_kv_cache: preparing a batch                                       *)

\* One step of prepare(): find a slot for the next micro batch and fill it; after
\* the first one without a slot nothing more is tried.
Filled(prev, ub, slot) ==
    IF slot = <<>> THEN [prev EXCEPT !.ok = FALSE]
    ELSE [ok |-> TRUE, slot |-> slot, cells |-> Applied(prev.cells, ub, slot),
          heads |-> HeadsApplied(prev.heads, ub, slot)]

Tried(prev, ub) ==
    IF prev.ok THEN Filled(prev, ub, FindSlot(prev.cells, prev.heads, ub)) ELSE prev

\* A bug of the kind prepare() could have: the filled cells are not restored.
Undone_Kept(cs, old, ub, slot) == cs

\* The cells of the slot become what they were in old; the purged ones do not.
UndoneStream(c, old, idxs) ==
    FoldLeftDomain(LAMBDA acc, j : SetCell(acc, idxs[j], Copied(old, idxs[j])), c, idxs)

Undone(cs, old, ub, slot) ==
    [s \in DOMAIN cs |->
        IF s \in DOMAIN ub THEN UndoneStream(cs[s], old[s], slot[s]) ELSE cs[s]]

\* The head of every part's stream; the code takes the k-th old head for the
\* k-th part of the micro batch (they are consecutive streams), and the stream
\* of that part need not be the k-th.
HeadsUndone(hs, old, ub) ==
    [s \in DOMAIN hs |-> IF s \in DOMAIN ub THEN old[s - Min(DOMAIN ub)] ELSE hs[s]]

\* One step back, from the cache after ub was filled to the one before.
Restored(now, before, after, ub) ==
    IF after.ok
    THEN [cells |-> Undone(now.cells, before.cells, ub, after.slot),
          heads |-> HeadsUndone(now.heads, before.heads, ub)]
    ELSE now

\* The cache before the first micro batch, and after each of them.
Attempts(cs, hs, ubs) ==
    FoldLeft(LAMBDA acc, ub : Append(acc, Tried(Last(acc), ub)),
             <<[ok |-> TRUE, slot |-> <<>>, cells |-> cs, heads |-> hs]>>, ubs)

\* prepare(): the slots of all micro batches, and the cache as it leaves it.
Prepared(cs, hs, ubs) ==
    LET tried == Attempts(cs, hs, ubs)
        end   == Last(tried)
        left  == FoldRightDomain(LAMBDA u, now : Restored(now, tried[u], tried[u + 1], ubs[u]),
                                 ubs, [cells |-> end.cells, heads |-> end.heads])
    IN  [ok |-> end.ok, slots |-> [u \in DOMAIN ubs |-> tried[u + 1].slot],
         cells |-> left.cells, heads |-> left.heads]

----------------------------------------------------------------------------
(* llama_batch_allocr: splitting a batch into micro batches                *)

\* The tokens of a batch, and those of stream s.
TokensOf(runs) == FlattenSeq([r \in DOMAIN runs |-> runs[r].toks])
TokensFor(runs, s) ==
    FlattenSeq([r \in DOMAIN runs |-> IF StreamOf(runs[r].seq) = s THEN runs[r].toks ELSE <<>>])

\* split_simple(): the tokens in their order, UBatch at a time, in one stream.
Simple(runs) ==
    LET all == TokensOf(runs)
    IN  [u \in 1 .. (Len(all) + UBatch - 1) \div UBatch |->
            [s \in {0} |-> SubSeq(all, (u - 1) * UBatch + 1, Min({u * UBatch, Len(all)}))]]

\* done says how many tokens of each run are already in a micro batch.
Live(runs, done) == {r \in DOMAIN runs : done[r] < Len(runs[r].toks)}

\* The runs that take part in the next equal split: all that have tokens left, or,
\* for streams, the first of them and those that go on with consecutive numbers.
EqualGroup(runs, done) ==
    LET live == Live(runs, done)
        last[r \in 0 .. Len(runs)] ==      \* the last sequence taken up to r
            IF r = 0 THEN -1
            ELSE IF r \in live /\ last[r - 1] \in {-1, runs[r].seq - 1} THEN runs[r].seq
            ELSE last[r - 1]
    IN  IF mode = "streams" THEN {r \in live : last[r] = runs[r].seq} ELSE live

Lengths(runs) == [r \in DOMAIN runs |-> Len(runs[r].toks)]

\* As many tokens of each, UBatch in all.
TakenBy(runs, done) ==
    LET group == EqualGroup(runs, done)
        n     == Min({Max({1, UBatch \div Cardinality(group)})}
                     \cup {Len(runs[r].toks) - done[r] : r \in group})
    IN  IF done = Lengths(runs) THEN done
        ELSE [r \in DOMAIN runs |-> IF r \in group THEN done[r] + n ELSE done[r]]

\* The tokens of stream s between two splits.
Part(runs, s, done, next) ==
    FlattenSeq([r \in DOMAIN runs |->
        IF StreamOf(runs[r].seq) = s THEN SubSeq(runs[r].toks, done[r] + 1, next[r])
        ELSE <<>>])

\* What is done before the first split and after each; there are no more splits
\* than tokens.
Splits(runs) ==
    FoldLeft(LAMBDA acc, t : Append(acc, TakenBy(runs, Last(acc))),
             <<[r \in DOMAIN runs |-> 0]>>, TokensOf(runs))

\* split_equal(), until no run has tokens left.
Equal(runs) ==
    LET done == Splits(runs)
    IN  [u \in 1 .. Cardinality({v \in DOMAIN TokensOf(runs) : done[v] # Lengths(runs)}) |->
            [s \in {StreamOf(runs[r].seq) : r \in EqualGroup(runs, done[u])} |->
                Part(runs, s, done[u], done[u + 1])]]

Answer(p, ubs) ==
    [ok   |-> p.ok, cells |-> p.cells, heads |-> p.heads,
     plan |-> IF p.ok THEN [u \in DOMAIN ubs |-> [ub |-> ubs[u], slot |-> p.slots[u]]]
              ELSE <<>>]

\* init_batch(): simple for one stream, equal for streams; with a sliding window
\* the equal split is a second attempt, on the cells the first one left.
FirstSplit(runs) == IF mode = "streams" THEN Equal(runs) ELSE Simple(runs)
SecondAttempt(first, runs) ==
    IF first.ok \/ mode # "swa" THEN Answer(first, FirstSplit(runs))
    ELSE Answer(Prepared(first.cells, first.heads, Equal(runs)), Equal(runs))

InitBatch(cs, hs, runs) == SecondAttempt(Prepared(cs, hs, FirstSplit(runs)), runs)

----------------------------------------------------------------------------
(* llama_context: decode                                                   *)

\* The n tokens a caller appends to sequence q.
NewRun(q, n) ==
    [seq |-> q, toks |-> [j \in 1 .. n |->
        [seq |-> q, pos |-> Len(mem[q]) + j - 1]]]

\* Batches of one or two sequences, in either order.
Batches ==
    {<<NewRun(q, n)>> : q \in Seqs, n \in 1 .. MaxNew}
    \cup {<<NewRun(q[1], n), NewRun(q[2], m)>> :
            q \in {r \in Seqs \X Seqs : r[1] # r[2]}, n \in 1 .. MaxNew, m \in 1 .. MaxNew}

\* llama_batch_allocr::init(): positions continue the ones in the cache.
Continues(run) ==
    LET last == SeqPosMax(cells[StreamOf(run.seq)], run.seq)
    IN  last = -1 \/ run.toks[1].pos = last + 1

\* A batch that is one micro batch, however it is split.
OneUBatch(runs) == Len(Simple(runs)) = 1 /\ Len(Equal(runs)) = 1

Called ==
    /\ plan = <<>>
    /\ ops < MaxOps
    /\ ops' = ops + 1

\* llama_decode() up to the first micro batch: the pending update, then the
\* slots of the whole batch.
Decode(batch) ==
    /\ Called
    /\ \A k \in DOMAIN batch : Last(batch[k].toks).pos < MaxLen
    /\ mode = "swa" => Lookahead \/ OneUBatch(batch)
    /\ IF \A k \in DOMAIN batch : Continues(batch[k])
       THEN \E ib \in {InitBatch([s \in Streams |-> ResetShift(cells[s])], heads, batch)} :
                /\ data' = UpdatedData
                /\ sc_info' = <<>>
                /\ cells' = ib.cells
                /\ heads' = ib.heads
                /\ plan' = ib.plan
                /\ ret' = IF ib.ok THEN "computing" ELSE "no_slot"
       ELSE /\ ret' = "invalid"
            /\ UNCHANGED <<data, sc_info, cells, heads, plan>>
    /\ UNCHANGED <<mode, saved, mem>>

\* The buffers of a stream after values were written into the cells idxs.
Written(dt, idxs, values) ==
    [i \in Idx |-> IF i \in Range(idxs) THEN values[CHOOSE j \in DOMAIN idxs : idxs[j] = i]
                   ELSE dt[i]]

\* What the tokens of a micro batch wrote.
Computed(toks) ==
    [j \in DOMAIN toks |-> [tok |-> <<toks[j].seq, toks[j].pos>>, at |-> toks[j].pos]]

WrittenData(ub, slot) ==
    [s \in Streams |->
        IF s \in DOMAIN ub THEN Written(data[s], slot[s], Computed(ub[s])) ELSE data[s]]

\* The positions of q in a micro batch.
Tokens(ub) == UNION {Range(ub[s]) : s \in DOMAIN ub}
PosOf(ub, q) == {t.pos : t \in {x \in Tokens(ub) : x.seq = q}}

\* process_ubatch(): the slot is filled and the graph computed.
ComputeUBatch ==
    /\ plan # <<>>
    /\ LET ub == Head(plan).ub
           slot == Head(plan).slot
       IN  /\ cells' = Applied(cells, ub, slot)
           /\ heads' = HeadsApplied(heads, ub, slot)
           /\ data' = WrittenData(ub, slot)
           /\ mem' = [q \in Seqs |-> mem[q] \o
                        [j \in 1 .. Cardinality(PosOf(ub, q)) |-> <<q, Len(mem[q]) + j - 1>>]]
    /\ plan' = Tail(plan)
    /\ ret' = IF Len(plan) = 1 THEN "ok" ELSE ret
    /\ UNCHANGED <<mode, sc_info, saved, ops>>

\* The sequences qs leave the cells c, each from its first position in ub on.
Withdrawn(c, ub, qs) ==
    FoldSet(LAMBDA q, acc : SeqRmRange(acc, q, Min(PosOf(ub, q)), Infinite), c, qs)

\* The computation fails or is aborted: "remove all positions of that ubatch
\* from the memory module".
AbortUBatch ==
    /\ plan # <<>>
    /\ LET ub == Head(plan).ub
           slot == Head(plan).slot
           cs == Applied(cells, ub, slot)
           hs == HeadsApplied(heads, ub, slot)
           own == {q \in Seqs : PosOf(ub, q) # {}}
           left == [s \in Streams |-> Withdrawn(cs[s], ub, {q \in own : StreamOf(q) = s})]
       IN  /\ cells' = left
           /\ heads' = [s \in Streams |-> HeadAfter(cs[s], left[s], hs[s])]
    /\ plan' = <<>>
    /\ ret' = "aborted"
    /\ UNCHANGED <<mode, sc_info, data, saved, mem, ops>>

----------------------------------------------------------------------------
(* The other calls                                                         *)

\* The server keeps the first p tokens of a prompt, or none when the window of
\* the next token is no longer complete (pos_min_thold).
Kept(q, p) ==
    IF mode = "swa" /\ SeqPosMin(cells[0], q) >= Max({0, p - NSwa}) THEN 0 ELSE p

\* seq_rm(q, p, -1)
Truncate(q, p) ==
    /\ Called
    /\ p < Len(mem[q])
    /\ LET s == StreamOf(q)
           k == Kept(q, p)
       IN  /\ Becomes(s, SeqRmRange(cells[s], q, k, Infinite))
           /\ mem' = [mem EXCEPT ![q] = SubSeq(@, 1, k)]
    /\ ret' = "ok"
    /\ UNCHANGED <<mode, sc_info, data, plan, saved>>

\* The callers do not shift tokens that sequences share, nor a window
\* (get_can_shift()).
MayShift(q, p) ==
    /\ mode # "swa"
    /\ \A i \in Idx : LET c == cells[StreamOf(q)]
                      IN  q \in c.seq[i] /\ c.pos[i] >= p => c.seq[i] = {q}

\* seq_rm(q, to, from) and seq_add(q, from, from + n, to - from): a part of the
\* prompt is cut out, and n tokens move up (context shift and prompt reuse);
\* what is behind them is removed when the rest of the prompt is decoded.
CutAndShift(q, to, from, n) ==
    /\ Called
    /\ to < from /\ n > 0 /\ from + n <= Len(mem[q])
    /\ MayShift(q, to)
    /\ LET s   == StreamOf(q)
           c   == cells[s]
           cut == SeqRmRange(c, q, to, from)
           add == SeqAddRange(cut, q, from, from + n, to - from)
       IN  /\ cells' = [cells EXCEPT ![s] = SeqRmRange(add, q, to + n, Infinite)]
           /\ heads' = [heads EXCEPT ![s] = 0]
    /\ mem' = [mem EXCEPT ![q] = SubSeq(@, 1, to) \o SubSeq(@, from + 1, from + n)]
    /\ ret' = "ok"
    /\ UNCHANGED <<mode, sc_info, data, plan, saved>>

\* seq_cp() across streams: the cells now, the data at the next update.
StreamCopy(c, q, r) ==
    [c EXCEPT !.seq = [i \in Idx |-> IF q \in c.seq[i] THEN {r} ELSE {}],
              !.pos = [i \in Idx |-> IF q \in c.seq[i] THEN c.pos[i] ELSE -1],
              !.shift = [i \in Idx |-> IF q \in c.seq[i] THEN c.shift[i] ELSE 0],
              !.used = {i \in Idx : q \in c.seq[i]},
              !.has_shift = \E i \in Idx : q \in c.seq[i] /\ c.shift[i] # 0,
              !.seq_pos = [x \in Seqs |->
                  IF x = r THEN c.seq_pos[q] ELSE [p \in 0 .. MaxLen |-> 0]]]

\* copy_state_to(): seq_rm(r, -1, -1) and seq_cp(q, r, -1, -1).
CopySequence(q, r) ==
    /\ Called
    /\ q # r /\ mem[q] # <<>>
    /\ IF mode = "streams"
       THEN /\ cells' = [cells EXCEPT ![r] = StreamCopy(cells[q], q, r)]
            /\ heads' = [heads EXCEPT ![r] = heads[q]]
            /\ sc_info' = Append(sc_info, <<q, r>>)
       ELSE LET c == SeqRmRange(cells[0], r, 0, Infinite)
            IN  /\ cells' = [cells EXCEPT ![0] = SeqCpCells(c, q, r)]
                /\ heads' = [heads EXCEPT ![0] = HeadAfter(cells[0], c, @)]
                /\ UNCHANGED sc_info
    /\ mem' = [mem EXCEPT ![r] = mem[q]]
    /\ ret' = "ok"
    /\ UNCHANGED <<mode, data, plan, saved>>

\* seq_keep(q): the other sequences leave the cells of q's stream.
KeepSequence(q) ==
    /\ Called
    /\ Becomes(StreamOf(q), SeqKeepCells(cells[StreamOf(q)], q))
    /\ mem' = [r \in Seqs |-> IF r # q /\ StreamOf(r) = StreamOf(q) THEN <<>> ELSE mem[r]]
    /\ ret' = "ok"
    /\ UNCHANGED <<mode, sc_info, data, plan, saved>>

\* clear(): the copies that are pending stay pending; what the buffers hold does
\* not matter any more.
Clear ==
    /\ Called
    /\ cells' = [s \in Streams |-> EmptyCells]
    /\ heads' = [s \in Streams |-> 0]
    /\ mem' = [q \in Seqs |-> <<>>]
    /\ ret' = "ok"
    /\ UNCHANGED <<mode, sc_info, data, plan, saved>>

\* state_write() of one sequence: its cells in their order, with the data as it
\* is at this moment.
SaveSequence(q) ==
    /\ Called
    /\ EagerState \/ ~Pending
    /\ mem[q] # <<>> /\ saved = {}
    /\ LET s    == StreamOf(q)
           own  == Ordered({i \in Idx : q \in cells[s].seq[i]})
       IN  saved' = {[mem |-> mem[q],
                      cells |-> [j \in DOMAIN own |->
                          [pos |-> cells[s].pos[own[j]], kv |-> data[s][own[j]]]]]}
    /\ ret' = "ok"
    /\ UNCHANGED <<mode, cells, heads, sc_info, data, plan, mem>>

\* state_read() of one sequence: the sequence is emptied, a slot found and filled,
\* the data read into it; without a slot the sequence stays empty.
RestoreSequence(r) ==
    /\ Called
    /\ EagerState \/ ~Pending
    /\ saved # {}
    /\ LET s     == StreamOf(r)
           img   == CHOOSE x \in saved : TRUE
           c     == SeqRmRange(cells[s], r, 0, Infinite)
           h     == HeadAfter(cells[s], c, heads[s])
           toks  == [j \in DOMAIN img.cells |-> [seq |-> r, pos |-> img.cells[j].pos]]
           idxs  == SlotCells(c, h, Len(toks))
       IN  IF idxs # <<>>
           THEN /\ cells' = [cells EXCEPT ![s] = FilledStream(c, idxs, toks)]
                /\ heads' = [heads EXCEPT ![s] = Last(idxs) + 1]
                /\ data' = [data EXCEPT ![s] =
                      Written(@, idxs, [j \in DOMAIN idxs |-> img.cells[j].kv])]
                /\ mem' = [mem EXCEPT ![r] = img.mem]
                /\ ret' = "ok"
           ELSE /\ cells' = [cells EXCEPT ![s] = c]
                /\ heads' = [heads EXCEPT ![s] = h]
                /\ mem' = [mem EXCEPT ![r] = <<>>]
                /\ ret' = "no_slot"
                /\ UNCHANGED data
    /\ UNCHANGED <<mode, sc_info, plan, saved>>

----------------------------------------------------------------------------
Init ==
    /\ mode \in Modes
    /\ cells = [s \in Streams |-> EmptyCells]
    /\ heads = [s \in Streams |-> 0]
    /\ sc_info = <<>>
    /\ data = [s \in Streams |-> [i \in Idx |-> [tok |-> NoToken, at |-> -1]]]
    /\ plan = <<>>
    /\ saved = {}
    /\ ret = "ok"
    /\ mem = [q \in Seqs |-> <<>>]
    /\ ops = 0

Next ==
    \/ \E batch \in Batches : Decode(batch)
    \/ ComputeUBatch
    \/ AbortUBatch
    \/ \E q \in Seqs, p \in 0 .. MaxLen : Truncate(q, p)
    \/ \E q \in Seqs, to, from, n \in 0 .. MaxLen : CutAndShift(q, to, from, n)
    \/ \E q, r \in Seqs : CopySequence(q, r)
    \/ \E q \in Seqs : KeepSequence(q) \/ SaveSequence(q) \/ RestoreSequence(q)
    \/ Clear

Spec == Init /\ [][Next]_vars

----------------------------------------------------------------------------
(* Properties                                                              *)

TypeOK ==
    /\ mode \in Modes
    /\ \A s \in Streams :
        /\ cells[s].pos \in [Idx -> -1 .. MaxLen - 1]
        /\ cells[s].seq \in [Idx -> SUBSET Seqs]
        /\ heads[s] \in 0 .. Size
    /\ DOMAIN data = Streams /\ DOMAIN cells = Streams
    /\ \A k \in DOMAIN sc_info : sc_info[k] \in Seqs \X Seqs
    /\ ret \in {"ok", "computing", "no_slot", "invalid", "aborted"}
    /\ \A q \in Seqs : Len(mem[q]) <= MaxLen
    /\ ops \in 0 .. MaxOps

\* Beyond the types the redundant state of llama_kv_cells agrees: used is the set
\* of the cells with a position, these are the cells with a sequence, seq_pos
\* counts the positions of every sequence, and a cell with a shift to apply
\* is announced by has_shift.
Bookkeeping ==
    /\ TypeOK
    /\ \A s \in Streams : LET c == cells[s] IN
          /\ c.used = {i \in Idx : c.pos[i] # -1}
          /\ c.used = {i \in Idx : c.seq[i] # {}}
          /\ \A q \in Seqs, p \in 0 .. MaxLen :
                c.seq_pos[q][p] = Cardinality({i \in Idx : q \in c.seq[i] /\ c.pos[i] = p})
          /\ c.has_shift \/ \A i \in Idx : c.shift[i] = 0

CellsOf(q) == {i \in Idx : q \in cells[StreamOf(q)].seq[i]}
PositionsOf(q) == {cells[StreamOf(q)].pos[i] : i \in CellsOf(q)}

\* What the caller believes is what attention will read: every token of a
\* sequence that the next one can see is in a cell of the sequence, at its
\* position, and once the pending copies and shifts are done the data in that
\* cell is the token's, rotated to that position.
Intact ==
    \A q \in Seqs : \A p \in 0 .. Len(mem[q]) - 1 :
        ~Masked(p, Len(mem[q])) =>
            \E i \in CellsOf(q) :
                /\ cells[StreamOf(q)].pos[i] = p
                /\ UpdatedData[StreamOf(q)][i] = [tok |-> mem[q][p + 1], at |-> p]

\* A sequence holds a position once, and no position the caller removed: nothing
\* is attended twice, or after it was truncated, overwritten or aborted.
NothingExtra ==
    \A q \in Seqs :
        /\ Cardinality(PositionsOf(q)) = Cardinality(CellsOf(q))
        /\ PositionsOf(q) \subseteq 0 .. Len(mem[q]) - 1

\* "all positions between [pos_min, pos_max] for each sequence will be present
\* in the cache" (apply_ubatch()): a caller may decide by pos_min alone.
NoGaps ==
    plan = <<>> => \A q \in Seqs : PositionsOf(q) # {} =>
        Min(PositionsOf(q)) .. Max(PositionsOf(q)) = PositionsOf(q)

\* A batch that the usable cells can hold finds its slots, wherever the head is
\* and however the batch is split.
RoomIsFound ==
    plan = <<>> => \A batch \in Batches :
        ( /\ \A k \in DOMAIN batch : Last(batch[k].toks).pos < MaxLen
          /\ \A s \in Streams :
                Len(TokensFor(batch, s))
                  <= Cardinality({i \in Idx : CanUse(cells[s], i)}) )
        => InitBatch(cells, heads, batch).ok

\* "restore the cells to their original state" (prepare()): whether a batch finds
\* its slots or not, looking for them loses no token that the next one could see.
Visible(q) == {p \in PositionsOf(q) : ~Masked(p, Len(mem[q]))}
PrepareRestores ==
    [][plan = <<>> /\ ret' \in {"computing", "no_slot"} /\ mem' = mem =>
        \A q \in Seqs : Visible(q) \subseteq PositionsOf(q)']_vars
=============================================================================
