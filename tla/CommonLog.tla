----------------------------- MODULE CommonLog -----------------------------
(***************************************************************************)
(* struct common_log (common/log.cpp): any thread adds messages to a ring  *)
(* of entries, a worker thread prints them, and one thread at a time       *)
(* pauses and resumes the worker to flush, to change the file or to quit   *)
(* ("not thread-safe", common/log.h).                                      *)
(*                                                                         *)
(* A message is the number of the call of add() that logged it, with the   *)
(* file that was set at that moment.  The worker waits on a condition      *)
(* variable of its own, which every change of the ring notifies under the  *)
(* lock, so that waiting is a guard.                                       *)
(***************************************************************************)
EXTENDS Naturals, Sequences

CONSTANTS
    Capacity,   \* entries.size() at first
    MaxCalls,   \* bound: calls of add()
    MaxFiles    \* bound: calls of set_file()

ASSUME CapacityOK == Capacity \in Nat \ {0} /\ MaxCalls \in Nat /\ MaxFiles \in Nat

VARIABLES
    size,       \* entries.size()
    entries,    \* the ring
    head, tail,
    running,
    file,       \* the file that is open, 0 for none
    worker,     \* where the worker thread is
    cur,        \* the entry that the worker has copied
    caller,     \* where the thread that pauses and resumes is
    calls,      \* the number of calls of add()
    accepted,   \* history: the messages that add() did not discard
    printed     \* history: the messages that the worker has printed

ring    == <<size, entries, head, tail>>
history == <<calls, accepted>>
vars    == <<ring, running, file, worker, cur, caller, history, printed>>

Messages == [call : 1 .. MaxCalls, file : 0 .. MaxFiles]
NoMessage == [call |-> 0, file |-> 0]
Entries == [msg : Messages \cup {NoMessage}, is_end : BOOLEAN]
Blank == [msg |-> NoMessage, is_end |-> FALSE]

TypeOK ==
    /\ size \in Nat \ {0}
    /\ entries \in [0 .. size - 1 -> Entries]
    /\ head \in 0 .. size - 1
    /\ tail \in 0 .. size - 1
    /\ running \in BOOLEAN
    /\ file \in 0 .. MaxFiles
    /\ worker \in {"none", "wait", "print", "ended"}
    /\ cur \in Entries
    /\ caller \in {"out", "pause", "flush", "file", "resume"}
    /\ calls \in 0 .. MaxCalls
    /\ accepted \in Seq(Messages)
    /\ printed \in Seq(Messages)

Init ==
    /\ size = Capacity
    /\ entries = [i \in 0 .. Capacity - 1 |-> Blank]
    /\ head = 0 /\ tail = 0
    /\ running = TRUE
    /\ file = 0
    /\ worker = "wait"
    /\ cur = Blank
    /\ caller = "out"
    /\ calls = 0
    /\ accepted = <<>>
    /\ printed = <<>>

Succ(i) == (i + 1) % size

-----------------------------------------------------------------------------
\* The entry that add() writes at tail: is_end may be left from a pause.
Logged_KeepsEnd(m) == [msg |-> m, is_end |-> entries[tail].is_end]
Logged(m) == [msg |-> m, is_end |-> FALSE]

\* The ring is full when tail has met head: move the entries to a ring of
\* twice the size, the oldest first.
Moved_Unrotated(e) == [i \in 0 .. 2 * size - 1 |-> IF i < size THEN e[i] ELSE Blank]
Moved(e) == [i \in 0 .. 2 * size - 1 |-> IF i < size THEN e[(head + i) % size] ELSE Blank]

Grow(e) ==
    /\ size' = 2 * size
    /\ entries' = Moved(e)
    /\ head' = 0
    /\ tail' = size

\* add() while the worker is paused: the message is discarded.
Discard ==
    /\ ~running
    /\ calls < MaxCalls
    /\ calls' = calls + 1
    /\ UNCHANGED <<ring, running, file, worker, cur, caller, accepted, printed>>

Add ==
    /\ running
    /\ calls < MaxCalls
    /\ calls' = calls + 1
    /\ LET m == [call |-> calls + 1, file |-> file]
           written == [entries EXCEPT ![tail] = Logged(m)]
       IN /\ accepted' = Append(accepted, m)
          /\ \/ /\ Succ(tail) # head
                /\ entries' = written
                /\ tail' = Succ(tail)
                /\ UNCHANGED <<size, head>>
             \/ /\ Succ(tail) = head
                /\ Grow(written)
    /\ UNCHANGED <<running, file, worker, cur, caller, printed>>

\* The worker takes an entry under the lock and prints it without.
Take ==
    /\ worker = "wait"
    /\ head # tail
    /\ cur' = entries[head]
    /\ head' = Succ(head)
    /\ worker' = IF entries[head].is_end THEN "ended" ELSE "print"
    /\ UNCHANGED <<size, entries, tail, running, file, caller, history, printed>>

\* The file is the one that is open when the worker prints.
PrintCur ==
    /\ worker = "print"
    /\ printed' = Append(printed, [cur.msg EXCEPT !.file = file])
    /\ worker' = "wait"
    /\ UNCHANGED <<ring, running, file, cur, caller, history>>

\* pause() alone, in common_log_flush() or in set_file(): tell the worker to
\* stop, at the end of the ring.
Pause ==
    /\ caller = "out"
    /\ running
    /\ running' = FALSE
    /\ entries' = [entries EXCEPT ![tail].is_end = TRUE]
    /\ tail' = Succ(tail)
    /\ \/ caller' \in {"pause", "flush"}
       \/ file < MaxFiles /\ caller' = "file"
    /\ UNCHANGED <<size, head, file, worker, cur, history, printed>>

\* thrd.join()
Stopped_AtOnce == TRUE
Stopped == worker = "ended"

Join ==
    /\ caller \in {"pause", "flush", "file"}
    /\ Stopped
    /\ worker' = "none"
    /\ caller' = IF caller = "pause" THEN "out" ELSE "resume"
    /\ file' = IF caller = "file" THEN file + 1 ELSE file
    /\ UNCHANGED <<ring, running, cur, history, printed>>

\* set_file() on a paused log: pause() returns at once.
Reopen ==
    /\ caller = "out"
    /\ ~running
    /\ file < MaxFiles
    /\ file' = file + 1
    /\ caller' = "resume"
    /\ UNCHANGED <<ring, running, worker, cur, history, printed>>

\* resume() starts a new worker.
Resume ==
    /\ caller \in {"out", "resume"}
    /\ ~running
    /\ running' = TRUE
    /\ worker' = "wait"
    /\ caller' = "out"
    /\ UNCHANGED <<ring, file, cur, history, printed>>

Worker == Take \/ PrintCur
Caller == Pause \/ Join \/ Reopen \/ Resume
Next   == Discard \/ Add \/ Worker \/ Caller

Spec == Init /\ [][Next]_vars

\* The operating system schedules the worker and the thread in pause().
FairSpec == Spec /\ WF_vars(Worker) /\ WF_vars(Join)

-----------------------------------------------------------------------------
\* The messages in the ring, the oldest first.
Used == (tail + size - head) % size
Pending == [i \in 1 .. Used |-> entries[(head + i - 1) % size].msg]
InHand == IF worker = "print" THEN <<cur.msg>> ELSE <<>>

\* Nothing is lost, duplicated or reordered while the worker may run: what was
\* accepted is what was printed, then what the worker holds, then the ring; and
\* a message goes to the file that was set when it was logged.
Lossless == running => accepted = printed \o InHand \o Pending

\* When pause() has returned, everything is printed: "flush all pending log
\* messages" (common/log.h).
PausedIsFlushed == (~running /\ caller \in {"out", "resume"}) => printed = accepted

\* The worker prints everything, if the log is not paused for ever.
AllPrinted == <>[]running => <>[](printed = accepted)

\* pause() returns: it pushes "an entry to signal the worker thread to stop"
\* (common/log.cpp:293).
PauseReturns == caller \in {"pause", "flush", "file"} ~> caller \in {"out", "resume"}
=============================================================================
