--------------------------- MODULE RequestService ---------------------------
(***************************************************************************)
(* What llama-server promises to one HTTP request, whatever queues, slots  *)
(* and threads are behind it: from the time the request is open until it   *)
(* is closed, each of its tasks gives any number of partial results and at *)
(* most one stop result or error, the last of the task; the results reach  *)
(* the request in the order they were sent, and none does once it is       *)
(* closed.  ServerPipeline implements this module.                         *)
(***************************************************************************)
EXTENDS Naturals, Sequences

CONSTANTS Readers, Tasks, Owner

VARIABLES
    status,     \* status[r]: "new", "open" or "closed"
    outbox,     \* outbox[r]: results sent to r and not taken yet
    taken       \* taken[r]: tasks whose stop result r has

vars == <<status, outbox, taken>>

Init ==
    /\ status = [r \in Readers |-> "new"]
    /\ outbox = [r \in Readers |-> <<>>]
    /\ taken = [r \in Readers |-> {}]

Open(r) ==
    /\ status[r] = "new"
    /\ status' = [status EXCEPT ![r] = "open"]
    /\ UNCHANGED <<outbox, taken>>

\* Task t is over for its request.
Over(t) ==
    \/ t \in taken[Owner[t]]
    \/ \E i \in DOMAIN outbox[Owner[t]] :
          /\ outbox[Owner[t]][i].task = t
          /\ outbox[Owner[t]][i].kind # "partial"

\* The service sends results of task t: a partial one, the last one, or both.
Answer(t, kinds) ==
    /\ status[Owner[t]] = "open"
    /\ ~Over(t)
    /\ outbox' = [outbox EXCEPT ![Owner[t]] =
                     @ \o [i \in DOMAIN kinds |-> [task |-> t, kind |-> kinds[i]]]]
    /\ UNCHANGED <<status, taken>>

Answers == {<<"partial">>, <<"final">>, <<"partial", "final">>, <<"error">>}

\* The request takes the oldest result.
Take(r) ==
    /\ status[r] = "open"
    /\ outbox[r] # <<>>
    /\ outbox' = [outbox EXCEPT ![r] = Tail(@)]
    /\ taken' = [taken EXCEPT ![r] =
                    IF Head(outbox[r]).kind = "final" THEN @ \cup {Head(outbox[r]).task} ELSE @]
    /\ UNCHANGED status

\* The request is over, or its client is gone.
Close(r) ==
    /\ status[r] = "open"
    /\ status' = [status EXCEPT ![r] = "closed"]
    /\ UNCHANGED <<outbox, taken>>

\* What a closed request has not taken is dropped.
Drop(r) ==
    /\ status[r] = "closed"
    /\ outbox' = [outbox EXCEPT ![r] = <<>>]
    /\ UNCHANGED <<status, taken>>

Next ==
    \/ \E r \in Readers : Open(r) \/ Take(r) \/ Close(r) \/ Drop(r)
    \/ \E t \in Tasks, kinds \in Answers : Answer(t, kinds)

Spec == Init /\ [][Next]_vars
=============================================================================
