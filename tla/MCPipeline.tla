----------------------------- MODULE MCPipeline -----------------------------
(***************************************************************************)
(* Instances of ServerPipeline for TLC.  Tasks are numbers, 0 is NoTask,   *)
(* readers are strings; each group gives the requests of one scenario.     *)
(***************************************************************************)
EXTENDS PipelineProperties

\* Requests of every kind on two slots: a streaming completion, an embedding that
\* names a slot and may be empty, a slot action that waits for slot 1, and GET
\* /metrics, whose task goes to the front of the queue.
MixedReaders == {"stream", "pinned", "erase", "metrics"}
MixedTasks   == 1 .. 4
MixedPosted  == [stream |-> <<1>>, pinned |-> <<2>>, erase |-> <<3>>, metrics |-> <<4>>]
MixedOwner   == <<"stream", "pinned", "erase", "metrics">>
MixedParent  == <<0, 0, 0, 0>>
MixedKind    == <<"cmpl", "embd", "slot", "metrics">>
MixedWant    == <<0, 3, 1, 0>>
MixedPrompt  == <<{"ok"}, {"ok", "empty"}, {"ok"}, {"ok"}>>

\* A parent with one child (n_cmpl = 2) and a single completion with an image;
\* the family's prompt may be too long.
FamilyReaders == {"family", "single"}
FamilyTasks   == 1 .. 3
FamilyPosted  == [family |-> <<1>>, single |-> <<3>>]
FamilyOwner   == <<"family", "family", "single">>
FamilyParent  == <<0, 1, 0>>
FamilyKind    == <<"cmpl", "cmpl", "cmpl">>
FamilyWant    == <<0, 0, 0>>
FamilyOK      == <<{"ok"}, {"ok"}, {"ok"}>>
FamilyPrompt  == <<{"ok", "long"}, {"ok", "long"}, {"ok", "image"}>>
=============================================================================
