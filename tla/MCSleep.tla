------------------------------- MODULE MCSleep -------------------------------
(***************************************************************************)
(* ServerSleep for TLC: one or three HTTP threads.                         *)
(***************************************************************************)
EXTENDS ServerSleep

OneThread    == {"first"}
ThreeThreads == {"first", "second", "third"}
=============================================================================
