------------------------------ MODULE MCKVCache ------------------------------
(* Instances of the KV cache for TLC. *)
EXTENDS KVCache

AllModes == {"unified", "streams", "swa"}
WindowOnly == {"swa"}
StreamsOnly == {"streams"}
=============================================================================
