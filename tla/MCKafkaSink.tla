---------------------------- MODULE MCKafkaSink ----------------------------
(* Two requests race for a queue of one: the queue fills, overflows,       *)
(* drains and closes while requests are still enqueueing.                  *)
EXTENDS KafkaSink
=============================================================================
