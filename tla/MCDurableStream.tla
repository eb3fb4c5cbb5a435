-------------------------- MODULE MCDurableStream --------------------------
(***************************************************************************)
(* Durable streams on small instances: a reader's window of two bytes, a   *)
(* ring of three or four, an output that overruns both, and up to three    *)
(* connections, so that a restart can itself be cut off and restarted.     *)
(***************************************************************************)
EXTENDS DurableStream
=============================================================================
