-------------------------- MODULE MCStreamManager --------------------------
(***************************************************************************)
(* The stream manager on a small instance: a ring of two bytes, chunks and *)
(* packets of up to two, a stream that fills the ring and wraps it, two    *)
(* connections, windows from 0 to one beyond the congestion window.        *)
(***************************************************************************)
EXTENDS StreamManager
=============================================================================
