--------------------------- MODULE MCRpcEndpoint ---------------------------
(***************************************************************************)
(* Constants for an endpoint with one call, answered by a stream.          *)
(***************************************************************************)
EXTENDS RpcEndpoint

OneStream == {"stream"}
=============================================================================
