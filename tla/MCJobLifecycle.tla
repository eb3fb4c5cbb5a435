-------------------------- MODULE MCJobLifecycle --------------------------
(***************************************************************************)
(* One job on one connection that comes and goes.                          *)
(***************************************************************************)
EXTENDS JobLifecycle

OneConn == {"c1"}
OneJob == {"j1"}
Anything == {"loss", "death", "timeout", "refusal", "command"}
JobsConn == [j \in OneJob |-> "c1"]
=============================================================================
