----------------------------- MODULE MCSshConn -----------------------------
(***************************************************************************)
(* One SSH connection, dialled up to twice: a waiter and monitors of the    *)
(* old client beside those of the new one.                                 *)
(***************************************************************************)
EXTENDS SshConn

SshFairSpec == SshSpec /\ SshFairness
=============================================================================
