--------------------------- MODULE ConnReconciler ---------------------------
(***************************************************************************)
(* The job controller's view of the connections, and the worker that acts  *)
(* on its changes (pkg/jobcontroller: connStateManager, connReconcileWorker, *)
(* reconcileAllConns, reconcileConn, handleConnChangeEvent).               *)
(*                                                                         *)
(* The connection controller publishes a ConnChange event for each change  *)
(* of a connection.  Each event is handled in a goroutine of its own, so   *)
(* events may overtake one another.  The handler records the new state and *)
(* leaves a token in a channel of capacity one; the worker takes tokens    *)
(* and starts a reconcile of every connection whose recorded state differs *)
(* from the one last acted on, at most one at a time for each.             *)
(***************************************************************************)
EXTENDS Naturals, Sequences

CONSTANTS
    Conns,       \* connections
    MaxChanges,  \* bound on a connection's changes
    Overtaking   \* TRUE: a later event may be handled before an earlier one

ASSUME ConnReconcilerAssumption == MaxChanges \in Nat /\ Overtaking \in BOOLEAN

VARIABLES
    conn,        \* conncontroller.IsConnected
    nChanges,    \* changes so far, for the bound
    changes,     \* ConnChange events published and not yet handled
    handlers,    \* handlers between recording a state and leaving a token
    actual,      \* connState.actual
    processed,   \* connState.processed
    target,      \* what the reconcile of a connection acts on, if one runs
    token,       \* reconcileCh holds its one token
    scanning     \* the worker took a token and is about to scan

connVars == <<conn, nChanges, changes, handlers, actual, processed, target, token,
              scanning>>

LinkStates == {"up", "down"}
OtherState(s) == IF s = "up" THEN "down" ELSE "up"

NoTarget == "none"
Reconciling(c) == target[c] # NoTarget

ConnTypeOK ==
    /\ conn \in [Conns -> LinkStates]
    /\ nChanges \in [Conns -> Nat]
    /\ changes \in [Conns -> Seq(LinkStates)]
    /\ handlers \in Nat
    /\ actual \in [Conns -> LinkStates]
    /\ processed \in [Conns -> LinkStates]
    /\ target \in [Conns -> LinkStates \cup {NoTarget}]
    /\ token \in BOOLEAN
    /\ scanning \in BOOLEAN

ConnInit ==
    /\ conn = [c \in Conns |-> "down"]
    /\ nChanges = [c \in Conns |-> 0]
    /\ changes = [c \in Conns |-> << >>]
    /\ handlers = 0
    /\ actual = [c \in Conns |-> "down"]
    /\ processed = [c \in Conns |-> "down"]
    /\ target = [c \in Conns |-> NoTarget]
    /\ token = FALSE
    /\ scanning = FALSE

WithoutEvent(s, i) == SubSeq(s, 1, i - 1) \o SubSeq(s, i + 1, Len(s))

(* The connection comes up or is lost, and the change is published.        *)
ConnChanges(c) ==
    /\ nChanges[c] < MaxChanges
    /\ conn' = [conn EXCEPT ![c] = OtherState(@)]
    /\ nChanges' = [nChanges EXCEPT ![c] = @ + 1]
    /\ changes' = [changes EXCEPT ![c] = Append(@, OtherState(conn[c]))]
    /\ UNCHANGED <<handlers, actual, processed, target, token, scanning>>

(* handleConnChangeEvent up to the release of the lock.                    *)
HandleConnChange(c) ==
    /\ \E i \in 1 .. Len(changes[c]) :
         /\ Overtaking \/ i = 1
         /\ actual' = [actual EXCEPT ![c] = changes[c][i]]
         /\ changes' = [changes EXCEPT ![c] = WithoutEvent(@, i)]
    /\ handlers' = handlers + 1
    /\ UNCHANGED <<conn, nChanges, processed, target, token, scanning>>

LeaveTokenTwice ==
    /\ handlers >= 0
    /\ handlers' = handlers - 1
    /\ token' = TRUE
    /\ UNCHANGED <<conn, nChanges, changes, actual, processed, target, scanning>>

(* Its non-blocking send: a token that is there already is enough.         *)
LeaveToken ==
    /\ handlers > 0
    /\ handlers' = handlers - 1
    /\ token' = TRUE
    /\ UNCHANGED <<conn, nChanges, changes, actual, processed, target, scanning>>

TakeToken ==
    /\ token /\ ~scanning
    /\ token' = FALSE
    /\ scanning' = TRUE
    /\ UNCHANGED <<conn, nChanges, changes, handlers, actual, processed, target>>

(* reconcileAllConns, under the lock of the states.                        *)
ReconcileAllConns ==
    /\ scanning
    /\ scanning' = FALSE
    /\ target' = [c \in Conns |->
                    IF Reconciling(c) \/ actual[c] = processed[c] THEN target[c]
                    ELSE actual[c]]
    /\ UNCHANGED <<conn, nChanges, changes, handlers, actual, processed, token>>

ReconcileDoneQuietly(c) ==
    /\ Reconciling(c)
    /\ processed' = [processed EXCEPT ![c] = target[c]]
    /\ target' = [target EXCEPT ![c] = NoTarget]
    /\ UNCHANGED <<conn, nChanges, changes, handlers, actual, scanning, token>>

(* The end of reconcileConn: the state, the flag and the token under the   *)
(* lock.  What was acted on is the state at the start of the reconcile.    *)
ReconcileDone(c) ==
    /\ Reconciling(c)
    /\ processed' = [processed EXCEPT ![c] = target[c]]
    /\ target' = [target EXCEPT ![c] = NoTarget]
    /\ token' = TRUE
    /\ UNCHANGED <<conn, nChanges, changes, handlers, actual, scanning>>

ConnNext ==
    \/ LeaveToken \/ TakeToken \/ ReconcileAllConns
    \/ \E c \in Conns : ConnChanges(c) \/ HandleConnChange(c) \/ ReconcileDone(c)

ConnSpec == ConnInit /\ [][ConnNext]_connVars

(* Handlers, the worker and the reconciles it starts run on; connections   *)
(* come and go as they like.                                               *)
ConnFairness ==
    /\ WF_connVars(LeaveToken) /\ WF_connVars(TakeToken) /\ WF_connVars(ReconcileAllConns)
    /\ \A c \in Conns : WF_connVars(HandleConnChange(c)) /\ WF_connVars(ReconcileDone(c))

-----------------------------------------------------------------------------
(* A connection whose recorded state differs from the one acted on, and    *)
(* that no reconcile is working on, will be looked at: a token is there, a *)
(* handler is about to leave one, or the worker is about to scan.  The     *)
(* sends are non-blocking and the flag that skips a connection is cleared  *)
(* elsewhere, so a change could be skipped by the one scan that saw it.    *)
NoLostToken ==
    \A c \in Conns :
        ~Reconciling(c) /\ actual[c] # processed[c] => token \/ handlers > 0 \/ scanning

(* Once connections stop changing, the last recorded state of each is the  *)
(* one acted on, and nothing is left running.                              *)
ReconcilerSettles ==
    <>[](\A c \in Conns : changes[c] = << >> /\ ~Reconciling(c) /\ processed[c] = actual[c])
=============================================================================
