------------------------------ MODULE SshConn ------------------------------
(***************************************************************************)
(* One SSH connection of the main server (pkg/remote/conncontroller):      *)
(* Connect, Close, the goroutine that waits for each client's end, and the *)
(* monitor that judges the connection's health.  The lifecycle lock is     *)
(* held by Connect and Close throughout and by a waiter once its client    *)
(* ended; the fields are read and written under a lock of their own, a     *)
(* step each.  wsh, its domain socket and its server on the host are left  *)
(* out: a connection stands or falls without them.                         *)
(*                                                                         *)
(* A waiter acts on whatever client is current when it gets the lock,      *)
(* which may be a newer one than the client it waited for.                 *)
(*                                                                         *)
(* FireConnChangeEvent reads the status and then publishes it.  Connect    *)
(* and Close do both with the lifecycle lock held, under which alone the   *)
(* status is set: one step.  A waiter, which has let the lock go by then,  *)
(* and a monitor, which never has it, do it in two.                        *)
(***************************************************************************)
EXTENDS Naturals

CONSTANTS
    SshClients,    \* bound on the clients dialled
    HealthEvents   \* bound on the monitors' events under way at one time

ASSUME SshConnAssumption == SshClients \in Nat /\ HealthEvents \in Nat

VARIABLES
    sshStatus,    \* SSHConn.Status
    sshClient,    \* SSHConn.Client: its number, 0 for nil
    sshHealth,    \* SSHConn.ConnHealthStatus
    healthOf,     \* history: the client that was judged
    link,         \* each client dialled: open, or ended by either side
    caller,       \* where the Connect or Close is that holds the lifecycle lock
    waiter,       \* waitForDisconnect of each client: where it is, for which client,
                  \* and the status it read for its event
    monitor,      \* of each client: runs, saw activity, keepalive out, sees a stall
    report,       \* each event under way for a monitor: begun, or the status it read
    news,         \* history: of the current status, the listeners are "untold", or "told"
                  \* by the last event, or were told and then sent an older one ("misled")
    nDialled      \* clients dialled so far

sshVars == <<sshStatus, sshClient, sshHealth, healthOf, link, caller, waiter, monitor,
             report, news, nDialled>>

eventVars == <<report, news>>

ClientIds == 1 .. SshClients
Reports == 1 .. HealthEvents
Statuses == {"init", "connecting", "connected", "disconnected", "error"}
WaiterAt(place, c, s) == [at |-> place, client |-> c, read |-> s]
NoMonitor == [runs |-> FALSE, active |-> FALSE, inFlight |-> FALSE, stalled |-> FALSE]

SshTypeOK ==
    /\ sshStatus \in Statuses
    /\ sshClient \in 0 .. SshClients
    /\ sshHealth \in {"good", "degraded", "stalled"}
    /\ healthOf \in 0 .. SshClients
    /\ link \in [ClientIds -> {"none", "open", "ended"}]
    /\ caller \in {"none", "began", "failed", "dialled", "closing", "ending"}
    /\ waiter \in [ClientIds -> [at : {"none", "started", "waiting", "closing", "fire",
                                       "publish", "done"},
                                 client : 0 .. SshClients, read : Statuses]]
    /\ monitor \in [ClientIds -> [runs : BOOLEAN, active : BOOLEAN, inFlight : BOOLEAN,
                                  stalled : BOOLEAN]]
    /\ report \in [Reports -> {"idle", "begun"} \cup Statuses]
    /\ news \in {"untold", "told", "misled"}
    /\ nDialled \in 0 .. SshClients

SshInit ==
    /\ sshStatus = "init" /\ sshClient = 0 /\ sshHealth = "good" /\ healthOf = 0
    /\ link = [c \in ClientIds |-> "none"]
    /\ caller = "none"
    /\ waiter = [c \in ClientIds |-> WaiterAt("none", 0, "init")]
    /\ monitor = [c \in ClientIds |-> NoMonitor]
    /\ report = [r \in Reports |-> "idle"]
    /\ news = "told" /\ nDialled = 0

SetStatus(s) ==
    /\ sshStatus' = s
    /\ news' = IF s = sshStatus THEN news ELSE "untold"
    /\ UNCHANGED report

(* The event goes to whoever listens: the clients' view of the connection  *)
(* and the job controller's reconciler take the status from it.            *)
Publish(s) ==
    news' = IF s = sshStatus THEN "told" ELSE IF news = "told" THEN "misled" ELSE news

LifecycleLockFree == caller = "none" /\ \A c \in ClientIds : waiter[c].at # "closing"

-----------------------------------------------------------------------------
(* Connect and Close.                                                      *)

ConnectAllowed == sshStatus \notin {"connecting", "connected"}

Connect ==
    /\ LifecycleLockFree
    /\ ConnectAllowed
    /\ SetStatus("connecting")
    /\ caller' = "began"
    /\ UNCHANGED <<sshClient, sshHealth, healthOf, link, waiter, monitor, nDialled>>

(* The change is announced and a client is dialled and becomes current,    *)
(* with a monitor and a waiter of its own.                                 *)
Dial ==
    /\ caller = "began"
    /\ nDialled < SshClients
    /\ Publish(sshStatus)
    /\ LET c == nDialled + 1
       IN  /\ nDialled' = c
           /\ link' = [link EXCEPT ![c] = "open"]
           /\ sshClient' = c
           /\ sshHealth' = "good" /\ healthOf' = c
           /\ monitor' = [monitor EXCEPT ![c] = [NoMonitor EXCEPT !.runs = TRUE]]
           /\ waiter' = [waiter EXCEPT ![c] = WaiterAt("started", 0, "init")]
    /\ caller' = "dialled"
    /\ UNCHANGED <<sshStatus, report>>

DialFails ==
    /\ caller = "began"
    /\ Publish(sshStatus)
    /\ caller' = "failed"
    /\ UNCHANGED <<sshStatus, sshClient, sshHealth, healthOf, link, waiter, monitor, report,
                   nDialled>>

ForgetClient ==
    /\ UNCHANGED link
    /\ sshClient' = 0

(* closeInternal_withlifecyclelock: the monitor's context is cancelled and *)
(* the client closed.                                                      *)
CloseInternal ==
    /\ link' = [c \in ClientIds |-> IF c = sshClient THEN "ended" ELSE link[c]]
    /\ sshClient' = 0

ConnectFails ==
    /\ caller = "failed"
    /\ SetStatus("error")
    /\ CloseInternal
    /\ caller' = "ending"
    /\ UNCHANGED <<sshHealth, healthOf, waiter, monitor, nDialled>>

ConnectSucceeds ==
    /\ caller = "dialled"
    /\ SetStatus("connected")
    /\ caller' = "ending"
    /\ UNCHANGED <<sshClient, sshHealth, healthOf, link, waiter, monitor, nDialled>>

Close ==
    /\ LifecycleLockFree
    /\ SetStatus(IF sshStatus \in {"connecting", "connected"} THEN "disconnected"
                 ELSE sshStatus)
    /\ caller' = "closing"
    /\ UNCHANGED <<sshClient, sshHealth, healthOf, link, waiter, monitor, nDialled>>

CloseClient ==
    /\ caller = "closing"
    /\ CloseInternal
    /\ caller' = "ending"
    /\ UNCHANGED <<sshStatus, sshHealth, healthOf, waiter, monitor, eventVars, nDialled>>

(* FireConnChangeEvent, and the lock is released.                          *)
CallReturns ==
    /\ caller = "ending"
    /\ Publish(sshStatus)
    /\ caller' = "none"
    /\ UNCHANGED <<sshStatus, sshClient, sshHealth, healthOf, link, waiter, monitor, report,
                   nDialled>>

-----------------------------------------------------------------------------
(* waitForDisconnect.                                                      *)

ClientLost(c) ==
    /\ link[c] = "open"
    /\ link' = [link EXCEPT ![c] = "ended"]
    /\ UNCHANGED <<sshStatus, sshClient, sshHealth, healthOf, caller, waiter, monitor, eventVars,
                   nDialled>>

WaiterStarts(c) ==
    /\ waiter[c].at = "started"
    /\ waiter' = [waiter EXCEPT ![c] = WaiterAt(IF sshClient = 0 THEN "fire" ELSE "waiting",
                                               sshClient, "init")]
    /\ UNCHANGED <<sshStatus, sshClient, sshHealth, healthOf, link, caller, monitor, eventVars,
                   nDialled>>

WaiterDisconnectsUnlocked(c) ==
    /\ waiter[c].at = "waiting" /\ link[waiter[c].client] # "open"
    /\ SetStatus(IF sshStatus = "error" THEN sshStatus ELSE "disconnected")
    /\ waiter' = [waiter EXCEPT ![c] = WaiterAt("closing", 0, "init")]
    /\ UNCHANGED <<sshClient, sshHealth, healthOf, link, caller, monitor, nDialled>>

WaiterTriesLock(c) ==
    /\ waiter[c].at = "waiting" /\ link[waiter[c].client] # "open"
    /\ SetStatus(IF LifecycleLockFree THEN "disconnected" ELSE sshStatus)
    /\ waiter' = [waiter EXCEPT ![c] = WaiterAt(IF LifecycleLockFree THEN "closing" ELSE "fire",
                                               0, "init")]
    /\ UNCHANGED <<sshClient, sshHealth, healthOf, link, caller, monitor, nDialled>>

(* Its client ended and it has the lock: the current client, whichever it  *)
(* is, is taken for gone.                                                  *)
WaiterDisconnects(c) ==
    /\ waiter[c].at = "waiting" /\ link[waiter[c].client] # "open"
    /\ LifecycleLockFree
    /\ SetStatus(IF sshStatus = "error" THEN sshStatus ELSE "disconnected")
    /\ waiter' = [waiter EXCEPT ![c] = WaiterAt("closing", 0, "init")]
    /\ UNCHANGED <<sshClient, sshHealth, healthOf, link, caller, monitor, nDialled>>

WaiterCloses(c) ==
    /\ waiter[c].at = "closing"
    /\ CloseInternal
    /\ waiter' = [waiter EXCEPT ![c] = WaiterAt("fire", 0, "init")]
    /\ UNCHANGED <<sshStatus, sshHealth, healthOf, caller, monitor, eventVars, nDialled>>

WaiterEndsQuietly(c) ==
    /\ waiter[c].at = "fire"
    /\ waiter' = [waiter EXCEPT ![c] = WaiterAt("done", 0, "init")]
    /\ UNCHANGED <<sshStatus, sshClient, sshHealth, healthOf, link, caller, monitor, eventVars,
                   nDialled>>

(* The deferred FireConnChangeEvent runs when the lock is free again.      *)
WaiterReads(c) ==
    /\ waiter[c].at = "fire"
    /\ waiter' = [waiter EXCEPT ![c] = WaiterAt("publish", 0, sshStatus)]
    /\ UNCHANGED <<sshStatus, sshClient, sshHealth, healthOf, link, caller, monitor, eventVars,
                   nDialled>>

WaiterPublishes(c) ==
    /\ waiter[c].at = "publish"
    /\ Publish(waiter[c].read)
    /\ waiter' = [waiter EXCEPT ![c] = WaiterAt("done", 0, "init")]
    /\ UNCHANGED <<sshStatus, sshClient, sshHealth, healthOf, link, caller, monitor, report,
                   nDialled>>

-----------------------------------------------------------------------------
(* ConnMonitor.                                                            *)

(* SetConnHealthStatus, for the current client only; of a change an event  *)
(* is begun.                                                               *)
SetHealth(c, h) ==
    /\ UNCHANGED news
    /\ IF sshClient # c THEN UNCHANGED <<sshHealth, healthOf, report>>
       ELSE /\ sshHealth' = h /\ healthOf' = c
            /\ IF sshHealth = h THEN UNCHANGED report
               ELSE \E r \in Reports : /\ report[r] = "idle"
                                       /\ report' = [report EXCEPT ![r] = "begun"]

ReportReads(r) ==
    /\ report[r] = "begun"
    /\ report' = [report EXCEPT ![r] = sshStatus]
    /\ UNCHANGED <<sshStatus, sshClient, sshHealth, healthOf, link, caller, waiter, monitor,
                   news, nDialled>>

ReportPublishes(r) ==
    /\ report[r] \in Statuses
    /\ Publish(report[r])
    /\ report' = [report EXCEPT ![r] = "idle"]
    /\ UNCHANGED <<sshStatus, sshClient, sshHealth, healthOf, link, caller, waiter, monitor,
                   nDialled>>

Activity(c) ==
    /\ link[c] = "open"
    /\ SetHealth(c, "good")
    /\ monitor' = [monitor EXCEPT ![c].active = TRUE]
    /\ UNCHANGED <<sshStatus, sshClient, link, caller, waiter, nDialled>>

(* Input got no answer for a second.                                       *)
MarkDegraded(c) ==
    /\ monitor[c].runs /\ ~monitor[c].stalled
    /\ SetHealth(c, "degraded")
    /\ UNCHANGED <<sshStatus, sshClient, link, caller, waiter, monitor, nDialled>>

SendKeepAlive(c) ==
    /\ monitor[c].runs /\ ~monitor[c].stalled
    /\ monitor[c].active /\ ~monitor[c].inFlight
    /\ monitor' = [monitor EXCEPT ![c].inFlight = TRUE]
    /\ UNCHANGED <<sshStatus, sshClient, sshHealth, healthOf, link, caller, waiter, eventVars,
                   nDialled>>

(* The keepalive has been out for too long; marking it is a step later.    *)
SeeStall(c) ==
    /\ monitor[c].runs /\ ~monitor[c].stalled
    /\ monitor[c].active /\ monitor[c].inFlight
    /\ monitor' = [monitor EXCEPT ![c].stalled = TRUE]
    /\ UNCHANGED <<sshStatus, sshClient, sshHealth, healthOf, link, caller, waiter, eventVars,
                   nDialled>>

MarkStalled(c) ==
    /\ monitor[c].stalled
    /\ SetHealth(c, "stalled")
    /\ monitor' = [monitor EXCEPT ![c].stalled = FALSE]
    /\ UNCHANGED <<sshStatus, sshClient, link, caller, waiter, nDialled>>

(* The reply, or an error once the client has ended.                       *)
KeepAliveReturns(c) ==
    /\ monitor[c].inFlight
    /\ IF link[c] = "open" THEN SetHealth(c, "good")
       ELSE UNCHANGED <<sshHealth, healthOf, eventVars>>
    /\ monitor' = [monitor EXCEPT ![c].inFlight = FALSE]
    /\ UNCHANGED <<sshStatus, sshClient, link, caller, waiter, nDialled>>

MonitorStops(c) ==
    /\ monitor[c].runs /\ ~monitor[c].stalled
    /\ sshClient # c
    /\ monitor' = [monitor EXCEPT ![c] = [NoMonitor EXCEPT !.inFlight = monitor[c].inFlight]]
    /\ UNCHANGED <<sshStatus, sshClient, sshHealth, healthOf, link, caller, waiter, eventVars,
                   nDialled>>

-----------------------------------------------------------------------------
WaiterStep(c) ==
    WaiterStarts(c) \/ WaiterDisconnects(c) \/ WaiterCloses(c)
    \/ WaiterReads(c) \/ WaiterPublishes(c)

CallStep ==
    Dial \/ DialFails \/ ConnectFails \/ ConnectSucceeds \/ CloseClient \/ CallReturns

SshNext ==
    \/ Connect \/ Close \/ CallStep
    \/ \E c \in ClientIds :
         \/ ClientLost(c) \/ WaiterStep(c)
         \/ Activity(c) \/ MarkDegraded(c) \/ SendKeepAlive(c) \/ SeeStall(c)
         \/ MarkStalled(c) \/ KeepAliveReturns(c) \/ MonitorStops(c)
    \/ \E r \in Reports : ReportReads(r) \/ ReportPublishes(r)

SshSpec == SshInit /\ [][SshNext]_sshVars

(* Calls run to their end, ended clients wake their waiters, and a waiter  *)
(* gets the lock in its turn (Go's mutex starves nobody).                  *)
SshFairness ==
    /\ WF_sshVars(CallStep)
    /\ \A c \in ClientIds :
         /\ WF_sshVars(WaiterStarts(c) \/ WaiterCloses(c) \/ WaiterReads(c)
                        \/ WaiterPublishes(c))
         /\ SF_sshVars(WaiterDisconnects(c))

-----------------------------------------------------------------------------
(* No client is left open that the connection does not know: what is       *)
(* replaced or dropped was closed, so neither sockets nor sessions leak.   *)
OneOpenClient == \A c \in ClientIds : link[c] = "open" => sshClient = c

(* With the lifecycle lock free a connection has a client exactly when it  *)
(* says it is connected, whatever waiters, of this client or an older one, *)
(* have done to it.                                                        *)
StatusFitsClient == LifecycleLockFree => (sshStatus = "connected" <=> sshClient # 0)

(* The health shown is the current client's: the monitor of an older one,  *)
(* or its last keepalive, does not judge the new connection.               *)
HealthIsOfClient == sshClient # 0 => healthOf = sshClient

(* No status is skipped: one that no event has carried since it was set    *)
(* will be in one, because whoever set it is under way and has yet to read *)
(* it for the event, or has it in hand.                                    *)
ChangesAnnounced ==
    news = "untold" =>
        \/ caller # "none"
        \/ \E c \in ClientIds :
             \/ waiter[c].at \in {"closing", "fire"}
             \/ waiter[c].at = "publish" /\ waiter[c].read = sshStatus

(* What aiprompts/fe-conn-arch.md:996 says of the listeners: their status  *)
(* mirrors the connection's.  With nothing under way that would still      *)
(* publish, the last event they got has the status the connection has.     *)
LastEventCurrent ==
    (/\ LifecycleLockFree
     /\ \A c \in ClientIds : waiter[c].at \notin {"fire", "publish"}
     /\ \A r \in Reports : report[r] = "idle") => news = "told"

(* A client that ended does not stay the connection's client.              *)
ClientGone == sshClient # 0 /\ link[sshClient] # "open"
LossNoticed == ClientGone ~> ~ClientGone
=============================================================================
