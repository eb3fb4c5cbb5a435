--------------------------- MODULE SshConnProofs ---------------------------
(***************************************************************************)
(* Proofs about SshConn, for any number of clients.  The argument is what  *)
(* the holder of the lifecycle lock has left for the next one: SshInv says *)
(* for each place in Connect, Close and waitForDisconnect which status and *)
(* which client go with it, and is inductive.                              *)
(***************************************************************************)
EXTENDS SshConn, TLAPS

Down == {"init", "disconnected", "error"}

Waiters == [at : {"none", "started", "waiting", "closing", "fire", "publish", "done"},
            client : 0 .. SshClients, read : Statuses]

NoneCloses == \A c \in ClientIds : waiter[c].at # "closing"

CallerInv ==
    /\ caller \in {"began", "failed"} => sshStatus = "connecting" /\ sshClient = 0
    /\ caller = "dialled" => sshStatus = "connecting" /\ sshClient # 0
    /\ caller = "closing" => sshStatus \in Down
    /\ caller \in {"none", "ending"} => sshStatus # "connecting"

SettledInv ==
    caller \in {"none", "ending"} /\ NoneCloses => (sshStatus = "connected" <=> sshClient # 0)

WaiterInv ==
    \A c \in ClientIds :
        /\ waiter[c].at = "closing" =>
             /\ caller = "none" /\ sshStatus \in Down
             /\ \A d \in ClientIds : waiter[d].at = "closing" => d = c
        /\ waiter[c].at = "waiting" => waiter[c].client # 0

DialInv ==
    /\ sshClient <= nDialled
    /\ \A c \in ClientIds : c > nDialled => link[c] = "none" /\ waiter[c].at = "none"

SshInv ==
    /\ SshTypeOK /\ CallerInv /\ SettledInv /\ WaiterInv /\ DialInv
    /\ OneOpenClient /\ HealthIsOfClient /\ ChangesAnnounced

-----------------------------------------------------------------------------
(* A waiter that moves keeps its type, and the others are left alone.      *)
LEMMA WaiterMoves ==
    ASSUME waiter \in [ClientIds -> Waiters], NEW c \in ClientIds,
           NEW a \in {"none", "started", "waiting", "closing", "fire", "publish", "done"},
           NEW n \in 0 .. SshClients, NEW s \in Statuses,
           waiter' = [waiter EXCEPT ![c] = WaiterAt(a, n, s)]
    PROVE  /\ waiter' \in [ClientIds -> Waiters]
           /\ waiter'[c] = WaiterAt(a, n, s)
           /\ \A d \in ClientIds : d # c => waiter'[d] = waiter[d]
  <1>1. WaiterAt(a, n, s) \in Waiters
    BY DEF Waiters, WaiterAt
  <1> QED
    BY <1>1

(* A new connection has none of it.                                        *)
LEMMA SshInvInit ==
    ASSUME SshInit
    PROVE  SshInv
  BY SshConnAssumption
  DEF SshInit, SshInv, SshTypeOK, CallerInv, SettledInv, WaiterInv, DialInv, OneOpenClient,
      HealthIsOfClient, ChangesAnnounced, Statuses, NoMonitor, ClientIds, Reports, Down,
      NoneCloses, WaiterAt

(* Connect and Close keep the invariant at every step.                     *)
LEMMA SshInvCall ==
    ASSUME SshInv, Connect \/ Close \/ CallStep
    PROVE  SshInv'
  <1> USE SshConnAssumption
      DEF SshInv, SshTypeOK, CallerInv, SettledInv, WaiterInv, DialInv, OneOpenClient,
          HealthIsOfClient, ChangesAnnounced, Statuses, ClientIds, Reports, Down, NoneCloses,
          SetStatus, Publish, eventVars
  <1>1. CASE Connect
    BY <1>1 DEF Connect, ConnectAllowed, LifecycleLockFree
  <1>2. CASE Close
    BY <1>2 DEF Close, LifecycleLockFree
  <1>3. CASE Dial
    <2> DEFINE c == nDialled + 1
    <2>1. /\ c \in ClientIds /\ caller = "began" /\ caller' = "dialled" /\ sshStatus' = sshStatus
          /\ news' = "told" /\ report' = report /\ nDialled' = c /\ sshClient' = c
          /\ sshHealth' = "good" /\ healthOf' = c
          /\ link' = [link EXCEPT ![c] = "open"]
          /\ waiter' = [waiter EXCEPT ![c] = WaiterAt("started", 0, "init")]
          /\ monitor' = [monitor EXCEPT ![c] = [NoMonitor EXCEPT !.runs = TRUE]]
      BY <1>3 DEF Dial
    <2> HIDE DEF c
    <2>2. SshTypeOK'
      <3> DEFINE M == [runs : BOOLEAN, active : BOOLEAN, inFlight : BOOLEAN, stalled : BOOLEAN]
      <3>1. [NoMonitor EXCEPT !.runs = TRUE] \in M
        BY DEF NoMonitor
      <3>2. monitor' \in [ClientIds -> M]
        BY <2>1, <3>1
      <3>3. waiter' \in [ClientIds -> Waiters]
        BY <2>1, WaiterMoves DEF Waiters
      <3>4. c \in 0 .. SshClients
        BY <2>1
      <3> QED
        BY <2>1, <3>2, <3>3, <3>4 DEF Waiters
    <2>3. (OneOpenClient /\ DialInv)'
      \* no other client is open: there was none before
      BY <2>1 DEF c
    <2>4. waiter'[c].at = "started" /\ \A d \in ClientIds : d # c => waiter'[d] = waiter[d]
      BY <2>1 DEF WaiterAt
    <2>5. (CallerInv /\ SettledInv /\ HealthIsOfClient /\ ChangesAnnounced)'
      BY <2>1
    <2>6. WaiterInv'
      BY <2>1, <2>4
    <2> QED
      BY <2>2, <2>3, <2>5, <2>6
  <1>4. CASE DialFails
    BY <1>4 DEF DialFails
  <1>5. CASE ConnectFails
    BY <1>5 DEF ConnectFails, CloseInternal
  <1>6. CASE ConnectSucceeds
    BY <1>6 DEF ConnectSucceeds
  <1>7. CASE CloseClient
    BY <1>7 DEF CloseClient, CloseInternal
  <1>8. CASE CallReturns
    BY <1>8 DEF CallReturns
  <1> QED
    BY <1>1, <1>2, <1>3, <1>4, <1>5, <1>6, <1>7, <1>8 DEF CallStep

(* Waiter c is elsewhere, well typed, and the others are where they were.  *)
WaiterMoved(c, a, n, s) ==
    /\ waiter' \in [ClientIds -> Waiters]
    /\ waiter'[c] = WaiterAt(a, n, s)
    /\ \A d \in ClientIds : d # c => waiter'[d] = waiter[d]

(* Each step of a waiter moves it, from and to the places it names.        *)
LEMMA WaiterStepMoves ==
    ASSUME SshInv, NEW c \in ClientIds
    PROVE  /\ WaiterStarts(c) =>
                \E a \in {"fire", "waiting"} :
                    /\ WaiterMoved(c, a, sshClient, "init")
                    /\ a = "waiting" => sshClient # 0
           /\ WaiterDisconnects(c) => WaiterMoved(c, "closing", 0, "init")
           /\ WaiterCloses(c) => WaiterMoved(c, "fire", 0, "init")
           /\ WaiterReads(c) => WaiterMoved(c, "publish", 0, sshStatus)
           /\ WaiterPublishes(c) => WaiterMoved(c, "done", 0, "init")
  <1>1. /\ waiter \in [ClientIds -> Waiters] /\ sshStatus \in Statuses
        /\ sshClient \in 0 .. SshClients /\ 0 \in 0 .. SshClients /\ "init" \in Statuses
    BY SshConnAssumption DEF SshInv, SshTypeOK, Waiters, Statuses
  <1>2. ASSUME NEW a \in {"none", "started", "waiting", "closing", "fire", "publish", "done"},
               NEW n \in 0 .. SshClients, NEW s \in Statuses,
               waiter' = [waiter EXCEPT ![c] = WaiterAt(a, n, s)]
        PROVE  WaiterMoved(c, a, n, s)
    BY <1>1, <1>2, WaiterMoves DEF WaiterMoved
  <1>3. ASSUME WaiterStarts(c)
        PROVE  \E a \in {"fire", "waiting"} :
                   /\ WaiterMoved(c, a, sshClient, "init")
                   /\ a = "waiting" => sshClient # 0
    <2> DEFINE a == IF sshClient = 0 THEN "fire" ELSE "waiting"
    <2>1. a \in {"fire", "waiting"} /\ (a = "waiting" => sshClient # 0)
      OBVIOUS
    <2>2. waiter' = [waiter EXCEPT ![c] = WaiterAt(a, sshClient, "init")]
      BY <1>3 DEF WaiterStarts
    <2> HIDE DEF a
    <2>3. WaiterMoved(c, a, sshClient, "init")
      BY <1>1, <1>2, <2>1, <2>2
    <2> QED
      BY <2>1, <2>3
  <1> QED
    BY <1>1, <1>2, <1>3 DEF WaiterDisconnects, WaiterCloses, WaiterReads, WaiterPublishes

(* A waiter that leaves for no lock and no client disturbs nothing.        *)
LEMMA WaiterInvKept ==
    ASSUME WaiterInv, NEW c \in ClientIds, WaiterMoved(c, "done", 0, "init"),
           caller' = caller, sshStatus' = sshStatus
    PROVE  WaiterInv'
  <1>1. \A d \in ClientIds : waiter'[d].at \in {"closing", "waiting"} => waiter'[d] = waiter[d]
    BY DEF WaiterMoved, WaiterAt
  <1> QED
    BY <1>1 DEF WaiterInv, Down

(* A client's end, and what its waiter makes of it, keep the invariant.    *)
LEMMA SshInvWaiter ==
    ASSUME SshInv, NEW c \in ClientIds, ClientLost(c) \/ WaiterStep(c)
    PROVE  SshInv'
  <1> USE SshConnAssumption
      DEF SshInv, SshTypeOK, CallerInv, SettledInv, WaiterInv, DialInv, OneOpenClient,
          HealthIsOfClient, ChangesAnnounced, ClientIds, Down, NoneCloses, eventVars,
          WaiterMoved, WaiterAt, Waiters, Statuses
  <1>1. CASE ClientLost(c)
    BY <1>1 DEF ClientLost
  <1>2. CASE WaiterStarts(c)
    <2>1. PICK a \in {"fire", "waiting"} :
              WaiterMoved(c, a, sshClient, "init") /\ (a = "waiting" => sshClient # 0)
      BY <1>2, WaiterStepMoves
    <2> QED
      BY <1>2, <2>1 DEF WaiterStarts
  <1>3. CASE WaiterDisconnects(c)
    <2>1. WaiterMoved(c, "closing", 0, "init")
      BY <1>3, WaiterStepMoves
    <2> QED
      BY <1>3, <2>1 DEF WaiterDisconnects, LifecycleLockFree, SetStatus
  <1>4. CASE WaiterCloses(c)
    <2>1. WaiterMoved(c, "fire", 0, "init")
      BY <1>4, WaiterStepMoves
    <2> QED
      \* the one waiter that closes has the lock, and leaves no client
      BY <1>4, <2>1 DEF WaiterCloses, CloseInternal
  <1>5. CASE WaiterReads(c)
    <2>1. WaiterMoved(c, "publish", 0, sshStatus)
      BY <1>5, WaiterStepMoves
    <2> QED
      BY <1>5, <2>1 DEF WaiterReads
  <1>6. CASE WaiterPublishes(c)
    <2>1. WaiterMoved(c, "done", 0, "init")
      BY <1>6, WaiterStepMoves
    <2>2. /\ waiter[c].at = "publish"
          /\ news' = IF waiter[c].read = sshStatus THEN "told"
                     ELSE IF news = "told" THEN "misled" ELSE news
          /\ UNCHANGED <<sshStatus, sshClient, sshHealth, healthOf, link, caller, monitor,
                         report, nDialled>>
      BY <1>6 DEF WaiterPublishes, Publish
    <2>3. ChangesAnnounced'
      \* what it leaves untold another has yet to read, or has in hand
      BY <2>1, <2>2
    <2>4. (SshTypeOK /\ CallerInv /\ SettledInv)'
      BY <2>1, <2>2
    <2>5. \A d \in ClientIds : waiter'[d].at = IF d = c THEN "done" ELSE waiter[d].at
      BY <2>1
    <2>6. (DialInv /\ OneOpenClient /\ HealthIsOfClient)'
      <3>1. DialInv'
        BY <2>2, <2>5
      <3>2. (OneOpenClient /\ HealthIsOfClient)'
        BY <2>2
      <3> QED
        BY <3>1, <3>2
    <2>7. WaiterInv'
      BY <2>1, <2>2, <2>5, WaiterInvKept
    <2> QED
      BY <2>3, <2>4, <2>6, <2>7
  <1> QED
    BY <1>1, <1>2, <1>3, <1>4, <1>5, <1>6 DEF WaiterStep

(* And the monitors' events, which carry whatever they read.               *)
LEMMA SshInvReport ==
    ASSUME SshInv, NEW r \in Reports, ReportReads(r) \/ ReportPublishes(r)
    PROVE  SshInv'
  <1> USE SshConnAssumption
      DEF SshInv, SshTypeOK, CallerInv, SettledInv, WaiterInv, DialInv, OneOpenClient,
          HealthIsOfClient, ChangesAnnounced, Statuses, ClientIds, Reports, Down, NoneCloses,
          Publish
  <1>1. CASE ReportReads(r)
    BY <1>1 DEF ReportReads
  <1>2. CASE ReportPublishes(r)
    BY <1>2 DEF ReportPublishes
  <1> QED
    BY <1>1, <1>2

MonitorStep(c) ==
    \/ Activity(c) \/ MarkDegraded(c) \/ SendKeepAlive(c) \/ SeeStall(c)
    \/ MarkStalled(c) \/ KeepAliveReturns(c) \/ MonitorStops(c)

(* A monitor judges the current client and nothing else.                   *)
LEMMA SshInvMonitor ==
    ASSUME SshInv, NEW c \in ClientIds, MonitorStep(c)
    PROVE  SshInv'
  <1> DEFINE Judged ==
               \/ UNCHANGED <<sshHealth, healthOf, report>>
               \/ /\ sshClient = c /\ healthOf' = c
                  /\ sshHealth' \in {"good", "degraded", "stalled"}
                  /\ report' = report \/ \E r \in Reports : report' = [report EXCEPT ![r] = "begun"]
  <1>1. UNCHANGED <<sshStatus, sshClient, caller, waiter, link, news, nDialled>>
    BY DEF MonitorStep, Activity, MarkDegraded, SendKeepAlive, SeeStall, MarkStalled,
           KeepAliveReturns, MonitorStops, SetHealth, eventVars
  <1>2. \A h \in {"good", "degraded", "stalled"} : SetHealth(c, h) => Judged
    BY DEF SetHealth
  <1>3. Judged
    BY <1>2 DEF MonitorStep, Activity, MarkDegraded, SendKeepAlive, SeeStall, MarkStalled,
                KeepAliveReturns, MonitorStops, eventVars
  <1>4. monitor' \in [ClientIds -> [runs : BOOLEAN, active : BOOLEAN, inFlight : BOOLEAN,
                                    stalled : BOOLEAN]]
    <2> USE DEF SshInv, SshTypeOK
    <2>1. CASE Activity(c)
      BY <2>1 DEF Activity
    <2>2. CASE MarkDegraded(c)
      BY <2>2 DEF MarkDegraded
    <2>3. CASE SendKeepAlive(c)
      BY <2>3 DEF SendKeepAlive
    <2>4. CASE SeeStall(c)
      BY <2>4 DEF SeeStall
    <2>5. CASE MarkStalled(c)
      BY <2>5 DEF MarkStalled
    <2>6. CASE KeepAliveReturns(c)
      BY <2>6 DEF KeepAliveReturns
    <2>7. CASE MonitorStops(c)
      BY <2>7 DEF MonitorStops, NoMonitor
    <2> QED
      BY <2>1, <2>2, <2>3, <2>4, <2>5, <2>6, <2>7 DEF MonitorStep
  <1>5. /\ healthOf' \in 0 .. SshClients /\ sshHealth' \in {"good", "degraded", "stalled"}
        /\ report' \in [Reports -> {"idle", "begun"} \cup Statuses]
        /\ sshClient # 0 /\ healthOf = sshClient => healthOf' = sshClient
    BY <1>3, SshConnAssumption DEF SshInv, SshTypeOK, ClientIds
  <1> HIDE DEF Judged
  <1> QED
    BY <1>1, <1>4, <1>5, SshConnAssumption
    DEF SshInv, SshTypeOK, CallerInv, SettledInv, WaiterInv, DialInv, OneOpenClient,
        HealthIsOfClient, ChangesAnnounced, Statuses, ClientIds, Reports, Down, NoneCloses

(* The invariant is inductive.                                             *)
LEMMA SshInvStep ==
    ASSUME SshInv, [SshNext]_sshVars
    PROVE  SshInv'
  <1>1. CASE Connect \/ Close \/ CallStep
    BY <1>1, SshInvCall
  <1>2. ASSUME NEW c \in ClientIds, ClientLost(c) \/ WaiterStep(c)
        PROVE  SshInv'
    BY <1>2, SshInvWaiter
  <1>3. ASSUME NEW c \in ClientIds, MonitorStep(c)
        PROVE  SshInv'
    BY <1>3, SshInvMonitor
  <1>4. ASSUME NEW r \in Reports, ReportReads(r) \/ ReportPublishes(r)
        PROVE  SshInv'
    BY <1>4, SshInvReport
  <1>5. CASE UNCHANGED sshVars
    BY <1>5
    DEF sshVars, SshInv, SshTypeOK, CallerInv, SettledInv, WaiterInv, DialInv, OneOpenClient,
        HealthIsOfClient, ChangesAnnounced, NoneCloses
  <1> QED
    BY <1>1, <1>2, <1>3, <1>4, <1>5 DEF SshNext, MonitorStep

(* SshInv holds throughout.                                                *)
LEMMA SshInvariant == SshSpec => []SshInv
  <1>1. SshInit => SshInv
    BY SshInvInit
  <1>2. SshInv /\ [SshNext]_sshVars => SshInv'
    BY SshInvStep
  <1> QED
    BY <1>1, <1>2, PTL DEF SshSpec

-----------------------------------------------------------------------------
(* The types of the connection's state hold throughout.                    *)
THEOREM SshTypeCorrect == SshSpec => []SshTypeOK
  <1>1. SshInv => SshTypeOK
    BY DEF SshInv
  <1> QED
    BY <1>1, SshInvariant, PTL

(* No client is left open that the connection does not know, however       *)
(* often it was connected, closed and lost.                                *)
THEOREM NoClientLeaks == SshSpec => []OneOpenClient
  <1>1. SshInv => OneOpenClient
    BY DEF SshInv
  <1> QED
    BY <1>1, SshInvariant, PTL

(* Between calls a connection has a client exactly when it says it is      *)
(* connected.                                                              *)
THEOREM StatusAgrees == SshSpec => []StatusFitsClient
  <1>1. SshInv => StatusFitsClient
    BY DEF SshInv, SettledInv, NoneCloses, StatusFitsClient, LifecycleLockFree
  <1> QED
    BY <1>1, SshInvariant, PTL

(* The health shown is the current client's.                               *)
THEOREM HealthAgrees == SshSpec => []HealthIsOfClient
  <1>1. SshInv => HealthIsOfClient
    BY DEF SshInv
  <1> QED
    BY <1>1, SshInvariant, PTL

(* No status is skipped, though waiters and monitors publish late what     *)
(* they read: one that no event has carried yet is still to be read for    *)
(* an event, or already in the hands of a waiter that will publish it.     *)
THEOREM EveryChangeAnnounced == SshSpec => []ChangesAnnounced
  <1>1. SshInv => ChangesAnnounced
    BY DEF SshInv
  <1> QED
    BY <1>1, SshInvariant, PTL
=============================================================================
