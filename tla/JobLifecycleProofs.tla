------------------------- MODULE JobLifecycleProofs -------------------------
(***************************************************************************)
(* Proofs about JobLifecycle, for any jobs and connections and any number  *)
(* of disturbances.  Seen from the connections the job controller is       *)
(* ConnReconciler, whose theorem comes first.  For a job, JobInv says what *)
(* each place of StartJob, ReconnectJob and TerminateJobManager implies of *)
(* its record, its host and its terminal; it speaks of one job and is      *)
(* inductive.                                                              *)
(***************************************************************************)
EXTENDS JobLifecycle, SequenceTheorems, TLAPS

-----------------------------------------------------------------------------
(* The reconciler of connection events, handled in order or not.           *)

(* Taking an event out of the published ones leaves a sequence of events.  *)
LEMMA WithoutEventType ==
    ASSUME NEW S, NEW s \in Seq(S), NEW i \in 1 .. Len(s)
    PROVE  WithoutEvent(s, i) \in Seq(S)
  <1>1. SubSeq(s, 1, i - 1) \in Seq(S)
    <2>1. \A k \in 1 .. i - 1 : s[k] \in S
      OBVIOUS
    <2> QED
      BY <2>1, SubSeqProperties
  <1>2. SubSeq(s, i + 1, Len(s)) \in Seq(S)
    <2>1. \A k \in i + 1 .. Len(s) : s[k] \in S
      OBVIOUS
    <2> QED
      BY <2>1, SubSeqProperties
  <1> QED
    BY <1>1, <1>2, ConcatProperties DEF WithoutEvent

(* Every step of the reconciler keeps the types of its state.              *)
LEMMA ConnTypeStep ==
    ASSUME ConnTypeOK, [ConnNext]_connVars
    PROVE  ConnTypeOK'
  <1> USE DEF ConnTypeOK
  <1>1. CASE LeaveToken
    BY <1>1 DEF LeaveToken
  <1>2. CASE TakeToken
    BY <1>2 DEF TakeToken
  <1>3. CASE ReconcileAllConns
    BY <1>3 DEF ReconcileAllConns, Reconciling
  <1>4. ASSUME NEW c \in Conns, ConnChanges(c)
        PROVE  ConnTypeOK'
    <2>1. OtherState(conn[c]) \in LinkStates
      BY DEF OtherState, LinkStates
    <2>2. conn' \in [Conns -> LinkStates]
      BY <1>4, <2>1 DEF ConnChanges
    <2>3. nChanges' \in [Conns -> Nat]
      BY <1>4 DEF ConnChanges
    <2>4. changes' \in [Conns -> Seq(LinkStates)]
      <3>1. Append(changes[c], OtherState(conn[c])) \in Seq(LinkStates)
        BY <2>1, AppendProperties
      <3> QED
        BY <1>4, <3>1 DEF ConnChanges
    <2> QED
      BY <1>4, <2>2, <2>3, <2>4 DEF ConnChanges
  <1>5. ASSUME NEW c \in Conns, HandleConnChange(c)
        PROVE  ConnTypeOK'
    <2>1. PICK i \in 1 .. Len(changes[c]) :
            /\ actual' = [actual EXCEPT ![c] = changes[c][i]]
            /\ changes' = [changes EXCEPT ![c] = WithoutEvent(@, i)]
      BY <1>5 DEF HandleConnChange
    <2>2. changes[c] \in Seq(LinkStates)
      OBVIOUS
    <2>3. changes[c][i] \in LinkStates
      BY <2>2
    <2>4. WithoutEvent(changes[c], i) \in Seq(LinkStates)
      BY <2>2, WithoutEventType
    <2> QED
      BY <1>5, <2>1, <2>3, <2>4 DEF HandleConnChange
  <1>6. ASSUME NEW c \in Conns, ReconcileDone(c)
        PROVE  ConnTypeOK'
    BY <1>6 DEF ReconcileDone, Reconciling
  <1>7. CASE UNCHANGED connVars
    BY <1>7 DEF connVars
  <1> QED
    BY <1>1, <1>2, <1>3, <1>4, <1>5, <1>6, <1>7 DEF ConnNext

(* The types of the reconciler's state hold throughout.                    *)
THEOREM ConnTypeCorrect == ConnSpec => []ConnTypeOK
  <1>1. ConnInit => ConnTypeOK
    <2> SUFFICES ASSUME ConnInit PROVE ConnTypeOK
      OBVIOUS
    <2>1. << >> \in Seq(LinkStates)
      BY EmptySeq
    <2>2. changes \in [Conns -> Seq(LinkStates)]
      BY <2>1, Zenon DEF ConnInit
    <2>3. /\ conn \in [Conns -> LinkStates] /\ actual \in [Conns -> LinkStates]
          /\ processed \in [Conns -> LinkStates]
      BY Zenon DEF ConnInit, LinkStates
    <2>4. target \in [Conns -> LinkStates \cup {NoTarget}]
      BY Zenon DEF ConnInit
    <2>5. handlers \in Nat /\ nChanges \in [Conns -> Nat]
      BY DEF ConnInit
    <2> QED
      BY <2>2, <2>3, <2>4, <2>5, Zenon DEF ConnInit, ConnTypeOK
  <1>2. ConnTypeOK /\ [ConnNext]_connVars => ConnTypeOK'
    BY ConnTypeStep
  <1> QED
    BY <1>1, <1>2, PTL DEF ConnSpec

(* No step makes a change of a connection invisible to the worker.         *)
LEMMA NoLostTokenStep ==
    ASSUME ConnTypeOK, NoLostToken, [ConnNext]_connVars
    PROVE  NoLostToken'
  <1> USE DEF NoLostToken, Reconciling
  <1>1. CASE LeaveToken
    BY <1>1 DEF LeaveToken
  <1>2. CASE TakeToken
    BY <1>2 DEF TakeToken
  <1>3. CASE ReconcileAllConns
    \* whatever differs is being reconciled after the scan
    BY <1>3 DEF ReconcileAllConns, ConnTypeOK, LinkStates, NoTarget
  <1>4. ASSUME NEW c \in Conns, ConnChanges(c)
        PROVE  NoLostToken'
    BY <1>4 DEF ConnChanges
  <1>5. ASSUME NEW c \in Conns, HandleConnChange(c)
        PROVE  NoLostToken'
    \* the handler still has its token to leave
    <2>1. handlers' > 0
      BY <1>5 DEF HandleConnChange, ConnTypeOK
    <2> QED
      BY <2>1
  <1>6. ASSUME NEW c \in Conns, ReconcileDone(c)
        PROVE  NoLostToken'
    BY <1>6 DEF ReconcileDone
  <1>7. CASE UNCHANGED connVars
    BY <1>7 DEF connVars
  <1> QED
    BY <1>1, <1>2, <1>3, <1>4, <1>5, <1>6, <1>7 DEF ConnNext

(* A connection whose recorded state differs from the one acted on, and    *)
(* that no reconcile is working on, will be looked at, whatever the        *)
(* number of connections and however their events overtake one another.    *)
THEOREM TokenNeverLost == ConnSpec => []NoLostToken
  <1>1. ConnInit => NoLostToken
    BY DEF ConnInit, NoLostToken
  <1>2. ConnTypeOK /\ NoLostToken /\ [ConnNext]_connVars => NoLostToken'
    BY NoLostTokenStep
  <1> QED
    BY <1>1, <1>2, ConnTypeCorrect, PTL DEF ConnSpec

-----------------------------------------------------------------------------
(* The jobs.                                                               *)

JobRecs == [status : {"none", "init", "running", "done"},
            reason : {"none", "startuperror", "terminated", "gone"},
            terminateOnReconnect : BOOLEAN, pid : BOOLEAN,
            exited : BOOLEAN, streamDone : BOOLEAN]
HostRecs == [manager : {"absent", "alive", "dead"},
             cmd : {"none", "running", "exited"}, ptyEnded : BOOLEAN,
             signal : {"none", "sent", "refused"}]
RcRecs == [pc : {"idle", "sent", "gone", "connected", "restart", "cut", "terminating"},
           pid : BOOLEAN]
KillerRecs == [pc : CallStates, pid : BOOLEAN, done : BOOLEAN]
AutoRecs == [sleeping : BOOLEAN, attempts : Nat]
TodoRecs == [listed : BOOLEAN, jobs : SUBSET Jobs, waiting : Jobs \cup {NoJob}]

JobTypes ==
    /\ job \in [Jobs -> JobRecs]
    /\ connStatus \in [Jobs -> BOOLEAN] /\ written \in [Jobs -> BOOLEAN]
    /\ told \in [Jobs -> Nat]
    /\ remote \in [Jobs -> HostRecs]
    /\ route \in [Jobs -> BOOLEAN] /\ routeEvents \in [Jobs -> Seq(LinkStates)]
    /\ exitReports \in [Jobs -> BOOLEAN] /\ loop \in [Jobs -> BOOLEAN]
    /\ checks \in [Jobs -> Nat]
    /\ start \in [Jobs -> CallStates \cup {"returned", "failed"}]
    /\ rc \in [Jobs -> RcRecs]
    /\ killer \in [Groups -> [Jobs -> KillerRecs]]
    /\ auto \in [Jobs -> AutoRecs]
    /\ todo \in [Conns -> TodoRecs]
    /\ disturbed \in [Jobs -> BOOLEAN]
    /\ faults \in Nat

NotReturned(j) == start[j] \in {"idle", "sent", "answered", "cut"}

ToldInv(j) ==
    /\ told[j] = (IF written[j] THEN 1 ELSE 0)
    /\ \A g \in Groups : killer[g][j].pc \in {"sent", "answered", "cut"} => written[j]
    /\ job[j].status = "done" /\ job[j].reason # "startuperror" => written[j]

RemoteInv(j) ==
    /\ start[j] \in {"idle", "sent"} => remote[j].cmd = "none"
    /\ exitReports[j] => remote[j].cmd = "exited"
    /\ job[j].exited => remote[j].cmd = "exited"

Quiet(j) ==
    /\ job[j].status \in {"none", "init"} /\ ~job[j].streamDone
    /\ rc[j].pc = "idle" /\ ~auto[j].sleeping /\ ~loop[j]
    /\ \A g \in Groups : killer[g][j].pc = "idle"
    /\ \A c \in Conns : j \notin todo[c].jobs

StartInv(j) ==
    /\ job[j].pid <=> start[j] = "returned"
    /\ start[j] = "idle" => job[j].status = "none" /\ ~disturbed[j]
    /\ NotReturned(j) /\ ~disturbed[j] => Quiet(j)

EndInv(j) ==
    ~disturbed[j] =>
        /\ killer["tm"][j].pc # "idle" => job[j].terminateOnReconnect \/ job[j].status = "done"
        /\ IsJobManagerRunning(j) /\ job[j].exited /\ job[j].streamDone =>
             checks[j] > 0 \/ job[j].terminateOnReconnect

(* Gone, or told to go.                                                    *)
Stopping(j) == remote[j].manager # "alive" \/ remote[j].signal # "none"

StopInv(j) ==
    start[j] = "returned" /\ ~disturbed[j] =>
        /\ \A g \in Groups : killer[g][j].pc # "idle" => killer[g][j].pid
        /\ \A g \in Groups : killer[g][j].pc = "answered" => Stopping(j)
        /\ rc[j].pc = "sent" => rc[j].pid
        /\ rc[j].pc = "gone" => remote[j].manager # "alive"
        /\ job[j].status = "done" =>
             remote[j].manager # "alive" \/ (job[j].reason = "terminated" /\ Stopping(j))

JobInv(j) == ToldInv(j) /\ RemoteInv(j) /\ StartInv(j) /\ EndInv(j) /\ StopInv(j)

LInv == JobTypes /\ \A j \in Jobs : JobInv(j)

-----------------------------------------------------------------------------
(* The connections.                                                        *)

(* Whatever the job controller does, its view of the connections takes a   *)
(* step of the reconciler or none.                                         *)
LEMMA ReconcilerStep ==
    ASSUME [LifecycleNext]_vars
    PROVE  [ConnNext]_connVars
  <1>1. CASE WorkerStep
    BY <1>1 DEF WorkerStep, ConnNext
  <1>2. ASSUME NEW c \in Conns, LinkChanges(c)
        PROVE  ConnNext
    BY <1>2 DEF LinkChanges, ConnNext
  <1>3. ASSUME NEW c \in Conns, ConnStep(c)
        PROVE  [ConnNext]_connVars
    BY <1>3 DEF ConnStep, ConnNext, ListJobs, ReconnectNext, ReconnectReturns,
                ReconcileConnDone
  <1>4. ASSUME NEW j \in Jobs,
               \/ StartJob(j) \/ CmdExits(j) \/ PtyEnds(j) \/ ManagerDies(j)
               \/ TerminateJobManager(j) \/ ReconnectJob(j) \/ DisconnectJob(j)
        PROVE  UNCHANGED connVars
    BY <1>4 DEF StartJob, CmdExits, PtyEnds, ManagerDies, TerminateJobManager, ReconnectJob,
                DisconnectJob
  <1>5. ASSUME NEW j \in Jobs, JobStep(j)
        PROVE  UNCHANGED connVars
    BY <1>5 DEF JobStep, RemoteStartJob, StartJobReturns, StartJobFails, HandleCmdJobExited,
                OutputLoopEnds, TryTerminateJobManager, KillBegins, RemoteTerminate,
                KillSucceeds, KillFails, RemoteReconnect, JobManagerGone, RouteRegistered,
                RestartStreaming, ReconnectFails, HandleRouteEvent, AttemptAutoReconnect,
                ManagerStops
  <1>6. CASE UNCHANGED vars
    BY <1>6 DEF vars
  <1> QED
    BY <1>1, <1>2, <1>3, <1>4, <1>5, <1>6 DEF LifecycleNext

(* With all that happens to jobs, the job controller's view of the         *)
(* connections behaves as the reconciler alone.                            *)
THEOREM LifecycleReconciles == LifecycleSpec => ConnSpec
  <1>1. LifecycleInit => ConnInit
    BY DEF LifecycleInit
  <1>2. [LifecycleNext]_vars => [ConnNext]_connVars
    BY ReconcilerStep
  <1> QED
    BY <1>1, <1>2, PTL DEF LifecycleSpec, ConnSpec

(* Therefore no change of a connection is lost while jobs start, end and   *)
(* reconnect: its connection is being reconciled or will be looked at.     *)
THEOREM JobsLoseNoToken == LifecycleSpec => []NoLostToken
  BY LifecycleReconciles, TokenNeverLost, PTL

-----------------------------------------------------------------------------
(* The types.                                                              *)

(* Records keep their type when a field is set.                            *)
LEMMA JobFieldSet ==
    ASSUME NEW rec \in JobRecs, NEW v \in BOOLEAN
    PROVE  /\ [rec EXCEPT !.terminateOnReconnect = v] \in JobRecs
           /\ [rec EXCEPT !.exited = v] \in JobRecs
           /\ [rec EXCEPT !.streamDone = v] \in JobRecs
           /\ [rec EXCEPT !.pid = v] \in JobRecs
  BY DEF JobRecs

LEMMA JobStatusSet ==
    ASSUME NEW rec \in JobRecs, NEW s \in {"none", "init", "running", "done"},
           NEW r \in {"none", "startuperror", "terminated", "gone"}
    PROVE  [rec EXCEPT !.status = s] \in JobRecs /\ [rec EXCEPT !.reason = r] \in JobRecs
  BY DEF JobRecs

LEMMA KillerPcSet ==
    ASSUME NEW rec \in KillerRecs, NEW pc \in CallStates
    PROVE  [rec EXCEPT !.pc = pc] \in KillerRecs
  BY DEF KillerRecs

LEMMA KillerPlaceSet ==
    ASSUME JobTypes, NEW g \in Groups, NEW j \in Jobs, NEW rec \in KillerRecs
    PROVE  [killer EXCEPT ![g][j] = rec] \in [Groups -> [Jobs -> KillerRecs]]
  BY DEF JobTypes

(* The parts the handlers share keep the types.                            *)
LEMMA JobSet ==
    ASSUME JobTypes, NEW j \in Jobs, NEW rec \in JobRecs, SetJob(j, rec)
    PROVE  job' \in [Jobs -> JobRecs]
  BY DEF JobTypes, SetJob

LEMMA RcSet ==
    ASSUME JobTypes, NEW j \in Jobs, SetRc(j, "idle") \/ SetRc(j, "gone")
                 \/ SetRc(j, "connected") \/ SetRc(j, "restart") \/ SetRc(j, "terminating")
    PROVE  rc' \in [Jobs -> RcRecs]
  <1>1. \A pc \in {"idle", "gone", "connected", "restart", "terminating"} :
            [pc |-> pc, pid |-> rc[j].pid /\ pc # "idle"] \in RcRecs
    <2>1. rc[j].pid \in BOOLEAN
      BY DEF JobTypes, RcRecs
    <2> QED
      BY <2>1 DEF RcRecs
  <1> QED
    BY <1>1, ZenonT(30) DEF JobTypes, SetRc

LEMMA MessageWritten ==
    ASSUME JobTypes, NEW j \in Jobs, WriteTerminationMessage(j)
    PROVE  written' \in [Jobs -> BOOLEAN] /\ told' \in [Jobs -> Nat]
  BY DEF JobTypes, WriteTerminationMessage

LEMMA RoutesDownTypes ==
    ASSUME JobTypes, NEW js, RoutesDown(js)
    PROVE  /\ route' \in [Jobs -> BOOLEAN] /\ routeEvents' \in [Jobs -> Seq(LinkStates)]
           /\ loop' \in [Jobs -> BOOLEAN] /\ exitReports' \in [Jobs -> BOOLEAN]
  <1>1. \A j \in Jobs : Append(routeEvents[j], "down") \in Seq(LinkStates)
    BY AppendProperties DEF JobTypes, LinkStates
  <1>2. routeEvents' \in [Jobs -> Seq(LinkStates)]
    BY <1>1 DEF RoutesDown, JobTypes
  <1> QED
    BY <1>2 DEF RoutesDown, JobTypes

LEMMA RouteUpTypes ==
    ASSUME JobTypes, NEW j \in Jobs, RouteUp(j)
    PROVE  /\ route' \in [Jobs -> BOOLEAN] /\ routeEvents' \in [Jobs -> Seq(LinkStates)]
           /\ loop' \in [Jobs -> BOOLEAN]
  <1>1. (IF route[j] THEN <<"down", "up">> ELSE <<"up">>) \in Seq(LinkStates)
    <2>1. "up" \in LinkStates /\ "down" \in LinkStates
      BY DEF LinkStates
    <2> QED
      BY <2>1
  <1>2. routeEvents' \in [Jobs -> Seq(LinkStates)]
    BY <1>1, ConcatProperties DEF RouteUp, JobTypes
  <1> QED
    BY <1>2 DEF RouteUp, JobTypes

LEMMA FaultsCounted ==
    ASSUME JobTypes, NEW kind, Disturb(kind) \/ UNCHANGED faults
    PROVE  faults' \in Nat
  BY DEF JobTypes, Disturb

LEMMA CallFailsTypes ==
    ASSUME JobTypes, NEW cut, CallFails(cut)
    PROVE  faults' \in Nat
  BY DEF JobTypes, CallFails, Disturb

LEMMA TerminateTypes ==
    ASSUME JobTypes, NEW j \in Jobs, DoTerminate(j)
    PROVE  job' \in [Jobs -> JobRecs] /\ killer' \in [Groups -> [Jobs -> KillerRecs]]
  <1>1. [job[j] EXCEPT !.terminateOnReconnect = TRUE] \in JobRecs
    BY JobFieldSet DEF JobTypes
  <1>2. [pc |-> "begin", pid |-> job[j].pid, done |-> FALSE] \in KillerRecs
    BY DEF JobTypes, JobRecs, KillerRecs, CallStates
  <1>3. job' \in [Jobs -> JobRecs]
    BY <1>1 DEF DoTerminate, SetJob, JobTypes
  <1>4. killer' \in [Groups -> [Jobs -> KillerRecs]]
    <2>1. "tm" \in Groups
      BY DEF Groups
    <2>2. \/ killer' = killer
          \/ killer' = [killer EXCEPT !["tm"][j] =
                          [pc |-> "begin", pid |-> job[j].pid, done |-> FALSE]]
      BY DEF DoTerminate
    <2>3. killer \in [Groups -> [Jobs -> KillerRecs]]
      BY DEF JobTypes
    <2>4. [killer EXCEPT !["tm"][j] = [pc |-> "begin", pid |-> job[j].pid, done |-> FALSE]]
            \in [Groups -> [Jobs -> KillerRecs]]
      BY <1>2, <2>1, KillerPlaceSet
    <2> QED
      BY <2>2, <2>3, <2>4, Zenon
  <1> QED
    BY <1>3, <1>4

LEMMA ReconnectTypes ==
    ASSUME JobTypes, NEW j \in Jobs, DoReconnect(j)
    PROVE  rc' \in [Jobs -> RcRecs] /\ killer' \in [Groups -> [Jobs -> KillerRecs]]
  <1>1. [pc |-> "begin", pid |-> job[j].pid, done |-> job[j].status = "done"] \in KillerRecs
    BY DEF JobTypes, JobRecs, KillerRecs, CallStates
  <1>2. [pc |-> "sent", pid |-> job[j].pid] \in RcRecs
    BY DEF JobTypes, JobRecs, RcRecs
  <1>3. SetRc(j, "terminating") => rc' \in [Jobs -> RcRecs]
    BY RcSet
  <1>4. rc' \in [Jobs -> RcRecs]
    BY <1>2, <1>3 DEF DoReconnect, JobTypes
  <1>5. killer' \in [Groups -> [Jobs -> KillerRecs]]
    <2>1. "rc" \in Groups
      BY DEF Groups
    <2>2. \/ killer' = killer
          \/ killer' = [killer EXCEPT !["rc"][j] =
                          [pc |-> "begin", pid |-> job[j].pid, done |-> job[j].status = "done"]]
      BY DEF DoReconnect
    <2>3. killer \in [Groups -> [Jobs -> KillerRecs]]
      BY DEF JobTypes
    <2>4. [killer EXCEPT !["rc"][j] =
             [pc |-> "begin", pid |-> job[j].pid, done |-> job[j].status = "done"]]
            \in [Groups -> [Jobs -> KillerRecs]]
      BY <1>1, <2>1, KillerPlaceSet
    <2> QED
      BY <2>2, <2>3, <2>4, Zenon
  <1> QED
    BY <1>4, <1>5

LEMMA KillerSet ==
    ASSUME JobTypes, NEW g \in Groups, NEW j \in Jobs, NEW pc \in CallStates,
           SetKiller(g, j, pc)
    PROVE  killer' \in [Groups -> [Jobs -> KillerRecs]]
  <1>1. [killer[g][j] EXCEPT !.pc = pc] \in KillerRecs
    BY KillerPcSet DEF JobTypes
  <1> QED
    BY <1>1 DEF SetKiller, JobTypes

LEMMA KillReturnsTypes ==
    ASSUME JobTypes, NEW g \in Groups, NEW j \in Jobs, KillReturns(g, j)
    PROVE  killer' \in [Groups -> [Jobs -> KillerRecs]] /\ rc' \in [Jobs -> RcRecs]
  <1>1. Idle \in KillerRecs
    BY DEF Idle, KillerRecs, CallStates
  <1>2. killer' \in [Groups -> [Jobs -> KillerRecs]]
    BY <1>1 DEF KillReturns, JobTypes
  <1>3. rc' \in [Jobs -> RcRecs]
    BY RcSet DEF KillReturns, JobTypes
  <1> QED
    BY <1>2, <1>3

(* The host and the connection.                                            *)
LEMMA HostTypes ==
    ASSUME JobTypes, NEW j \in Jobs,
           \/ CmdExits(j) \/ PtyEnds(j) \/ ManagerDies(j) \/ ManagerStops(j)
           \/ DisconnectJob(j)
    PROVE  JobTypes'
  <1>1. ASSUME NEW rec \in HostRecs
        PROVE  /\ [rec EXCEPT !.cmd = "exited"] \in HostRecs
               /\ [rec EXCEPT !.ptyEnded = TRUE] \in HostRecs
               /\ [rec EXCEPT !.manager = "dead"] \in HostRecs
    BY DEF HostRecs
  <1>2. remote[j] \in HostRecs
    BY DEF JobTypes
  <1>3. CASE CmdExits(j)
    BY <1>1, <1>2, <1>3 DEF CmdExits, JobTypes
  <1>4. CASE PtyEnds(j)
    BY <1>1, <1>2, <1>4 DEF PtyEnds, JobTypes
  <1>5. CASE ManagerDies(j)
    <2>1. faults' \in Nat
      BY <1>5, FaultsCounted DEF ManagerDies
    <2>2. remote' \in [Jobs -> HostRecs]
      BY <1>1, <1>2, <1>5 DEF ManagerDies, JobTypes
    <2>3. disturbed' \in [Jobs -> BOOLEAN]
      BY <1>5 DEF ManagerDies, JobTypes, Starting
    <2> QED
      BY <1>5, <2>1, <2>2, <2>3, RoutesDownTypes DEF ManagerDies, JobTypes
  <1>6. CASE DisconnectJob(j)
    <2>1. faults' \in Nat
      BY <1>6, FaultsCounted DEF DisconnectJob, Command
    <2>2. disturbed' \in [Jobs -> BOOLEAN]
      BY <1>6 DEF DisconnectJob, Command, JobTypes, Starting
    <2> QED
      BY <1>6, <2>1, <2>2, RoutesDownTypes DEF DisconnectJob, JobTypes
  <1>7. CASE ManagerStops(j)
    <2>1. remote' \in [Jobs -> HostRecs]
      BY <1>1, <1>2, <1>7 DEF ManagerStops, JobTypes
    <2> QED
      BY <1>7, <2>1, RoutesDownTypes DEF ManagerStops, JobTypes
  <1> QED
    BY <1>3, <1>4, <1>5, <1>6, <1>7

(* StartJob.                                                               *)
LEMMA StartTypes ==
    ASSUME JobTypes, NEW j \in Jobs,
           StartJob(j) \/ RemoteStartJob(j) \/ StartJobReturns(j) \/ StartJobFails(j)
    PROVE  JobTypes'
  <1>1. job[j] \in JobRecs /\ remote[j] \in HostRecs
    BY DEF JobTypes
  <1>2. ASSUME NEW pc \in CallStates \cup {"returned", "failed"}, SetStart(j, pc)
        PROVE  start' \in [Jobs -> CallStates \cup {"returned", "failed"}]
    BY <1>2 DEF SetStart, JobTypes
  <1>3. {"sent", "answered", "cut"} \subseteq CallStates
    BY DEF CallStates
  <1>4. CASE StartJob(j)
    <2>1. [job[j] EXCEPT !.status = "init"] \in JobRecs
      BY <1>1, JobStatusSet
    <2>2. job' \in [Jobs -> JobRecs]
      BY <1>4, <2>1, JobSet DEF StartJob
    <2> QED
      BY <1>2, <1>3, <1>4, <2>2 DEF StartJob, JobTypes
  <1>5. CASE RemoteStartJob(j)
    <2>1. ASSUME NEW m \in {"absent", "alive"}
          PROVE  /\ [remote[j] EXCEPT !.manager = m] \in HostRecs
                 /\ [remote[j] EXCEPT !.manager = "alive", !.cmd = "running"] \in HostRecs
      BY <1>1 DEF HostRecs
    <2>2. remote' \in [Jobs -> HostRecs]
      BY <1>5, <2>1, ZenonT(30) DEF RemoteStartJob, JobTypes
    <2>3. start' \in [Jobs -> CallStates \cup {"returned", "failed"}]
      BY <1>2, <1>3, <1>5 DEF RemoteStartJob
    <2>4. /\ route' \in [Jobs -> BOOLEAN] /\ routeEvents' \in [Jobs -> Seq(LinkStates)]
          /\ loop' \in [Jobs -> BOOLEAN]
      BY <1>5, RouteUpTypes DEF RemoteStartJob, JobTypes
    <2>5. faults' \in Nat
      BY <1>5, CallFailsTypes DEF RemoteStartJob, JobTypes
    <2> QED
      BY <1>5, <2>2, <2>3, <2>4, <2>5 DEF RemoteStartJob, JobTypes
  <1>6. CASE StartJobReturns(j)
    <2>1. [job[j] EXCEPT !.status = "running", !.pid = TRUE] \in JobRecs
      BY <1>1 DEF JobRecs
    <2>2. job' \in [Jobs -> JobRecs]
      BY <1>6, <2>1, JobSet DEF StartJobReturns
    <2> QED
      BY <1>2, <1>6, <2>2 DEF StartJobReturns, JobTypes
  <1>7. CASE StartJobFails(j)
    <2>1. [job[j] EXCEPT !.status = "done", !.reason = "startuperror"] \in JobRecs
      BY <1>1 DEF JobRecs
    <2>2. job' \in [Jobs -> JobRecs]
      BY <1>7, <2>1, JobSet DEF StartJobFails
    <2>3. faults' \in Nat
      BY <1>7, CallFailsTypes DEF StartJobFails
    <2> QED
      BY <1>2, <1>7, <2>2, <2>3 DEF StartJobFails, JobTypes
  <1> QED
    BY <1>4, <1>5, <1>6, <1>7

(* The end of the command and of its output.                               *)
LEMMA EndTypes ==
    ASSUME JobTypes, NEW j \in Jobs,
           HandleCmdJobExited(j) \/ OutputLoopEnds(j) \/ TryTerminateJobManager(j)
    PROVE  JobTypes'
  <1>1. job[j] \in JobRecs /\ checks[j] \in Nat
    BY DEF JobTypes
  <1>2. checks' \in [Jobs -> Nat]
    <2>1. CASE HandleCmdJobExited(j) \/ OutputLoopEnds(j)
      <3>1. checks' = [checks EXCEPT ![j] = @ + 1]
        BY <2>1 DEF HandleCmdJobExited, OutputLoopEnds
      <3> QED
        BY <1>1, <3>1 DEF JobTypes
    <2>2. CASE TryTerminateJobManager(j)
      <3>1. checks' = [checks EXCEPT ![j] = @ - 1] /\ checks[j] > 0
        BY <2>2 DEF TryTerminateJobManager
      <3> QED
        BY <1>1, <3>1 DEF JobTypes
    <2> QED
      BY <2>1, <2>2
  <1>3. CASE HandleCmdJobExited(j)
    <2>1. job' \in [Jobs -> JobRecs]
      BY <1>1, <1>3, JobFieldSet, JobSet DEF HandleCmdJobExited
    <2>2. written' \in [Jobs -> BOOLEAN] /\ told' \in [Jobs -> Nat]
      BY <1>3, MessageWritten DEF HandleCmdJobExited
    <2> QED
      BY <1>2, <1>3, <2>1, <2>2 DEF HandleCmdJobExited, JobTypes
  <1>4. CASE OutputLoopEnds(j)
    <2>1. job' \in [Jobs -> JobRecs]
      BY <1>1, <1>4, JobFieldSet, JobSet DEF OutputLoopEnds
    <2> QED
      BY <1>2, <1>4, <2>1 DEF OutputLoopEnds, JobTypes
  <1>5. CASE TryTerminateJobManager(j)
    <2>1. job' \in [Jobs -> JobRecs] /\ killer' \in [Groups -> [Jobs -> KillerRecs]]
      BY <1>5, TerminateTypes DEF TryTerminateJobManager, JobTypes
    <2> QED
      BY <1>2, <1>5, <2>1 DEF TryTerminateJobManager, JobTypes
  <1> QED
    BY <1>3, <1>4, <1>5

(* remoteTerminateJobManager.                                              *)
LEMMA KillTypes ==
    ASSUME JobTypes, NEW g \in Groups, NEW j \in Jobs,
           \/ KillBegins(g, j) \/ RemoteTerminate(g, j)
           \/ KillSucceeds(g, j) \/ KillFails(g, j)
    PROVE  JobTypes'
  <1>1. job[j] \in JobRecs /\ remote[j] \in HostRecs
    BY DEF JobTypes
  <1>2. {"sent", "answered", "cut"} \subseteq CallStates
    BY DEF CallStates
  <1>3. CASE KillBegins(g, j)
    <2>1. written' \in [Jobs -> BOOLEAN] /\ told' \in [Jobs -> Nat]
      BY <1>3, MessageWritten DEF KillBegins
    <2>2. killer' \in [Groups -> [Jobs -> KillerRecs]] /\ rc' \in [Jobs -> RcRecs]
      BY <1>2, <1>3, KillReturnsTypes, KillerSet DEF KillBegins, JobTypes
    <2> QED
      BY <1>3, <2>1, <2>2 DEF KillBegins, JobTypes
  <1>4. CASE RemoteTerminate(g, j)
    <2>1. killer' \in [Groups -> [Jobs -> KillerRecs]]
      BY <1>2, <1>4, KillerSet DEF RemoteTerminate
    <2>2. \A sig \in {"sent", "refused"} : [remote[j] EXCEPT !.signal = sig] \in HostRecs
      BY <1>1 DEF HostRecs
    <2>3. remote' \in [Jobs -> HostRecs]
      <3>1. \/ remote' = remote
            \/ \E sig \in {"sent", "refused"} : remote' = [remote EXCEPT ![j].signal = sig]
        BY <1>4 DEF RemoteTerminate
      <3> QED
        BY <2>2, <3>1 DEF JobTypes
    <2>4. faults' \in Nat
      BY <1>4, FaultsCounted DEF RemoteTerminate, JobTypes
    <2> QED
      BY <1>4, <2>1, <2>3, <2>4 DEF RemoteTerminate, JobTypes
  <1>5. CASE KillSucceeds(g, j)
    <2>1. [job[j] EXCEPT !.status = "done", !.reason = "terminated",
                         !.terminateOnReconnect = FALSE, !.streamDone = TRUE] \in JobRecs
      BY <1>1 DEF JobRecs
    <2>2. job' \in [Jobs -> JobRecs]
      BY <1>5, <2>1, JobSet DEF KillSucceeds
    <2> QED
      BY <1>5, <2>2, KillReturnsTypes DEF KillSucceeds, JobTypes
  <1>6. CASE KillFails(g, j)
    <2>1. faults' \in Nat
      BY <1>6, CallFailsTypes DEF KillFails
    <2> QED
      BY <1>6, <2>1, KillReturnsTypes DEF KillFails, JobTypes
  <1> QED
    BY <1>3, <1>4, <1>5, <1>6

(* doReconnectJob.                                                         *)
LEMMA RcTypes ==
    ASSUME JobTypes, NEW j \in Jobs,
           \/ RemoteReconnect(j) \/ JobManagerGone(j) \/ RouteRegistered(j)
           \/ RestartStreaming(j) \/ ReconnectFails(j)
    PROVE  JobTypes'
  <1>1. job[j] \in JobRecs /\ checks[j] \in Nat /\ remote[j] \in HostRecs
    BY DEF JobTypes
  <1>2. rc' \in [Jobs -> RcRecs]
    BY RcSet DEF RemoteReconnect, JobManagerGone, RouteRegistered, RestartStreaming,
                 ReconnectFails
  <1>3. CASE RemoteReconnect(j)
    <2>1. /\ route' \in [Jobs -> BOOLEAN] /\ routeEvents' \in [Jobs -> Seq(LinkStates)]
          /\ loop' \in [Jobs -> BOOLEAN]
      BY <1>3, RouteUpTypes DEF RemoteReconnect, JobTypes
    <2> QED
      BY <1>2, <1>3, <2>1 DEF RemoteReconnect, JobTypes
  <1>4. CASE JobManagerGone(j)
    <2>1. [job[j] EXCEPT !.status = "done", !.reason = "gone"] \in JobRecs
      BY <1>1 DEF JobRecs
    <2>2. job' \in [Jobs -> JobRecs]
      BY <1>4, <2>1, JobSet DEF JobManagerGone
    <2>3. written' \in [Jobs -> BOOLEAN] /\ told' \in [Jobs -> Nat]
      BY <1>4, MessageWritten DEF JobManagerGone
    <2> QED
      BY <1>2, <1>4, <2>2, <2>3 DEF JobManagerGone, JobTypes
  <1>5. CASE RouteRegistered(j)
    BY <1>2, <1>5 DEF RouteRegistered, JobTypes
  <1>6. CASE RestartStreaming(j)
    <2> DEFINE hasExited == remote[j].cmd = "exited"
    <2>1. PICK d \in {FALSE, remote[j].ptyEnded} :
            /\ SetJob(j, [job[j] EXCEPT !.exited = @ \/ hasExited, !.streamDone = @ \/ d])
            /\ checks' = [checks EXCEPT ![j] =
                            @ + (IF hasExited THEN IF d THEN 2 ELSE 1 ELSE 0)]
            /\ loop' = [loop EXCEPT ![j] = ~d]
      BY <1>6 DEF RestartStreaming
    <2>2. d \in BOOLEAN
      BY <1>1 DEF HostRecs
    <2>3. ASSUME NEW rec \in JobRecs, NEW a \in BOOLEAN, NEW b \in BOOLEAN
          PROVE  [rec EXCEPT !.exited = @ \/ a, !.streamDone = @ \/ b] \in JobRecs
      BY DEF JobRecs
    <2>4. job' \in [Jobs -> JobRecs]
      BY <1>1, <2>1, <2>2, <2>3, JobSet
    <2>5. checks' \in [Jobs -> Nat]
      BY <1>1, <2>1 DEF JobTypes
    <2>6. loop' \in [Jobs -> BOOLEAN]
      BY <2>1 DEF JobTypes
    <2>7. written' \in [Jobs -> BOOLEAN] /\ told' \in [Jobs -> Nat]
      BY <1>6, MessageWritten DEF RestartStreaming, JobTypes
    <2> QED
      BY <1>2, <1>6, <2>4, <2>5, <2>6, <2>7 DEF RestartStreaming, JobTypes
  <1>7. CASE ReconnectFails(j)
    <2>1. faults' \in Nat
      BY <1>7, CallFailsTypes DEF ReconnectFails
    <2> QED
      BY <1>2, <1>7, <2>1 DEF ReconnectFails, JobTypes
  <1> QED
    BY <1>3, <1>4, <1>5, <1>6, <1>7

(* Route events, automatic reconnection and the user's commands.           *)
LEMMA AutoTypes ==
    ASSUME JobTypes, NEW j \in Jobs,
           \/ HandleRouteEvent(j) \/ AttemptAutoReconnect(j)
           \/ TerminateJobManager(j) \/ ReconnectJob(j)
    PROVE  JobTypes'
  <1>1. auto[j] \in AutoRecs
    BY DEF JobTypes
  <1>2. ASSUME Command(j)
        PROVE  faults' \in Nat /\ disturbed' \in [Jobs -> BOOLEAN]
    BY <1>2, FaultsCounted DEF Command, JobTypes, Starting
  <1>3. CASE HandleRouteEvent(j)
    <2>1. PICK i \in 1 .. Len(routeEvents[j]) :
            /\ connStatus' = [connStatus EXCEPT ![j] = routeEvents[j][i] = "up"]
            /\ routeEvents' = [routeEvents EXCEPT ![j] = WithoutEvent(@, i)]
            /\ \/ auto' = [auto EXCEPT ![j] = [sleeping |-> TRUE, attempts |-> @.attempts + 1]]
               \/ UNCHANGED auto
      BY <1>3 DEF HandleRouteEvent
    <2>2. WithoutEvent(routeEvents[j], i) \in Seq(LinkStates)
      BY <2>1, WithoutEventType DEF JobTypes
    <2>3. routeEvents' \in [Jobs -> Seq(LinkStates)]
      BY <2>1, <2>2 DEF JobTypes
    <2>4. [sleeping |-> TRUE, attempts |-> auto[j].attempts + 1] \in AutoRecs
      BY <1>1 DEF AutoRecs
    <2>5. auto' \in [Jobs -> AutoRecs]
      BY <2>1, <2>4 DEF JobTypes
    <2>6. connStatus' \in [Jobs -> BOOLEAN]
      BY <2>1 DEF JobTypes
    <2> QED
      BY <1>3, <2>3, <2>5, <2>6 DEF HandleRouteEvent, JobTypes
  <1>4. CASE AttemptAutoReconnect(j)
    <2>1. [auto[j] EXCEPT !.sleeping = FALSE] \in AutoRecs
      BY <1>1 DEF AutoRecs
    <2>2. auto' \in [Jobs -> AutoRecs]
      BY <1>4, <2>1 DEF AttemptAutoReconnect, JobTypes
    <2> QED
      BY <1>4, <2>2, ReconnectTypes DEF AttemptAutoReconnect, JobTypes
  <1>5. CASE TerminateJobManager(j)
    BY <1>2, <1>5, TerminateTypes DEF TerminateJobManager, JobTypes
  <1>6. CASE ReconnectJob(j)
    BY <1>2, <1>6, ReconnectTypes DEF ReconnectJob, JobTypes
  <1> QED
    BY <1>3, <1>4, <1>5, <1>6

(* Reconciles, and connections that come and go.                           *)
LEMMA ConnStepTypes ==
    ASSUME JobTypes, NEW c \in Conns, ConnStep(c)
    PROVE  JobTypes'
  <1>1. todo[c] \in TodoRecs
    BY DEF JobTypes
  <1>2. NothingTodo \in TodoRecs
    BY DEF NothingTodo, TodoRecs
  <1>3. CASE HandleConnChange(c) /\ UNCHANGED jobVars
    BY <1>3 DEF jobVars, JobTypes
  <1>4. CASE ListJobs(c)
    <2> DEFINE js == {j \in Jobs : ConnOf[j] = c /\ IsJobManagerRunning(j)}
    <2>1. [listed |-> TRUE, waiting |-> NoJob, jobs |-> js] \in TodoRecs
      <3>1. js \in SUBSET Jobs
        OBVIOUS
      <3> HIDE DEF js
      <3> QED
        BY <3>1 DEF TodoRecs
    <2>2. todo' = [todo EXCEPT ![c] = [listed |-> TRUE, waiting |-> NoJob, jobs |-> js]]
      BY <1>4 DEF ListJobs
    <2> HIDE DEF js
    <2>3. todo' \in [Conns -> TodoRecs]
      BY <2>1, <2>2 DEF JobTypes
    <2> QED
      BY <1>4, <2>3 DEF ListJobs, JobTypes
  <1>5. CASE ReconnectNext(c)
    <2>1. PICK j \in todo[c].jobs :
            /\ todo' = [todo EXCEPT ![c].jobs = @ \ {j}, ![c].waiting = j]
            /\ DoReconnect(j)
      BY <1>5 DEF ReconnectNext
    <2>2. j \in Jobs
      BY <1>1, <2>1 DEF TodoRecs
    <2>3. ASSUME NEW rec \in TodoRecs, NEW k \in Jobs
          PROVE  [rec EXCEPT !.jobs = @ \ {k}, !.waiting = k] \in TodoRecs
      BY DEF TodoRecs
    <2>4. todo' = [todo EXCEPT ![c] = [todo[c] EXCEPT !.jobs = @ \ {j}, !.waiting = j]]
      BY <1>1, <2>1 DEF JobTypes, TodoRecs
    <2>5. todo' \in [Conns -> TodoRecs]
      BY <1>1, <2>2, <2>3, <2>4 DEF JobTypes
    <2> QED
      BY <1>5, <2>1, <2>2, <2>5, ReconnectTypes DEF ReconnectNext, JobTypes
  <1>6. CASE ReconnectReturns(c)
    <2>1. [todo[c] EXCEPT !.waiting = NoJob] \in TodoRecs
      BY <1>1 DEF TodoRecs
    <2>2. todo' \in [Conns -> TodoRecs]
      BY <1>6, <2>1 DEF ReconnectReturns, JobTypes
    <2> QED
      BY <1>6, <2>2 DEF ReconnectReturns, JobTypes
  <1>7. CASE ReconcileConnDone(c)
    BY <1>2, <1>7 DEF ReconcileConnDone, JobTypes
  <1> QED
    BY <1>3, <1>4, <1>5, <1>6, <1>7 DEF ConnStep

LEMMA LinkTypes ==
    ASSUME JobTypes, NEW c \in Conns, LinkChanges(c)
    PROVE  JobTypes'
  <1> DEFINE js == IF conn[c] = "up" THEN {j \in Jobs : ConnOf[j] = c} ELSE {}
             Cut(j, pc) == IF j \in js /\ pc \in {"sent", "answered", "gone", "connected"}
                           THEN "cut" ELSE pc
  <1>1. /\ RoutesDown(js)
        /\ start' = [j \in Jobs |-> Cut(j, start[j])]
        /\ rc' = [j \in Jobs |-> [rc[j] EXCEPT !.pc = Cut(j, @)]]
        /\ killer' = [g \in Groups |-> [j \in Jobs |-> [killer[g][j] EXCEPT !.pc = Cut(j, @)]]]
    BY DEF LinkChanges
  <1>2. faults' \in Nat
    BY FaultsCounted DEF LinkChanges
  <1>3. ASSUME NEW j \in Jobs, NEW pc
        PROVE  Cut(j, pc) \in {pc, "cut"}
    OBVIOUS
  <1> HIDE DEF js, Cut
  <1>4. start' \in [Jobs -> CallStates \cup {"returned", "failed"}]
    BY <1>1, <1>3 DEF JobTypes, CallStates
  <1>5. rc' \in [Jobs -> RcRecs]
    <2>1. ASSUME NEW j \in Jobs, NEW rec \in RcRecs
          PROVE  [rec EXCEPT !.pc = Cut(j, @)] \in RcRecs
      BY <1>3 DEF RcRecs
    <2> QED
      BY <1>1, <2>1 DEF JobTypes
  <1>6. killer' \in [Groups -> [Jobs -> KillerRecs]]
    <2>1. ASSUME NEW j \in Jobs, NEW rec \in KillerRecs
          PROVE  [rec EXCEPT !.pc = Cut(j, @)] \in KillerRecs
      BY <1>3 DEF KillerRecs, CallStates
    <2> QED
      BY <1>1, <2>1 DEF JobTypes
  <1> QED
    BY <1>1, <1>2, <1>4, <1>5, <1>6, RoutesDownTypes DEF LinkChanges, JobTypes

(* Every step keeps the types of what is kept about jobs.                  *)
LEMMA JobTypesStep ==
    ASSUME JobTypes, [LifecycleNext]_vars
    PROVE  JobTypes'
  <1>1. CASE WorkerStep \/ UNCHANGED vars
    BY <1>1 DEF WorkerStep, vars, jobVars, JobTypes
  <1>2. ASSUME NEW c \in Conns, LinkChanges(c) \/ ConnStep(c)
        PROVE  JobTypes'
    BY <1>2, LinkTypes, ConnStepTypes
  <1>3. ASSUME NEW j \in Jobs,
               \/ StartJob(j) \/ CmdExits(j) \/ PtyEnds(j) \/ ManagerDies(j)
               \/ TerminateJobManager(j) \/ ReconnectJob(j) \/ DisconnectJob(j)
        PROVE  JobTypes'
    BY <1>3, StartTypes, HostTypes, AutoTypes
  <1>4. ASSUME NEW j \in Jobs, JobStep(j)
        PROVE  JobTypes'
    BY <1>4, StartTypes, EndTypes, KillTypes, RcTypes, AutoTypes, HostTypes DEF JobStep
  <1> QED
    BY <1>1, <1>2, <1>3, <1>4 DEF LifecycleNext

-----------------------------------------------------------------------------
(* The invariant of a job.                                                 *)

(* A step that leaves all of a job as it is.                               *)
SameJob(k) ==
    /\ job'[k] = job[k] /\ written'[k] = written[k] /\ told'[k] = told[k]
    /\ remote'[k] = remote[k] /\ exitReports'[k] = exitReports[k] /\ loop'[k] = loop[k]
    /\ checks'[k] = checks[k] /\ start'[k] = start[k] /\ rc'[k] = rc[k]
    /\ \A g \in Groups : killer'[g][k] = killer[g][k]
    /\ auto'[k] = auto[k] /\ disturbed'[k] = disturbed[k]

NotListed(k) == \A c \in Conns : k \notin todo[c].jobs

LEMMA SameJobKeeps ==
    ASSUME NEW k \in Jobs, JobInv(k), SameJob(k), NotListed(k) => NotListed(k)'
    PROVE  JobInv(k)'
  <1>1. ToldInv(k)'
    BY DEF JobInv, ToldInv, SameJob
  <1>2. RemoteInv(k)'
    BY DEF JobInv, RemoteInv, SameJob
  <1>3. StartInv(k)'
    BY DEF JobInv, StartInv, SameJob, Quiet, NotReturned, NotListed
  <1>4. EndInv(k)' /\ StopInv(k)'
    BY DEF JobInv, EndInv, StopInv, Stopping, SameJob, IsJobManagerRunning, Groups
  <1> QED
    BY <1>1, <1>2, <1>3, <1>4 DEF JobInv


(* The host and the connection of a job.                                   *)
LEMMA JobInvHost ==
    ASSUME LInv, NEW j \in Jobs, NEW k \in Jobs,
           \/ CmdExits(j) \/ PtyEnds(j) \/ ManagerDies(j) \/ ManagerStops(j)
           \/ DisconnectJob(j)
    PROVE  JobInv(k)'
  <1>1. JobTypes /\ JobInv(k) /\ job[j] \in JobRecs /\ remote[j] \in HostRecs
    BY DEF LInv, JobTypes
  <1>2. CASE CmdExits(j)
    <2>1. CASE k # j
      <3>1. SameJob(k) /\ UNCHANGED todo
        BY <1>1, <1>2, <2>1 DEF CmdExits, SameJob, JobTypes
      <3> QED
        BY <1>1, <3>1, SameJobKeeps DEF NotListed
    <2>2. CASE k = j
      <3>1. /\ remote[j].cmd = "running" /\ remote'[j].cmd = "exited"
            /\ remote'[j].manager = remote[j].manager
            /\ remote'[j].signal = remote[j].signal
        BY <1>1, <1>2 DEF CmdExits, JobTypes, JobRecs, HostRecs
      <3>2. UNCHANGED <<job, written, told, loop, checks, start, rc, killer, auto,
                        todo, disturbed>>
        BY <1>2 DEF CmdExits
      <3> QED
        BY <1>1, <2>2, <3>1, <3>2
        DEF JobInv, ToldInv, RemoteInv, StartInv, EndInv, StopInv, Stopping, Quiet, NotReturned,
                    IsJobManagerRunning, Groups
    <2> QED
      BY <2>1, <2>2
  <1>3. CASE PtyEnds(j)
    <2>1. CASE k # j
      <3>1. SameJob(k) /\ UNCHANGED todo
        BY <1>1, <1>3, <2>1 DEF PtyEnds, SameJob, JobTypes
      <3> QED
        BY <1>1, <3>1, SameJobKeeps DEF NotListed
    <2>2. CASE k = j
      <3>1. /\ remote'[j].cmd = remote[j].cmd /\ remote'[j].manager = remote[j].manager
            /\ remote'[j].signal = remote[j].signal
        BY <1>1, <1>3 DEF PtyEnds, JobTypes, JobRecs, HostRecs
      <3>2. UNCHANGED <<job, written, told, exitReports, loop, checks, start, rc,
                        killer, auto, todo, disturbed>>
        BY <1>3 DEF PtyEnds
      <3> QED
        BY <1>1, <2>2, <3>1, <3>2
        DEF JobInv, ToldInv, RemoteInv, StartInv, EndInv, StopInv, Stopping, Quiet, NotReturned,
                    IsJobManagerRunning, Groups
    <2> QED
      BY <2>1, <2>2
  <1>4. CASE ManagerDies(j)
    <2>1. CASE k # j
      <3>1. SameJob(k) /\ UNCHANGED todo
        BY <1>1, <1>4, <2>1 DEF ManagerDies, RoutesDown, Starting, SameJob, JobTypes
      <3> QED
        BY <1>1, <3>1, SameJobKeeps DEF NotListed
    <2>2. CASE k = j
      <3>1. /\ remote'[j].cmd = remote[j].cmd /\ remote'[j].manager = "dead"
            /\ (disturbed[j] => disturbed'[j])
            /\ (disturbed'[j] => disturbed[j] \/ start[j] # "idle") /\ ~loop'[j]
            /\ ~exitReports'[j]
        BY <1>1, <1>4 DEF ManagerDies, RoutesDown, Starting, JobTypes, JobRecs, HostRecs
      <3>2. UNCHANGED <<job, written, told, checks, start, rc, killer, auto, todo>>
        BY <1>4 DEF ManagerDies
      <3> QED
        BY <1>1, <2>2, <3>1, <3>2
        DEF JobInv, ToldInv, RemoteInv, StartInv, EndInv, StopInv, Stopping, Quiet, NotReturned,
                    IsJobManagerRunning, Groups
    <2> QED
      BY <2>1, <2>2
  <1>5. CASE DisconnectJob(j)
    <2>1. CASE k # j
      <3>1. SameJob(k) /\ UNCHANGED todo
        BY <1>1, <1>5, <2>1 DEF DisconnectJob, RoutesDown, Command, Starting, SameJob, JobTypes
      <3> QED
        BY <1>1, <3>1, SameJobKeeps DEF NotListed
    <2>2. CASE k = j
      <3>1. /\ (disturbed[j] => disturbed'[j])
            /\ (disturbed'[j] => disturbed[j] \/ start[j] # "idle") /\ ~loop'[j]
            /\ ~exitReports'[j]
        BY <1>1, <1>5 DEF DisconnectJob, RoutesDown, Command, Starting, JobTypes, JobRecs, HostRecs
      <3>2. UNCHANGED <<job, written, told, remote, checks, start, rc, killer, auto,
                        todo>>
        BY <1>5 DEF DisconnectJob
      <3> QED
        BY <1>1, <2>2, <3>1, <3>2
        DEF JobInv, ToldInv, RemoteInv, StartInv, EndInv, StopInv, Stopping, Quiet, NotReturned,
                    IsJobManagerRunning, Groups
    <2> QED
      BY <2>1, <2>2
  <1>6. CASE ManagerStops(j)
    <2>1. CASE k # j
      <3>1. SameJob(k) /\ UNCHANGED todo
        BY <1>1, <1>6, <2>1 DEF ManagerStops, RoutesDown, SameJob, JobTypes
      <3> QED
        BY <1>1, <3>1, SameJobKeeps DEF NotListed
    <2>2. CASE k = j
      <3>1. /\ remote'[j].cmd = remote[j].cmd /\ remote'[j].manager = "dead"
            /\ ~loop'[j] /\ ~exitReports'[j]
        BY <1>1, <1>6 DEF ManagerStops, RoutesDown, JobTypes, HostRecs
      <3>2. UNCHANGED <<job, written, told, checks, start, rc, killer, auto, todo, disturbed>>
        BY <1>6 DEF ManagerStops
      <3> QED
        BY <1>1, <2>2, <3>1, <3>2
        DEF JobInv, ToldInv, RemoteInv, StartInv, EndInv, StopInv, Stopping, Quiet, NotReturned,
                    IsJobManagerRunning, Groups
    <2> QED
      BY <2>1, <2>2
  <1> QED
    BY <1>2, <1>3, <1>4, <1>5, <1>6

(* StartJob.                                                               *)
LEMMA JobInvStart ==
    ASSUME LInv, NEW j \in Jobs, NEW k \in Jobs,
           StartJob(j) \/ RemoteStartJob(j) \/ StartJobReturns(j) \/ StartJobFails(j)
    PROVE  JobInv(k)'
  <1>1. JobTypes /\ JobInv(k) /\ job[j] \in JobRecs /\ remote[j] \in HostRecs
    BY DEF LInv, JobTypes
  <1>2. CASE StartJob(j)
    <2>1. CASE k # j
      <3>1. SameJob(k) /\ UNCHANGED todo
        BY <1>1, <1>2, <2>1 DEF StartJob, SetJob, SetStart, SameJob, JobTypes
      <3> QED
        BY <1>1, <3>1, SameJobKeeps DEF NotListed
    <2>2. CASE k = j
      <3>1. /\ start[j] = "idle" /\ start'[j] = "sent" /\ job'[j].status = "init"
            /\ job'[j].reason = job[j].reason
            /\ job'[j].terminateOnReconnect = job[j].terminateOnReconnect
            /\ job'[j].pid = job[j].pid /\ job'[j].exited = job[j].exited
            /\ job'[j].streamDone = job[j].streamDone
        BY <1>1, <1>2 DEF StartJob, SetJob, SetStart, JobTypes, JobRecs, HostRecs
      <3>2. UNCHANGED <<written, told, remote, exitReports, loop, checks, rc,
                        killer, auto, todo, disturbed>>
        BY <1>2 DEF StartJob
      <3> QED
        BY <1>1, <2>2, <3>1, <3>2
        DEF JobInv, ToldInv, RemoteInv, StartInv, EndInv, StopInv, Stopping, Quiet, NotReturned,
                    IsJobManagerRunning, Groups
    <2> QED
      BY <2>1, <2>2
  <1>3. CASE RemoteStartJob(j)
    <2>1. CASE k # j
      <3>1. SameJob(k) /\ UNCHANGED todo
        BY <1>1, <1>3, <2>1 DEF RemoteStartJob, SetStart, RouteUp, SameJob, JobTypes
      <3> QED
        BY <1>1, <3>1, SameJobKeeps DEF NotListed
    <2>2. CASE k = j
      <3>1. /\ start[j] = "sent" /\ start'[j] \in {"answered", "cut"}
            /\ (loop'[j] => loop[j])
        BY <1>1, <1>3, ZenonT(30) DEF RemoteStartJob, SetStart, RouteUp, JobTypes, JobRecs, HostRecs
      <3>2. UNCHANGED <<job, written, told, exitReports, checks, rc, killer, auto,
                        todo, disturbed>>
        BY <1>3 DEF RemoteStartJob
      <3> QED
        BY <1>1, <2>2, <3>1, <3>2
        DEF JobInv, ToldInv, RemoteInv, StartInv, EndInv, StopInv, Stopping, Quiet, NotReturned,
                    IsJobManagerRunning, Groups
    <2> QED
      BY <2>1, <2>2
  <1>4. CASE StartJobReturns(j)
    <2>1. CASE k # j
      <3>1. SameJob(k) /\ UNCHANGED todo
        BY <1>1, <1>4, <2>1 DEF StartJobReturns, SetJob, SetStart, SameJob, JobTypes
      <3> QED
        BY <1>1, <3>1, SameJobKeeps DEF NotListed
    <2>2. CASE k = j
      <3>1. /\ start[j] = "answered" /\ start'[j] = "returned"
            /\ job'[j].status = "running" /\ job'[j].pid /\ job'[j].reason = job[j].reason
            /\ job'[j].terminateOnReconnect = job[j].terminateOnReconnect
            /\ job'[j].exited = job[j].exited /\ job'[j].streamDone = job[j].streamDone
        BY <1>1, <1>4 DEF StartJobReturns, SetJob, SetStart, JobTypes, JobRecs, HostRecs
      <3>2. UNCHANGED <<written, told, remote, exitReports, checks, rc, killer,
                        auto, todo, disturbed>>
        BY <1>4 DEF StartJobReturns
      <3> QED
        BY <1>1, <2>2, <3>1, <3>2
        DEF JobInv, ToldInv, RemoteInv, StartInv, EndInv, StopInv, Stopping, Quiet, NotReturned,
                    IsJobManagerRunning, Groups
    <2> QED
      BY <2>1, <2>2
  <1>5. CASE StartJobFails(j)
    <2>1. CASE k # j
      <3>1. SameJob(k) /\ UNCHANGED todo
        BY <1>1, <1>5, <2>1 DEF StartJobFails, SetJob, SetStart, SameJob, JobTypes
      <3> QED
        BY <1>1, <3>1, SameJobKeeps DEF NotListed
    <2>2. CASE k = j
      <3>1. /\ start[j] \in {"sent", "answered", "cut"} /\ start'[j] = "failed"
            /\ job'[j].status = "done" /\ job'[j].reason = "startuperror"
            /\ job'[j].terminateOnReconnect = job[j].terminateOnReconnect
            /\ job'[j].pid = job[j].pid /\ job'[j].exited = job[j].exited
            /\ job'[j].streamDone = job[j].streamDone
        BY <1>1, <1>5 DEF StartJobFails, SetJob, SetStart, JobTypes, JobRecs, HostRecs
      <3>2. UNCHANGED <<written, told, remote, exitReports, loop, checks, rc,
                        killer, auto, todo, disturbed>>
        BY <1>5 DEF StartJobFails
      <3> QED
        BY <1>1, <2>2, <3>1, <3>2
        DEF JobInv, ToldInv, RemoteInv, StartInv, EndInv, StopInv, Stopping, Quiet, NotReturned,
                    IsJobManagerRunning, Groups
    <2> QED
      BY <2>1, <2>2
  <1> QED
    BY <1>2, <1>3, <1>4, <1>5

(* The end of the command and of its output.                               *)
LEMMA JobInvEnd ==
    ASSUME LInv, NEW j \in Jobs, NEW k \in Jobs,
           HandleCmdJobExited(j) \/ OutputLoopEnds(j)
    PROVE  JobInv(k)'
  <1>1. JobTypes /\ JobInv(k) /\ job[j] \in JobRecs /\ remote[j] \in HostRecs
    BY DEF LInv, JobTypes
  <1>2. CASE HandleCmdJobExited(j)
    <2>1. CASE k # j
      <3>1. SameJob(k) /\ UNCHANGED todo
        BY <1>1, <1>2, <2>1 DEF HandleCmdJobExited, SetJob, WriteTerminationMessage, SameJob, JobTypes
      <3> QED
        BY <1>1, <3>1, SameJobKeeps DEF NotListed
    <2>2. CASE k = j
      <3>1. /\ exitReports[j] /\ ~exitReports'[j] /\ job'[j].exited
            /\ job'[j].status = job[j].status /\ job'[j].reason = job[j].reason
            /\ job'[j].terminateOnReconnect = job[j].terminateOnReconnect
            /\ job'[j].pid = job[j].pid /\ job'[j].streamDone = job[j].streamDone
            /\ checks'[j] > 0 /\ written'[j]
            /\ told'[j] = IF written[j] THEN told[j] ELSE told[j] + 1
        BY <1>1, <1>2 DEF HandleCmdJobExited, SetJob, WriteTerminationMessage, JobTypes, JobRecs, HostRecs
      <3>2. UNCHANGED <<remote, loop, start, rc, killer, auto, todo, disturbed>>
        BY <1>2 DEF HandleCmdJobExited
      <3> QED
        BY <1>1, <2>2, <3>1, <3>2
        DEF JobInv, ToldInv, RemoteInv, StartInv, EndInv, StopInv, Stopping, Quiet, NotReturned,
                    IsJobManagerRunning, Groups
    <2> QED
      BY <2>1, <2>2
  <1>3. CASE OutputLoopEnds(j)
    <2>1. CASE k # j
      <3>1. SameJob(k) /\ UNCHANGED todo
        BY <1>1, <1>3, <2>1 DEF OutputLoopEnds, SetJob, SameJob, JobTypes
      <3> QED
        BY <1>1, <3>1, SameJobKeeps DEF NotListed
    <2>2. CASE k = j
      <3>1. /\ loop[j] /\ ~loop'[j] /\ job'[j].streamDone /\ job'[j].status = job[j].status
            /\ job'[j].reason = job[j].reason
            /\ job'[j].terminateOnReconnect = job[j].terminateOnReconnect
            /\ job'[j].pid = job[j].pid /\ job'[j].exited = job[j].exited /\ checks'[j] > 0
        BY <1>1, <1>3 DEF OutputLoopEnds, SetJob, JobTypes, JobRecs, HostRecs
      <3>2. UNCHANGED <<written, told, remote, exitReports, start, rc, killer, auto,
                        todo, disturbed>>
        BY <1>3 DEF OutputLoopEnds
      <3> QED
        BY <1>1, <2>2, <3>1, <3>2
        DEF JobInv, ToldInv, RemoteInv, StartInv, EndInv, StopInv, Stopping, Quiet, NotReturned,
                    IsJobManagerRunning, Groups
    <2> QED
      BY <2>1, <2>2
  <1> QED
    BY <1>2, <1>3

(* Terminating and reconnecting, up to their remote calls.                 *)
LEMMA TerminateEffect ==
    ASSUME JobTypes, NEW j \in Jobs, DoTerminate(j)
    PROVE  /\ \A k \in Jobs : k # j => /\ job'[k] = job[k]
                                      /\ \A g \in Groups : killer'[g][k] = killer[g][k]
           /\ killer'["rc"][j] = killer["rc"][j]
           /\ job'[j].status = job[j].status /\ job'[j].reason = job[j].reason
           /\ job'[j].pid = job[j].pid /\ job'[j].exited = job[j].exited
           /\ job'[j].streamDone = job[j].streamDone
           /\ \/ /\ job'[j] = job[j] /\ killer'["tm"][j] = killer["tm"][j]
                 /\ killer["tm"][j].pc # "idle" \/ job[j].status = "done"
              \/ /\ job'[j].terminateOnReconnect
                 /\ killer'["tm"][j].pc = "begin" /\ killer'["tm"][j].pid = job[j].pid
  <1>1. job[j] \in JobRecs /\ "tm" \in Groups /\ "rc" \in Groups
    BY DEF JobTypes, Groups
  <1>2. CASE UNCHANGED <<job, killer>> /\ (killer["tm"][j].pc # "idle" \/ job[j].status = "done")
    BY <1>2
  <1>3. CASE /\ SetJob(j, [job[j] EXCEPT !.terminateOnReconnect = TRUE])
             /\ killer' = [killer EXCEPT !["tm"][j] =
                             [pc |-> "begin", pid |-> job[j].pid, done |-> FALSE]]
    <2>1. /\ \A k \in Jobs : k # j => job'[k] = job[k]
          /\ job'[j] = [job[j] EXCEPT !.terminateOnReconnect = TRUE]
      BY <1>3 DEF SetJob, JobTypes
    <2>2. /\ \A k \in Jobs : k # j => \A g \in Groups : killer'[g][k] = killer[g][k]
          /\ killer'["rc"][j] = killer["rc"][j]
          /\ killer'["tm"][j] = [pc |-> "begin", pid |-> job[j].pid, done |-> FALSE]
      BY <1>1, <1>3 DEF JobTypes
    <2> QED
      BY <1>1, <2>1, <2>2 DEF JobRecs
  <1> QED
    BY <1>2, <1>3 DEF DoTerminate

LEMMA ReconnectEffect ==
    ASSUME JobTypes, NEW j \in Jobs, DoReconnect(j)
    PROVE  /\ \A k \in Jobs : k # j => /\ rc'[k] = rc[k]
                                      /\ \A g \in Groups : killer'[g][k] = killer[g][k]
           /\ killer'["tm"][j] = killer["tm"][j]
           /\ \/ rc'[j] = rc[j] /\ killer'["rc"][j] = killer["rc"][j]
              \/ /\ rc'[j].pc = "terminating"
                 /\ killer'["rc"][j].pc = "begin" /\ killer'["rc"][j].pid = job[j].pid
              \/ /\ rc'[j].pc = "sent" /\ rc'[j].pid = job[j].pid
                 /\ killer'["rc"][j] = killer["rc"][j]
  <1>1. "tm" \in Groups /\ "rc" \in Groups
    BY DEF Groups
  <1>2. CASE UNCHANGED <<rc, killer>>
    BY <1>2
  <1>3. CASE /\ SetRc(j, "terminating")
             /\ killer' = [killer EXCEPT !["rc"][j] =
                      [pc |-> "begin", pid |-> job[j].pid, done |-> job[j].status = "done"]]
    BY <1>1, <1>3 DEF SetRc, JobTypes
  <1>4. CASE /\ rc' = [rc EXCEPT ![j] = [pc |-> "sent", pid |-> job[j].pid]]
             /\ UNCHANGED killer
    BY <1>4 DEF JobTypes
  <1> QED
    BY <1>2, <1>3, <1>4 DEF DoReconnect

LEMMA KillReturnsEffect ==
    ASSUME JobTypes, NEW g \in Groups, NEW j \in Jobs, KillReturns(g, j)
    PROVE  /\ \A k \in Jobs : k # j => /\ rc'[k] = rc[k]
                                      /\ \A h \in Groups : killer'[h][k] = killer[h][k]
           /\ killer'[g][j].pc = "idle"
           /\ \A h \in Groups : h # g => killer'[h][j] = killer[h][j]
           /\ rc'[j] = rc[j] \/ rc'[j].pc = "idle"
  BY DEF KillReturns, SetRc, JobTypes, Idle

LEMMA KillerPcEffect ==
    ASSUME JobTypes, NEW g \in Groups, NEW j \in Jobs, NEW pc, SetKiller(g, j, pc)
    PROVE  /\ \A k \in Jobs : k # j => \A h \in Groups : killer'[h][k] = killer[h][k]
           /\ killer'[g][j].pc = pc /\ killer'[g][j].pid = killer[g][j].pid
           /\ \A h \in Groups : h # g => killer'[h][j] = killer[h][j]
  <1>1. killer[g][j] \in KillerRecs
    BY DEF JobTypes
  <1>2. killer'[g][j] = [killer[g][j] EXCEPT !.pc = pc]
    BY DEF SetKiller, JobTypes
  <1>3. killer'[g][j].pc = pc /\ killer'[g][j].pid = killer[g][j].pid
    BY <1>1, <1>2 DEF KillerRecs
  <1> QED
    BY <1>3 DEF SetKiller, JobTypes

(* tryTerminateJobManager and the commands that end a job or reconnect it. *)
LEMMA JobInvCommand ==
    ASSUME LInv, NEW j \in Jobs, NEW k \in Jobs,
           \/ TryTerminateJobManager(j) \/ TerminateJobManager(j)
           \/ ReconnectJob(j) \/ AttemptAutoReconnect(j)
    PROVE  JobInv(k)'
  <1>1. JobTypes /\ JobInv(k) /\ checks[j] \in Nat
    BY DEF LInv, JobTypes
  <1>2. CASE TryTerminateJobManager(j)
    <2>1. /\ UNCHANGED <<written, told, remote, exitReports, loop, start, rc, auto, todo,
                        disturbed>>
          /\ checks' = [checks EXCEPT ![j] = @ - 1]
      BY <1>2 DEF TryTerminateJobManager
    <2>2. CASE IsJobManagerRunning(j) /\ job[j].exited /\ job[j].streamDone
      <3>1. DoTerminate(j)
        BY <1>2, <2>2 DEF TryTerminateJobManager
      <3>2. CASE k # j
        <4>1. SameJob(k)
          BY <1>1, <2>1, <3>1, <3>2, TerminateEffect DEF SameJob, JobTypes
        <4> QED
          BY <1>1, <2>1, <4>1, SameJobKeeps DEF NotListed
      <3>3. CASE k = j
        <4>1. ~disturbed[j] => job'[j].terminateOnReconnect
          BY <1>1, <2>2, <3>1, <3>3, TerminateEffect
          DEF JobInv, EndInv, IsJobManagerRunning
        <4> QED
          BY <1>1, <2>1, <2>2, <3>1, <3>3, <4>1, TerminateEffect
          DEF JobInv, ToldInv, RemoteInv, StartInv, EndInv, StopInv, Stopping, Quiet, NotReturned,
            IsJobManagerRunning, Groups
      <3> QED
        BY <3>2, <3>3
    <2>3. CASE ~(IsJobManagerRunning(j) /\ job[j].exited /\ job[j].streamDone)
      <3>1. UNCHANGED <<job, killer>>
        BY <1>2, <2>3 DEF TryTerminateJobManager
      <3>2. CASE k # j
        <4>1. SameJob(k)
          BY <1>1, <2>1, <3>1, <3>2 DEF SameJob, JobTypes
        <4> QED
          BY <1>1, <2>1, <4>1, SameJobKeeps DEF NotListed
      <3>3. CASE k = j
        BY <1>1, <2>1, <2>3, <3>1, <3>3
        DEF JobInv, ToldInv, RemoteInv, StartInv, EndInv, StopInv, Stopping, Quiet, NotReturned,
            IsJobManagerRunning, Groups
      <3> QED
        BY <3>2, <3>3
    <2> QED
      BY <2>2, <2>3
  <1>3. CASE TerminateJobManager(j)
    <2>1. /\ UNCHANGED <<written, told, remote, exitReports, loop, checks, start, rc, auto,
                        todo>>
          /\ DoTerminate(j) /\ job[j].status # "none"
          /\ disturbed' = [disturbed EXCEPT ![j] = @ \/ Starting(j)]
      BY <1>3 DEF TerminateJobManager, Command
    <2>2. CASE k # j
      <3>1. SameJob(k)
        BY <1>1, <2>1, <2>2, TerminateEffect DEF SameJob, JobTypes
      <3> QED
        BY <1>1, <2>1, <3>1, SameJobKeeps DEF NotListed
    <2>3. CASE k = j
      <3>1. /\ disturbed[j] \/ Starting(j) => disturbed'[j]
            /\ disturbed'[j] => disturbed[j] \/ Starting(j)
        BY <1>1, <2>1 DEF JobTypes
      <3> QED
        BY <1>1, <2>1, <2>3, <3>1, TerminateEffect
        DEF JobInv, ToldInv, RemoteInv, StartInv, EndInv, StopInv, Stopping, Quiet, NotReturned,
            IsJobManagerRunning, Groups, Starting
    <2> QED
      BY <2>2, <2>3
  <1>4. CASE ReconnectJob(j)
    <2>1. /\ UNCHANGED <<job, written, told, remote, exitReports, loop, checks, start, auto,
                        todo>>
          /\ DoReconnect(j) /\ job[j].status # "none"
          /\ disturbed' = [disturbed EXCEPT ![j] = @ \/ Starting(j)]
      BY <1>4 DEF ReconnectJob, Command
    <2>2. CASE k # j
      <3>1. SameJob(k)
        BY <1>1, <2>1, <2>2, ReconnectEffect DEF SameJob, JobTypes
      <3> QED
        BY <1>1, <2>1, <3>1, SameJobKeeps DEF NotListed
    <2>3. CASE k = j
      <3>1. /\ disturbed[j] \/ Starting(j) => disturbed'[j]
            /\ disturbed'[j] => disturbed[j] \/ Starting(j)
        BY <1>1, <2>1 DEF JobTypes
      <3> QED
        BY <1>1, <2>1, <2>3, <3>1, ReconnectEffect
        DEF JobInv, ToldInv, RemoteInv, StartInv, EndInv, StopInv, Stopping, Quiet, NotReturned,
            IsJobManagerRunning, Groups, Starting
    <2> QED
      BY <2>2, <2>3
  <1>5. CASE AttemptAutoReconnect(j)
    <2>1. /\ UNCHANGED <<job, written, told, remote, exitReports, loop, checks, start, todo,
                        disturbed>>
          /\ DoReconnect(j) /\ auto[j].sleeping
          /\ auto' = [auto EXCEPT ![j].sleeping = FALSE]
      BY <1>5 DEF AttemptAutoReconnect
    <2>2. CASE k # j
      <3>1. SameJob(k)
        BY <1>1, <2>1, <2>2, ReconnectEffect DEF SameJob, JobTypes
      <3> QED
        BY <1>1, <2>1, <3>1, SameJobKeeps DEF NotListed
    <2>3. CASE k = j
      BY <1>1, <2>1, <2>3, ReconnectEffect
      DEF JobInv, ToldInv, RemoteInv, StartInv, EndInv, StopInv, Stopping, Quiet, NotReturned,
            IsJobManagerRunning, Groups
    <2> QED
      BY <2>2, <2>3
  <1> QED
    BY <1>2, <1>3, <1>4, <1>5

(* remoteTerminateJobManager.                                              *)
LEMMA JobInvKill ==
    ASSUME LInv, NEW g \in Groups, NEW j \in Jobs, NEW k \in Jobs,
           \/ KillBegins(g, j) \/ RemoteTerminate(g, j)
           \/ KillSucceeds(g, j) \/ KillFails(g, j)
    PROVE  JobInv(k)'
  <1>1. JobTypes /\ JobInv(k) /\ job[j] \in JobRecs /\ remote[j] \in HostRecs
    BY DEF LInv, JobTypes
  <1>2. CASE KillBegins(g, j)
    <2>1. /\ UNCHANGED <<job, remote, exitReports, loop, checks, start, auto, todo, disturbed>>
          /\ killer[g][j].pc = "begin"
          /\ written' = [written EXCEPT ![j] = TRUE]
          /\ told' = [told EXCEPT ![j] = IF written[j] THEN @ ELSE @ + 1]
      BY <1>2 DEF KillBegins, WriteTerminationMessage
    <2>2. \/ KillReturns(g, j)
          \/ /\ SetKiller(g, j, "sent") \/ SetKiller(g, j, "cut")
             /\ UNCHANGED rc
      BY <1>2 DEF KillBegins
    <2>3. CASE k # j
      <3>1. SameJob(k)
        BY <1>1, <2>1, <2>2, <2>3, KillReturnsEffect, KillerPcEffect DEF SameJob, JobTypes
      <3> QED
        BY <1>1, <2>1, <3>1, SameJobKeeps DEF NotListed
    <2>4. CASE k = j
      <3>1. written'[j] /\ told'[j] = IF written[j] THEN told[j] ELSE told[j] + 1
        BY <1>1, <2>1 DEF JobTypes
      <3>2. /\ killer'[g][j].pc # "idle" =>
                  killer'[g][j].pc # "answered" /\ killer'[g][j].pid = killer[g][j].pid
            /\ \A h \in Groups : h # g => killer'[h][j] = killer[h][j]
            /\ rc'[j] = rc[j] \/ rc'[j].pc = "idle"
        BY <1>1, <2>2, KillReturnsEffect, KillerPcEffect
      <3> QED
        BY <1>1, <2>1, <2>4, <3>1, <3>2
        DEF JobInv, ToldInv, RemoteInv, StartInv, EndInv, StopInv, Stopping, Quiet, NotReturned,
            IsJobManagerRunning, Groups
    <2> QED
      BY <2>3, <2>4
  <1>3. CASE RemoteTerminate(g, j)
    <2>1. /\ UNCHANGED <<job, written, told, exitReports, loop, checks, start, rc, auto, todo,
                        disturbed>>
          /\ killer[g][j].pc = "sent" /\ SetKiller(g, j, "answered")
      BY <1>3 DEF RemoteTerminate
    <2>2. CASE k # j
      <3>1. \A h \in Groups : killer'[h][k] = killer[h][k]
        BY <1>1, <2>1, <2>2, KillerPcEffect
      <3>2. remote'[k] = remote[k]
        BY <1>1, <1>3, <2>2 DEF RemoteTerminate, JobTypes
      <3>3. SameJob(k)
        BY <2>1, <3>1, <3>2 DEF SameJob
      <3> QED
        BY <1>1, <2>1, <3>3, SameJobKeeps DEF NotListed
    <2>3. CASE k = j
      <3>1. /\ remote'[j].cmd = remote[j].cmd
            /\ remote'[j].manager = remote[j].manager
            /\ remote[j].signal # "none" => remote'[j].signal # "none"
            /\ killer[g][j].pid => remote'[j].manager # "alive" \/ remote'[j].signal # "none"
        BY <1>1, <1>3 DEF RemoteTerminate, JobTypes, HostRecs
      <3> QED
        BY <1>1, <2>1, <2>3, <3>1, KillerPcEffect
        DEF JobInv, ToldInv, RemoteInv, StartInv, EndInv, StopInv, Stopping, Quiet, NotReturned,
            IsJobManagerRunning, Groups
    <2> QED
      BY <2>2, <2>3
  <1>4. CASE KillSucceeds(g, j)
    <2>1. /\ UNCHANGED <<written, told, remote, exitReports, loop, checks, start, auto, todo,
                        disturbed>>
          /\ killer[g][j].pc = "answered" /\ KillReturns(g, j)
      BY <1>4 DEF KillSucceeds
    <2>2. CASE k # j
      <3>1. SameJob(k)
        BY <1>1, <1>4, <2>1, <2>2, KillReturnsEffect DEF SameJob, JobTypes, KillSucceeds, SetJob
      <3> QED
        BY <1>1, <2>1, <3>1, SameJobKeeps DEF NotListed
    <2>3. CASE k = j
      <3>1. /\ job'[j].status = "done" /\ job'[j].reason = "terminated"
            /\ job'[j].pid = job[j].pid /\ job'[j].exited = job[j].exited
        BY <1>1, <1>4 DEF KillSucceeds, SetJob, JobTypes, JobRecs
      <3> QED
        BY <1>1, <2>1, <2>3, <3>1, KillReturnsEffect
        DEF JobInv, ToldInv, RemoteInv, StartInv, EndInv, StopInv, Stopping, Quiet, NotReturned,
            IsJobManagerRunning, Groups
    <2> QED
      BY <2>2, <2>3
  <1>5. CASE KillFails(g, j)
    <2>1. /\ UNCHANGED <<job, written, told, remote, exitReports, loop, checks, start, auto,
                        todo, disturbed>>
          /\ KillReturns(g, j)
      BY <1>5 DEF KillFails
    <2>2. CASE k # j
      <3>1. SameJob(k)
        BY <1>1, <2>1, <2>2, KillReturnsEffect DEF SameJob
      <3> QED
        BY <1>1, <2>1, <3>1, SameJobKeeps DEF NotListed
    <2>3. CASE k = j
      BY <1>1, <2>1, <2>3, KillReturnsEffect
      DEF JobInv, ToldInv, RemoteInv, StartInv, EndInv, StopInv, Stopping, Quiet, NotReturned,
            IsJobManagerRunning, Groups
    <2> QED
      BY <2>2, <2>3
  <1> QED
    BY <1>2, <1>3, <1>4, <1>5

(* doReconnectJob.                                                         *)
LEMMA JobInvReconnect ==
    ASSUME LInv, NEW j \in Jobs, NEW k \in Jobs,
           RemoteReconnect(j) \/ JobManagerGone(j) \/ RouteRegistered(j) \/ ReconnectFails(j)
    PROVE  JobInv(k)'
  <1>1. JobTypes /\ JobInv(k) /\ job[j] \in JobRecs /\ remote[j] \in HostRecs
    BY DEF LInv, JobTypes
  <1>2. CASE RemoteReconnect(j)
    <2>1. CASE k # j
      <3>1. SameJob(k) /\ UNCHANGED todo
        BY <1>1, <1>2, <2>1 DEF RemoteReconnect, SetRc, RouteUp, SameJob, JobTypes
      <3> QED
        BY <1>1, <3>1, SameJobKeeps DEF NotListed
    <2>2. CASE k = j
      <3>1. /\ rc[j].pc = "sent" /\ rc'[j].pc \in {"connected", "gone"}
            /\ (rc'[j].pc = "gone" /\ rc[j].pid => remote[j].manager # "alive")
            /\ (loop'[j] => loop[j])
        BY <1>1, <1>2 DEF RemoteReconnect, SetRc, RouteUp, JobTypes, JobRecs, HostRecs
      <3>2. UNCHANGED <<job, written, told, remote, exitReports, checks, start,
                        killer, auto, todo, disturbed>>
        BY <1>2 DEF RemoteReconnect
      <3> QED
        BY <1>1, <2>2, <3>1, <3>2
        DEF JobInv, ToldInv, RemoteInv, StartInv, EndInv, StopInv, Stopping, Quiet, NotReturned,
                    IsJobManagerRunning, Groups
    <2> QED
      BY <2>1, <2>2
  <1>3. CASE JobManagerGone(j)
    <2>1. CASE k # j
      <3>1. SameJob(k) /\ UNCHANGED todo
        BY <1>1, <1>3, <2>1 DEF JobManagerGone, SetRc, SetJob, WriteTerminationMessage, SameJob, JobTypes
      <3> QED
        BY <1>1, <3>1, SameJobKeeps DEF NotListed
    <2>2. CASE k = j
      <3>1. /\ rc[j].pc = "gone" /\ rc'[j].pc = "idle" /\ job'[j].status = "done"
            /\ job'[j].terminateOnReconnect = job[j].terminateOnReconnect
            /\ job'[j].pid = job[j].pid /\ job'[j].exited = job[j].exited
            /\ job'[j].streamDone = job[j].streamDone /\ written'[j]
            /\ told'[j] = IF written[j] THEN told[j] ELSE told[j] + 1
        BY <1>1, <1>3 DEF JobManagerGone, SetRc, SetJob, WriteTerminationMessage, JobTypes, JobRecs, HostRecs
      <3>2. UNCHANGED <<remote, exitReports, loop, checks, start, killer, auto,
                        todo, disturbed>>
        BY <1>3 DEF JobManagerGone
      <3> QED
        BY <1>1, <2>2, <3>1, <3>2
        DEF JobInv, ToldInv, RemoteInv, StartInv, EndInv, StopInv, Stopping, Quiet, NotReturned,
                    IsJobManagerRunning, Groups
    <2> QED
      BY <2>1, <2>2
  <1>4. CASE RouteRegistered(j)
    <2>1. CASE k # j
      <3>1. SameJob(k) /\ UNCHANGED todo
        BY <1>1, <1>4, <2>1 DEF RouteRegistered, SetRc, SameJob, JobTypes
      <3> QED
        BY <1>1, <3>1, SameJobKeeps DEF NotListed
    <2>2. CASE k = j
      <3>1. /\ rc[j].pc = "connected" /\ rc'[j].pc = "restart"
        BY <1>1, <1>4 DEF RouteRegistered, SetRc, JobTypes, JobRecs, HostRecs
      <3>2. UNCHANGED <<job, written, told, remote, exitReports, loop, checks,
                        start, killer, auto, todo, disturbed>>
        BY <1>4 DEF RouteRegistered
      <3> QED
        BY <1>1, <2>2, <3>1, <3>2
        DEF JobInv, ToldInv, RemoteInv, StartInv, EndInv, StopInv, Stopping, Quiet, NotReturned,
                    IsJobManagerRunning, Groups
    <2> QED
      BY <2>1, <2>2
  <1>5. CASE ReconnectFails(j)
    <2>1. CASE k # j
      <3>1. SameJob(k) /\ UNCHANGED todo
        BY <1>1, <1>5, <2>1 DEF ReconnectFails, SetRc, SameJob, JobTypes
      <3> QED
        BY <1>1, <3>1, SameJobKeeps DEF NotListed
    <2>2. CASE k = j
      <3>1. /\ rc[j].pc # "idle" /\ rc'[j].pc = "idle"
        BY <1>1, <1>5 DEF ReconnectFails, SetRc, JobTypes, JobRecs, HostRecs
      <3>2. UNCHANGED <<job, written, told, remote, exitReports, loop, checks,
                        start, killer, auto, todo, disturbed>>
        BY <1>5 DEF ReconnectFails
      <3> QED
        BY <1>1, <2>2, <3>1, <3>2
        DEF JobInv, ToldInv, RemoteInv, StartInv, EndInv, StopInv, Stopping, Quiet, NotReturned,
                    IsJobManagerRunning, Groups
    <2> QED
      BY <2>1, <2>2
  <1> QED
    BY <1>2, <1>3, <1>4, <1>5

LEMMA JobInvRestart ==
    ASSUME LInv, NEW j \in Jobs, NEW k \in Jobs, RestartStreaming(j)
    PROVE  JobInv(k)'
  <1> DEFINE hasExited == remote[j].cmd = "exited"
  <1>1. /\ JobTypes /\ JobInv(k)
        /\ job[j] \in JobRecs /\ remote[j] \in HostRecs /\ checks[j] \in Nat
    BY DEF LInv, JobTypes
  <1>2. PICK d \in {FALSE, remote[j].ptyEnded} :
          /\ SetJob(j, [job[j] EXCEPT !.exited = @ \/ hasExited, !.streamDone = @ \/ d])
          /\ checks' = [checks EXCEPT ![j] =
                          @ + (IF hasExited THEN IF d THEN 2 ELSE 1 ELSE 0)]
          /\ loop' = [loop EXCEPT ![j] = ~d]
    BY DEF RestartStreaming
  <1>3. /\ UNCHANGED <<remote, exitReports, start, killer, auto, todo, disturbed>>
        /\ rc[j].pc = "restart" /\ SetRc(j, "idle")
        /\ IF hasExited THEN WriteTerminationMessage(j) ELSE UNCHANGED <<written, told>>
    BY DEF RestartStreaming
  <1>4. CASE k # j
    <2>1. SameJob(k)
      BY <1>1, <1>2, <1>3, <1>4 DEF SameJob, SetJob, SetRc, WriteTerminationMessage, JobTypes
    <2> QED
      BY <1>1, <1>3, <2>1, SameJobKeeps DEF NotListed
  <1>5. CASE k = j
    <2>1. job'[j] = [job[j] EXCEPT !.exited = @ \/ hasExited, !.streamDone = @ \/ d]
      BY <1>1, <1>2 DEF SetJob, JobTypes
    <2>2. /\ job'[j].status = job[j].status /\ job'[j].reason = job[j].reason
          /\ job'[j].terminateOnReconnect = job[j].terminateOnReconnect
          /\ job'[j].pid = job[j].pid
          /\ job'[j].exited => job[j].exited \/ hasExited
      BY <1>1, <2>1 DEF JobRecs
    <2>3. hasExited => checks'[j] > 0
      BY <1>1, <1>2 DEF JobTypes
    <2>4. \/ UNCHANGED <<written, told>>
          \/ written'[j] /\ told'[j] = IF written[j] THEN told[j] ELSE told[j] + 1
      BY <1>1, <1>3 DEF WriteTerminationMessage, JobTypes
    <2>5. rc'[j].pc = "idle"
      BY <1>1, <1>3 DEF SetRc, JobTypes
    <2> HIDE DEF hasExited
    <2>6. hasExited <=> remote[j].cmd = "exited"
      BY DEF hasExited
    <2> QED
      BY <1>1, <1>3, <1>5, <2>2, <2>3, <2>4, <2>5, <2>6
      DEF JobInv, ToldInv, RemoteInv, StartInv, EndInv, StopInv, Stopping, Quiet, NotReturned,
            IsJobManagerRunning, Groups
  <1> QED
    BY <1>4, <1>5

(* A route event may start an automatic reconnect, of a running job.       *)
LEMMA JobInvRouteEvent ==
    ASSUME LInv, NEW j \in Jobs, NEW k \in Jobs, HandleRouteEvent(j)
    PROVE  JobInv(k)'
  <1>1. JobTypes /\ JobInv(k)
    BY DEF LInv
  <1>2. /\ UNCHANGED <<job, written, told, remote, exitReports, loop, checks, start, rc,
                      killer, todo, disturbed>>
        /\ \/ /\ IsJobManagerRunning(j)
              /\ auto' = [auto EXCEPT ![j] = [sleeping |-> TRUE, attempts |-> @.attempts + 1]]
           \/ UNCHANGED auto
    BY DEF HandleRouteEvent
  <1>3. CASE k # j \/ UNCHANGED auto
    <2>1. SameJob(k)
      BY <1>1, <1>2, <1>3 DEF SameJob, JobTypes
    <2> QED
      BY <1>1, <1>2, <2>1, SameJobKeeps DEF NotListed
  <1>4. CASE k = j /\ IsJobManagerRunning(j)
    BY <1>1, <1>2, <1>4
    DEF JobInv, ToldInv, RemoteInv, StartInv, EndInv, StopInv, Stopping, Quiet, NotReturned,
            IsJobManagerRunning, Groups
  <1> QED
    BY <1>2, <1>3, <1>4

(* Reconciles list running jobs and reconnect them one after the other.    *)
LEMMA JobInvConn ==
    ASSUME LInv, NEW c \in Conns, NEW k \in Jobs, ConnStep(c)
    PROVE  JobInv(k)'
  <1>1. JobTypes /\ JobInv(k) /\ todo[c] \in TodoRecs
    BY DEF LInv, JobTypes
  <1>2. CASE HandleConnChange(c) /\ UNCHANGED jobVars
    <2>1. SameJob(k) /\ UNCHANGED todo
      BY <1>2 DEF jobVars, SameJob
    <2> QED
      BY <1>1, <2>1, SameJobKeeps DEF NotListed
  <1>3. CASE ListJobs(c)
    <2>1. UNCHANGED <<job, written, told, remote, exitReports, loop, checks, start, rc, killer,
                      auto, disturbed>>
      BY <1>3 DEF ListJobs
    <2>2. IsJobManagerRunning(k) \/ (NotListed(k) => NotListed(k)')
      BY <1>1, <1>3 DEF ListJobs, NotListed, JobTypes
    <2>3. CASE IsJobManagerRunning(k)
      BY <1>1, <2>1, <2>3
      DEF JobInv, ToldInv, RemoteInv, StartInv, EndInv, StopInv, Stopping, Quiet, NotReturned,
            IsJobManagerRunning, Groups
    <2>4. CASE NotListed(k) => NotListed(k)'
      BY <1>1, <2>1, <2>4, SameJobKeeps DEF SameJob
    <2> QED
      BY <2>2, <2>3, <2>4
  <1>4. CASE ReconnectNext(c)
    <2>1. PICK j \in todo[c].jobs :
            /\ todo' = [todo EXCEPT ![c].jobs = @ \ {j}, ![c].waiting = j]
            /\ DoReconnect(j)
      BY <1>4 DEF ReconnectNext
    <2>2. UNCHANGED <<job, written, told, remote, exitReports, loop, checks, start, auto,
                      disturbed>>
      BY <1>4 DEF ReconnectNext
    <2>3. j \in Jobs
      BY <1>1, <2>1 DEF TodoRecs
    <2>4. NotListed(k) => NotListed(k)'
      <3>1. todo'[c].jobs = todo[c].jobs \ {j}
        BY <1>1, <2>1 DEF JobTypes, TodoRecs
      <3>2. \A b \in Conns : b # c => todo'[b] = todo[b]
        BY <1>1, <2>1 DEF JobTypes
      <3> QED
        BY <3>1, <3>2 DEF NotListed
    <2>5. CASE k # j
      BY <1>1, <2>1, <2>2, <2>3, <2>4, <2>5, ReconnectEffect, SameJobKeeps DEF SameJob
    <2>6. CASE k = j
      <3>1. ~NotListed(k)
        BY <2>1, <2>6 DEF NotListed
      <3> QED
        BY <1>1, <2>1, <2>2, <2>3, <2>6, <3>1, ReconnectEffect
        DEF JobInv, ToldInv, RemoteInv, StartInv, EndInv, StopInv, Stopping, Quiet, NotReturned,
            IsJobManagerRunning, Groups, NotListed
    <2> QED
      BY <2>5, <2>6
  <1>5. CASE ReconnectReturns(c) \/ ReconcileConnDone(c)
    <2>1. SameJob(k)
      BY <1>5 DEF ReconnectReturns, ReconcileConnDone, SameJob
    <2>2. todo'[c].jobs = todo[c].jobs \/ todo'[c].jobs = {}
      BY <1>1, <1>5 DEF ReconnectReturns, ReconcileConnDone, NothingTodo, JobTypes, TodoRecs
    <2>3. \A b \in Conns : b # c => todo'[b] = todo[b]
      BY <1>1, <1>5 DEF ReconnectReturns, ReconcileConnDone, JobTypes
    <2> QED
      BY <1>1, <2>1, <2>2, <2>3, SameJobKeeps DEF NotListed
  <1> QED
    BY <1>2, <1>3, <1>4, <1>5 DEF ConnStep

(* A lost connection cuts the calls over it, with or without their effect. *)
LEMMA JobInvLink ==
    ASSUME LInv, NEW c \in Conns, NEW k \in Jobs, LinkChanges(c)
    PROVE  JobInv(k)'
  <1> DEFINE js == IF conn[c] = "up" THEN {j \in Jobs : ConnOf[j] = c} ELSE {}
             CutPcs == {"sent", "answered", "gone", "connected"}
             Cut(j, pc) == IF j \in js /\ pc \in CutPcs THEN "cut" ELSE pc
  <1>1. /\ JobTypes /\ JobInv(k) /\ rc[k] \in RcRecs
        /\ \A g \in Groups : killer[g][k] \in KillerRecs
    BY DEF LInv, JobTypes
  <1>2. /\ start'[k] = Cut(k, start[k])
        /\ rc'[k] = [rc[k] EXCEPT !.pc = Cut(k, rc[k].pc)]
        /\ \A g \in Groups :
              killer'[g][k] = [killer[g][k] EXCEPT !.pc = Cut(k, killer[g][k].pc)]
        /\ loop'[k] => loop[k]
        /\ exitReports'[k] => exitReports[k]
        /\ UNCHANGED <<job, written, told, remote, checks, auto, todo, disturbed>>
    BY DEF LinkChanges, RoutesDown
  <1>3. \A pc : Cut(k, pc) = pc \/ (Cut(k, pc) = "cut" /\ pc \in CutPcs)
    OBVIOUS
  <1> HIDE DEF Cut
  <1>4. rc'[k].pid = rc[k].pid /\ rc'[k].pc = Cut(k, rc[k].pc)
    BY <1>1, <1>2 DEF RcRecs
  <1>5. rc'[k].pc = rc[k].pc \/ (rc'[k].pc = "cut" /\ rc[k].pc # "idle")
    BY <1>3, <1>4
  <1>6. ASSUME NEW g \in Groups
        PROVE  /\ killer'[g][k].pid = killer[g][k].pid
               /\ \/ killer'[g][k].pc = killer[g][k].pc
                  \/ /\ killer'[g][k].pc = "cut"
                     /\ killer[g][k].pc \in {"sent", "answered"}
    <2>1. /\ killer'[g][k].pid = killer[g][k].pid
          /\ killer'[g][k].pc = Cut(k, killer[g][k].pc)
          /\ killer[g][k].pc \in CallStates
      BY <1>1, <1>2 DEF KillerRecs
    <2> QED
      BY <1>3, <2>1 DEF CallStates
  <1>7. start'[k] = start[k] \/ (start'[k] = "cut" /\ start[k] \in {"sent", "answered"})
    <2>1. start[k] \in CallStates \cup {"returned", "failed"}
      BY <1>1 DEF JobTypes
    <2> QED
      BY <1>2, <1>3, <2>1 DEF CallStates
  <1> QED
    BY <1>1, <1>2, <1>5, <1>4, <1>6, <1>7
    DEF JobInv, ToldInv, RemoteInv, StartInv, EndInv, StopInv, Stopping, Quiet, NotReturned,
            IsJobManagerRunning, Groups

-----------------------------------------------------------------------------
(* The invariant of all jobs.                                              *)
LEMMA LInvInit ==
    ASSUME LifecycleInit
    PROVE  LInv
  <1>1. JobTypes
    <2>1. << >> \in Seq(LinkStates)
      BY EmptySeq
    <2>2. routeEvents \in [Jobs -> Seq(LinkStates)]
      BY <2>1 DEF LifecycleInit
    <2>3. killer \in [Groups -> [Jobs -> KillerRecs]]
      <3>1. Idle \in KillerRecs
        BY DEF Idle, KillerRecs, CallStates
      <3> QED
        BY <3>1 DEF LifecycleInit
    <2>4. todo \in [Conns -> TodoRecs]
      <3>1. NothingTodo \in TodoRecs
        BY DEF NothingTodo, TodoRecs
      <3> QED
        BY <3>1 DEF LifecycleInit
    <2> QED
      BY <2>2, <2>3, <2>4
      DEF LifecycleInit, JobTypes, JobRecs, HostRecs, RcRecs, AutoRecs, CallStates
  <1>2. ASSUME NEW j \in Jobs
        PROVE  JobInv(j)
    BY DEF LifecycleInit, JobInv, ToldInv, RemoteInv, StartInv, EndInv, StopInv, Stopping, Quiet,
           NotReturned, IsJobManagerRunning, Groups, Idle, NothingTodo
  <1> QED
    BY <1>1, <1>2 DEF LInv

LEMMA LInvStep ==
    ASSUME LInv, [LifecycleNext]_vars
    PROVE  LInv'
  <1> SUFFICES ASSUME NEW k \in Jobs
               PROVE  JobInv(k)'
    BY JobTypesStep DEF LInv
  <1>1. CASE WorkerStep \/ UNCHANGED vars
    <2>1. SameJob(k) /\ UNCHANGED todo
      BY <1>1 DEF WorkerStep, vars, jobVars, SameJob
    <2> QED
      BY <2>1, SameJobKeeps DEF LInv, NotListed
  <1>2. ASSUME NEW c \in Conns, LinkChanges(c) \/ ConnStep(c)
        PROVE  JobInv(k)'
    BY <1>2, JobInvLink, JobInvConn
  <1>3. ASSUME NEW j \in Jobs,
               \/ StartJob(j) \/ CmdExits(j) \/ PtyEnds(j) \/ ManagerDies(j)
               \/ TerminateJobManager(j) \/ ReconnectJob(j) \/ DisconnectJob(j)
        PROVE  JobInv(k)'
    BY <1>3, JobInvStart, JobInvHost, JobInvCommand
  <1>4. ASSUME NEW j \in Jobs, JobStep(j)
        PROVE  JobInv(k)'
    BY <1>4, JobInvStart, JobInvEnd, JobInvCommand, JobInvKill, JobInvReconnect,
       JobInvRestart, JobInvRouteEvent, JobInvHost
    DEF JobStep
  <1> QED
    BY <1>1, <1>2, <1>3, <1>4 DEF LifecycleNext

(* What each place of the three calls implies of a job holds throughout,   *)
(* for any number of jobs, connections, faults and commands.               *)
THEOREM LifecycleInvariant == LifecycleSpec => []LInv
  <1>1. LifecycleInit => LInv
    BY LInvInit
  <1>2. LInv /\ [LifecycleNext]_vars => LInv'
    BY LInvStep
  <1> QED
    BY <1>1, <1>2, PTL DEF LifecycleSpec

(* The types of the controller's state, its connections' included.         *)
THEOREM LifecycleTypeCorrect == LifecycleSpec => []LifecycleTypeOK
  <1>1. LInv /\ ConnTypeOK => LifecycleTypeOK
    BY DEF LInv, JobTypes, LifecycleTypeOK, JobRecs, HostRecs, RcRecs, KillerRecs, AutoRecs,
           TodoRecs
  <1> QED
    BY <1>1, LifecycleInvariant, LifecycleReconciles, ConnTypeCorrect, PTL

(* The terminal is told of a job's end once, whichever of the exit, the    *)
(* two terminations and the discovery that the manager is gone come first, *)
(* together or not at all.                                                 *)
THEOREM EndToldOnce == LifecycleSpec => []EndIsToldOnce
  <1>1. LInv => EndIsToldOnce
    BY DEF LInv, JobInv, ToldInv, EndIsToldOnce
  <1> QED
    BY <1>1, LifecycleInvariant, PTL

(* A running job whose command has exited and whose output has ended is    *)
(* about to be terminated or was meant to be: neither of the two handlers  *)
(* that record the ends can miss the other, through any reconnects.        *)
THEOREM EndedJobTerminated == LifecycleSpec => []EndedJobIsTerminated
  <1>1. LInv => EndedJobIsTerminated
    BY DEF LInv, JobInv, EndInv, EndedJobIsTerminated
  <1> QED
    BY <1>1, LifecycleInvariant, PTL

(* A job that was started and is recorded as done has no job manager left  *)
(* alive on its host, or one that the host was told to stop: every call    *)
(* that records the end found the manager gone, or had it signalled, under *)
(* the process id of the record.                                           *)
THEOREM DoneJobStopping == LifecycleSpec => []DoneMeansStopping
  <1>1. LInv => DoneMeansStopping
    BY DEF LInv, JobInv, StartInv, StopInv, Stopping, DoneMeansStopping
  <1> QED
    BY <1>1, LifecycleInvariant, PTL
=============================================================================
