---------------------------- MODULE JobLifecycle ----------------------------
(***************************************************************************)
(* The life of a durable job as the job controller records it: start,      *)
(* exit, end of its stream, termination, reconnection after its connection *)
(* or its route was lost (pkg/jobcontroller), against the host that runs   *)
(* its job manager (pkg/wshrpc/wshremote) and with the reconciler of       *)
(* module ConnReconciler calling ReconnectJob.                             *)
(*                                                                         *)
(* A call to the remote side is sent, takes effect there, and returns: a   *)
(* step each, so that other handlers get in between.  It fails with the    *)
(* connection it was sent on, before or after its effect, or times out.    *)
(* The calls of the two single-flight groups have one place per job:       *)
(* rc[j] for ReconnectJob, killer["tm"][j] for TerminateJobManager; a call *)
(* that finds one under way joins it.  killer["rc"][j] is the termination  *)
(* that a reconnect carries out for a job marked TerminateOnReconnect.     *)
(***************************************************************************)
EXTENDS ConnReconciler

CONSTANTS
    Jobs,
    ConnOf,       \* Job.Connection
    MaxAutos,     \* bound on automatic reconnects of a job
    Disturbances, \* those that happen: losses of a connection, deaths of a
                  \* manager, calls that fail on a working connection, signals
                  \* the host refuses to send, commands
    MaxFaults     \* bound on their number

ASSUME JobLifecycleAssumption ==
    /\ ConnOf \in [Jobs -> Conns]
    /\ MaxAutos \in Nat /\ MaxFaults \in Nat
    /\ Disturbances \subseteq {"loss", "death", "timeout", "refusal", "command"}

VARIABLES
    job,         \* the record in the object store
    connStatus,  \* jobConnStates[j] is "connected"
    written,     \* jobTerminationMessageWritten
    told,        \* termination messages written to the block's terminal
    remote,      \* job manager process, command and PTY on the host, and whether
                 \* the manager was sent a SIGTERM or sending it was refused
    route,       \* the job's route is registered
    routeEvents, \* RouteUp and RouteDown events not yet handled
    exitReports, \* JobCmdExited calls under way
    loop,        \* an output loop reads the live stream
    checks,      \* tryTerminateJobManager calls about to read the record
    start,       \* place of StartJob
    rc,          \* place of doReconnectJob
    killer,      \* places of remoteTerminateJobManager
    auto,        \* attemptAutoReconnect: sleeping, attempts so far
    todo,        \* onConnectionUp: jobs listed, still to be reconnected, awaited
    disturbed,   \* history: a command came, or the manager died, while StartJob
                 \* had not returned
    faults       \* disturbances so far

jobVars == <<job, connStatus, written, told, remote, route, routeEvents, exitReports,
             loop, checks, start, rc, killer, auto, todo, disturbed, faults>>
vars == <<connVars, jobVars>>

Up(j) == conn[ConnOf[j]] = "up"
IsJobManagerRunning(j) == job[j].status = "running"
CheckJobConnected(j) == Up(j) /\ connStatus[j]

Groups == {"tm", "rc"}
CallStates == {"idle", "begin", "sent", "answered", "cut"}
NoJob == "nojob"
Idle == [pc |-> "idle", pid |-> FALSE, done |-> FALSE]

LifecycleTypeOK ==
    /\ ConnTypeOK
    /\ job \in [Jobs -> [status : {"none", "init", "running", "done"},
                         reason : {"none", "startuperror", "terminated", "gone"},
                         terminateOnReconnect : BOOLEAN, pid : BOOLEAN,
                         exited : BOOLEAN, streamDone : BOOLEAN]]
    /\ connStatus \in [Jobs -> BOOLEAN] /\ written \in [Jobs -> BOOLEAN]
    /\ told \in [Jobs -> Nat]
    /\ remote \in [Jobs -> [manager : {"absent", "alive", "dead"},
                            cmd : {"none", "running", "exited"}, ptyEnded : BOOLEAN,
                            signal : {"none", "sent", "refused"}]]
    /\ route \in [Jobs -> BOOLEAN] /\ routeEvents \in [Jobs -> Seq(LinkStates)]
    /\ exitReports \in [Jobs -> BOOLEAN] /\ loop \in [Jobs -> BOOLEAN]
    /\ checks \in [Jobs -> Nat]
    /\ start \in [Jobs -> CallStates \cup {"returned", "failed"}]
    /\ rc \in [Jobs -> [pc : {"idle", "sent", "gone", "connected", "restart", "cut",
                              "terminating"}, pid : BOOLEAN]]
    /\ killer \in [Groups -> [Jobs -> [pc : CallStates, pid : BOOLEAN, done : BOOLEAN]]]
    /\ auto \in [Jobs -> [sleeping : BOOLEAN, attempts : Nat]]
    /\ todo \in [Conns -> [listed : BOOLEAN, jobs : SUBSET Jobs, waiting : Jobs \cup {NoJob}]]
    /\ disturbed \in [Jobs -> BOOLEAN]
    /\ faults \in Nat

NothingTodo == [listed |-> FALSE, jobs |-> {}, waiting |-> NoJob]

LifecycleInit ==
    /\ ConnInit
    /\ job = [j \in Jobs |-> [status |-> "none", reason |-> "none",
                              terminateOnReconnect |-> FALSE, pid |-> FALSE,
                              exited |-> FALSE, streamDone |-> FALSE]]
    /\ connStatus = [j \in Jobs |-> FALSE] /\ written = [j \in Jobs |-> FALSE]
    /\ told = [j \in Jobs |-> 0]
    /\ remote = [j \in Jobs |-> [manager |-> "absent", cmd |-> "none", ptyEnded |-> FALSE,
                                 signal |-> "none"]]
    /\ route = [j \in Jobs |-> FALSE] /\ routeEvents = [j \in Jobs |-> << >>]
    /\ exitReports = [j \in Jobs |-> FALSE] /\ loop = [j \in Jobs |-> FALSE]
    /\ checks = [j \in Jobs |-> 0]
    /\ start = [j \in Jobs |-> "idle"]
    /\ rc = [j \in Jobs |-> [pc |-> "idle", pid |-> FALSE]]
    /\ killer = [g \in Groups |-> [j \in Jobs |-> Idle]]
    /\ auto = [j \in Jobs |-> [sleeping |-> FALSE, attempts |-> 0]]
    /\ todo = [c \in Conns |-> NothingTodo]
    /\ disturbed = [j \in Jobs |-> FALSE]
    /\ faults = 0

-----------------------------------------------------------------------------
(* Parts shared by the handlers.                                           *)

SetJob(j, rec) == job' = [job EXCEPT ![j] = rec]
SetRc(j, pc) == rc' = [rc EXCEPT ![j] = [pc |-> pc, pid |-> @.pid /\ pc # "idle"]]
SetStart(j, pc) == start' = [start EXCEPT ![j] = pc]

WriteMessageAgain(j) ==
    /\ written' = [written EXCEPT ![j] = TRUE]
    /\ told' = [told EXCEPT ![j] = @ + 1]

(* The termination message, unless it was written: TestAndSet and write.   *)
WriteTerminationMessage(j) ==
    /\ written' = [written EXCEPT ![j] = TRUE]
    /\ told' = [told EXCEPT ![j] = IF written[j] THEN @ ELSE @ + 1]

(* The routes of jobs js go: each is announced, the streams over them stop *)
(* and an exit report on its way is lost.                                  *)
RoutesDown(js) ==
    /\ route' = [j \in Jobs |-> route[j] /\ j \notin js]
    /\ routeEvents' = [j \in Jobs |-> IF j \in js /\ route[j]
                                      THEN Append(routeEvents[j], "down") ELSE routeEvents[j]]
    /\ loop' = [j \in Jobs |-> loop[j] /\ j \notin js]
    /\ exitReports' = [j \in Jobs |-> exitReports[j] /\ j \notin js]

(* connectToJobManager, after closing the connection there was.            *)
RouteUp(j) ==
    /\ route' = [route EXCEPT ![j] = TRUE]
    /\ routeEvents' = [routeEvents EXCEPT
                         ![j] = @ \o (IF route[j] THEN <<"down", "up">> ELSE <<"up">>)]
    /\ loop' = [loop EXCEPT ![j] = FALSE]

Starting(j) == start[j] \in {"sent", "answered", "cut"}

Disturb(kind) ==
    kind \in Disturbances /\ faults < MaxFaults /\ faults' = faults + 1

(* A call ends without an answer: the connection went, or time is up.      *)
CallFails(cut) ==
    \/ cut /\ UNCHANGED faults
    \/ ~cut /\ Disturb("timeout")

(* TerminateJobManager up to remoteTerminateJobManager.                    *)
DoTerminate(j) ==
    IF killer["tm"][j].pc # "idle" \/ job[j].status = "done"
    THEN UNCHANGED <<job, killer>>
    ELSE /\ SetJob(j, [job[j] EXCEPT !.terminateOnReconnect = TRUE])
         /\ killer' = [killer EXCEPT !["tm"][j] =
                         [pc |-> "begin", pid |-> job[j].pid, done |-> FALSE]]

(* ReconnectJob up to the remote call.                                     *)
DoReconnect(j) ==
    IF rc[j].pc # "idle" \/ CheckJobConnected(j) \/ ~Up(j)
    THEN UNCHANGED <<rc, killer>>
    ELSE IF job[j].terminateOnReconnect
    THEN /\ SetRc(j, "terminating")
         /\ killer' = [killer EXCEPT !["rc"][j] =
                         [pc |-> "begin", pid |-> job[j].pid, done |-> job[j].status = "done"]]
    ELSE /\ rc' = [rc EXCEPT ![j] = [pc |-> "sent", pid |-> job[j].pid]]
         /\ UNCHANGED killer

-----------------------------------------------------------------------------
(* The host and the connection.                                            *)

(* A connection comes or goes, and with it the routes and the answers of   *)
(* the calls over it.                                                      *)
LinkChanges(c) ==
    LET js == IF conn[c] = "up" THEN {j \in Jobs : ConnOf[j] = c} ELSE {}
        Cut(j, pc) == IF j \in js /\ pc \in {"sent", "answered", "gone", "connected"}
                      THEN "cut" ELSE pc
    IN  /\ ConnChanges(c)
        /\ IF conn[c] = "up" THEN Disturb("loss") ELSE UNCHANGED faults
        /\ RoutesDown(js)
        /\ start' = [j \in Jobs |-> Cut(j, start[j])]
        /\ rc' = [j \in Jobs |-> [rc[j] EXCEPT !.pc = Cut(j, @)]]
        /\ killer' = [g \in Groups |->
                        [j \in Jobs |-> [killer[g][j] EXCEPT !.pc = Cut(j, @)]]]
        /\ UNCHANGED <<job, connStatus, written, told, remote, checks, auto, todo,
                       disturbed>>

(* The command ends; the manager reports it to a client that is attached.  *)
CmdExits(j) ==
    /\ remote[j].manager = "alive" /\ remote[j].cmd = "running"
    /\ remote' = [remote EXCEPT ![j].cmd = "exited"]
    /\ exitReports' = [exitReports EXCEPT ![j] = route[j]]
    /\ UNCHANGED <<connVars, job, connStatus, written, told, route, routeEvents, loop, checks,
                   start, rc, killer, auto, todo, disturbed, faults>>

(* The PTY closes, before or after that: other processes may hold it.      *)
PtyEnds(j) ==
    /\ remote[j].manager = "alive" /\ remote[j].cmd # "none" /\ ~remote[j].ptyEnded
    /\ remote' = [remote EXCEPT ![j].ptyEnded = TRUE]
    /\ UNCHANGED <<connVars, job, connStatus, written, told, route, routeEvents, exitReports,
                   loop, checks, start, rc, killer, auto, todo, disturbed, faults>>

ManagerDies(j) ==
    /\ remote[j].manager = "alive"
    /\ Disturb("death")
    /\ remote' = [remote EXCEPT ![j].manager = "dead"]
    /\ disturbed' = [disturbed EXCEPT ![j] = @ \/ Starting(j)]
    /\ RoutesDown({j})
    /\ UNCHANGED <<connVars, job, connStatus, written, told, checks, start, rc, killer, auto,
                   todo>>

-----------------------------------------------------------------------------
(* StartJob.                                                               *)

StartJob(j) ==
    /\ start[j] = "idle" /\ Up(j)
    /\ SetJob(j, [job[j] EXCEPT !.status = "init"])
    /\ SetStart(j, "sent")
    /\ UNCHANGED <<connVars, connStatus, written, told, remote, route, routeEvents, exitReports,
                   loop, checks, rc, killer, auto, todo, disturbed, faults>>

(* RemoteStartJobCommand: the manager's process, the connection to it and  *)
(* the command; an error after the first leaves the process.               *)
RemoteStartJob(j) ==
    /\ start[j] = "sent"
    /\ \/ /\ remote' = [remote EXCEPT ![j] = [@ EXCEPT !.manager = "alive", !.cmd = "running"]]
          /\ RouteUp(j)
          /\ SetStart(j, "answered")
          /\ UNCHANGED faults
       \/ /\ \E m \in {"absent", "alive"} : remote' = [remote EXCEPT ![j].manager = m]
          /\ CallFails(FALSE)
          /\ SetStart(j, "cut")
          /\ UNCHANGED <<route, routeEvents, loop>>
    /\ UNCHANGED <<connVars, job, connStatus, written, told, exitReports, checks, rc, killer,
                   auto, todo, disturbed>>

StartJobReturns(j) ==
    /\ start[j] = "answered"
    /\ SetJob(j, [job[j] EXCEPT !.status = "running", !.pid = TRUE])
    /\ loop' = [loop EXCEPT ![j] = route[j]]
    /\ SetStart(j, "returned")
    /\ UNCHANGED <<connVars, connStatus, written, told, remote, route, routeEvents, exitReports,
                   checks, rc, killer, auto, todo, disturbed, faults>>

StartJobFails(j) ==
    /\ start[j] \in {"sent", "answered", "cut"}
    /\ CallFails(start[j] = "cut")
    /\ SetJob(j, [job[j] EXCEPT !.status = "done", !.reason = "startuperror"])
    /\ SetStart(j, "failed")
    /\ UNCHANGED <<connVars, connStatus, written, told, remote, route, routeEvents, exitReports,
                   loop, checks, rc, killer, auto, todo, disturbed>>

-----------------------------------------------------------------------------
(* The end of the command and of its output.                               *)

HandleCmdJobExitedOnly(j) ==
    /\ exitReports[j]
    /\ exitReports' = [exitReports EXCEPT ![j] = FALSE]
    /\ SetJob(j, [job[j] EXCEPT !.exited = TRUE])
    /\ WriteTerminationMessage(j)
    /\ UNCHANGED <<connVars, connStatus, remote, route, routeEvents, loop, checks, start, rc,
                   killer, auto, todo, disturbed, faults>>

HandleCmdJobExited(j) ==
    /\ exitReports[j]
    /\ exitReports' = [exitReports EXCEPT ![j] = FALSE]
    /\ SetJob(j, [job[j] EXCEPT !.exited = TRUE])
    /\ checks' = [checks EXCEPT ![j] = @ + 1]
    /\ WriteTerminationMessage(j)
    /\ UNCHANGED <<connVars, connStatus, remote, route, routeEvents, loop, start, rc, killer,
                   auto, todo, disturbed, faults>>

OutputLoopEndsOnly(j) ==
    /\ loop[j] /\ remote[j].ptyEnded
    /\ loop' = [loop EXCEPT ![j] = FALSE]
    /\ SetJob(j, [job[j] EXCEPT !.streamDone = TRUE])
    /\ UNCHANGED <<connVars, connStatus, written, told, remote, route, routeEvents, exitReports,
                   checks, start, rc, killer, auto, todo, disturbed, faults>>

(* runOutputLoop reaches the end of the stream.                            *)
OutputLoopEnds(j) ==
    /\ loop[j] /\ remote[j].ptyEnded
    /\ loop' = [loop EXCEPT ![j] = FALSE]
    /\ SetJob(j, [job[j] EXCEPT !.streamDone = TRUE])
    /\ checks' = [checks EXCEPT ![j] = @ + 1]
    /\ UNCHANGED <<connVars, connStatus, written, told, remote, route, routeEvents, exitReports,
                   start, rc, killer, auto, todo, disturbed, faults>>

TryTerminateJobManager(j) ==
    /\ checks[j] > 0
    /\ checks' = [checks EXCEPT ![j] = @ - 1]
    /\ IF IsJobManagerRunning(j) /\ job[j].exited /\ job[j].streamDone
       THEN DoTerminate(j)
       ELSE UNCHANGED <<job, killer>>
    /\ UNCHANGED <<connVars, connStatus, written, told, remote, route, routeEvents, exitReports,
                   loop, start, rc, auto, todo, disturbed, faults>>

-----------------------------------------------------------------------------
(* remoteTerminateJobManager, from either group.                           *)

SetKiller(g, j, pc) == killer' = [killer EXCEPT ![g][j].pc = pc]

(* The reconnect that carried a termination out returns with it.           *)
KillReturns(g, j) ==
    /\ killer' = [killer EXCEPT ![g][j] = Idle]
    /\ IF g = "rc" THEN SetRc(j, "idle") ELSE UNCHANGED rc

KillBegins(g, j) ==
    /\ killer[g][j].pc = "begin"
    /\ WriteTerminationMessage(j)
    /\ IF killer[g][j].done
       THEN KillReturns(g, j)
       ELSE SetKiller(g, j, IF Up(j) THEN "sent" ELSE "cut") /\ UNCHANGED rc
    /\ UNCHANGED <<connVars, job, connStatus, remote, route, routeEvents, exitReports, loop,
                   checks, start, auto, todo, disturbed, faults>>

(* RemoteTerminateJobManagerCommand: a process that runs under the pid of  *)
(* the record is sent a SIGTERM.  The answer is a success all the same     *)
(* when the signal could not be sent, and does not wait for the process.   *)
RemoteTerminate(g, j) ==
    /\ killer[g][j].pc = "sent"
    /\ SetKiller(g, j, "answered")
    /\ IF killer[g][j].pid /\ remote[j].manager = "alive"
       THEN \/ /\ remote' = [remote EXCEPT ![j].signal = "sent"]
               /\ UNCHANGED faults
            \/ /\ remote' = [remote EXCEPT ![j].signal = IF @ = "sent" THEN @ ELSE "refused"]
               /\ Disturb("refusal")
       ELSE UNCHANGED <<remote, faults>>
    /\ UNCHANGED <<connVars, job, connStatus, written, told, route, routeEvents, exitReports,
                   loop, checks, start, rc, auto, todo, disturbed>>

(* The signal takes effect: a job manager has no handler for it.           *)
ManagerStops(j) ==
    /\ remote[j].manager = "alive" /\ remote[j].signal = "sent"
    /\ remote' = [remote EXCEPT ![j].manager = "dead"]
    /\ RoutesDown({j})
    /\ UNCHANGED <<connVars, job, connStatus, written, told, checks, start, rc, killer, auto,
                   todo, disturbed, faults>>

KillSucceeds(g, j) ==
    /\ killer[g][j].pc = "answered"
    /\ SetJob(j, [job[j] EXCEPT !.status = "done", !.reason = "terminated",
                                !.terminateOnReconnect = FALSE, !.streamDone = TRUE])
    /\ KillReturns(g, j)
    /\ UNCHANGED <<connVars, connStatus, written, told, remote, route, routeEvents, exitReports,
                   loop, checks, start, auto, todo, disturbed, faults>>

KillFailsDone(g, j) ==
    /\ killer[g][j].pc \in {"sent", "answered", "cut"}
    /\ CallFails(killer[g][j].pc = "cut")
    /\ SetJob(j, [job[j] EXCEPT !.status = "done", !.reason = "terminated"])
    /\ KillReturns(g, j)
    /\ UNCHANGED <<connVars, connStatus, written, told, remote, route, routeEvents,
                   exitReports, loop, checks, start, auto, todo, disturbed>>

KillFails(g, j) ==
    /\ killer[g][j].pc \in {"sent", "answered", "cut"}
    /\ CallFails(killer[g][j].pc = "cut")
    /\ KillReturns(g, j)
    /\ UNCHANGED <<connVars, job, connStatus, written, told, remote, route, routeEvents,
                   exitReports, loop, checks, start, auto, todo, disturbed>>

-----------------------------------------------------------------------------
(* doReconnectJob.                                                         *)

(* RemoteReconnectToJobManagerCommand.                                     *)
RemoteReconnect(j) ==
    /\ rc[j].pc = "sent"
    /\ IF rc[j].pid /\ remote[j].manager = "alive"
       THEN RouteUp(j) /\ SetRc(j, "connected")
       ELSE UNCHANGED <<route, routeEvents, loop>> /\ SetRc(j, "gone")
    /\ UNCHANGED <<connVars, job, connStatus, written, told, remote, exitReports, checks, start,
                   killer, auto, todo, disturbed, faults>>

JobManagerGone(j) ==
    /\ rc[j].pc = "gone"
    /\ SetJob(j, [job[j] EXCEPT !.status = "done", !.reason = "gone"])
    /\ WriteTerminationMessage(j)
    /\ SetRc(j, "idle")
    /\ UNCHANGED <<connVars, connStatus, remote, route, routeEvents, exitReports, loop, checks,
                   start, killer, auto, todo, disturbed, faults>>

RouteRegistered(j) ==
    /\ rc[j].pc = "connected" /\ route[j]
    /\ connStatus' = [connStatus EXCEPT ![j] = TRUE]
    /\ SetRc(j, "restart")
    /\ UNCHANGED <<connVars, job, written, told, remote, route, routeEvents, exitReports, loop,
                   checks, start, killer, auto, todo, disturbed, faults>>

(* restartStreaming, module DurableStream's subject: what it learns of the *)
(* job's end.  An end of output nobody acknowledged is sent again.         *)
RestartStreaming(j) ==
    /\ rc[j].pc = "restart" /\ route[j]
    /\ LET hasExited == remote[j].cmd = "exited"
       IN  \E done \in {FALSE, remote[j].ptyEnded} :
             /\ SetJob(j, [job[j] EXCEPT !.exited = @ \/ hasExited, !.streamDone = @ \/ done])
             /\ checks' = [checks EXCEPT ![j] =
                             @ + (IF hasExited THEN IF done THEN 2 ELSE 1 ELSE 0)]
             /\ IF hasExited THEN WriteTerminationMessage(j) ELSE UNCHANGED <<written, told>>
             /\ loop' = [loop EXCEPT ![j] = ~done]
    /\ SetRc(j, "idle")
    /\ UNCHANGED <<connVars, connStatus, remote, route, routeEvents, exitReports, start, killer,
                   auto, todo, disturbed, faults>>

ReconnectFails(j) ==
    /\ rc[j].pc \in {"sent", "connected", "restart", "cut"}
    /\ CallFails(rc[j].pc = "cut" \/ (rc[j].pc \in {"connected", "restart"} /\ ~route[j]))
    /\ SetRc(j, "idle")
    /\ UNCHANGED <<connVars, job, connStatus, written, told, remote, route, routeEvents,
                   exitReports, loop, checks, start, killer, auto, todo, disturbed>>

-----------------------------------------------------------------------------
(* Route events and automatic reconnection.  The thirty seconds between    *)
(* two attempts may or may not have passed, except before the first.       *)

HandleRouteEvent(j) ==
    /\ \E i \in 1 .. Len(routeEvents[j]) :
         LET up == routeEvents[j][i] = "up"
         IN  /\ Overtaking \/ i = 1
             /\ connStatus' = [connStatus EXCEPT ![j] = up]
             /\ routeEvents' = [routeEvents EXCEPT ![j] = WithoutEvent(@, i)]
             /\ \/ /\ ~up /\ IsJobManagerRunning(j)
                   /\ ~auto[j].sleeping /\ auto[j].attempts < MaxAutos
                   /\ auto' = [auto EXCEPT ![j] = [sleeping |-> TRUE, attempts |-> @.attempts + 1]]
                \/ /\ up \/ ~IsJobManagerRunning(j) \/ auto[j].attempts > 0
                   /\ UNCHANGED auto
    /\ UNCHANGED <<connVars, job, written, told, remote, route, exitReports, loop, checks, start,
                   rc, killer, todo, disturbed, faults>>

AttemptAutoReconnect(j) ==
    /\ auto[j].sleeping
    /\ auto' = [auto EXCEPT ![j].sleeping = FALSE]
    /\ DoReconnect(j)
    /\ UNCHANGED <<connVars, job, connStatus, written, told, remote, route, routeEvents,
                   exitReports, loop, checks, start, todo, disturbed, faults>>

-----------------------------------------------------------------------------
(* onConnectionUp and onConnectionDown inside a reconcile.                 *)

ListJobs(c) ==
    /\ target[c] = "up" /\ ~todo[c].listed
    /\ todo' = [todo EXCEPT ![c] =
                  [listed |-> TRUE, waiting |-> NoJob,
                   jobs |-> {j \in Jobs : ConnOf[j] = c /\ IsJobManagerRunning(j)}]]
    /\ UNCHANGED <<connVars, job, connStatus, written, told, remote, route, routeEvents,
                   exitReports, loop, checks, start, rc, killer, auto, disturbed, faults>>

ReconnectNext(c) ==
    /\ todo[c].waiting = NoJob
    /\ \E j \in todo[c].jobs :
         /\ todo' = [todo EXCEPT ![c].jobs = @ \ {j}, ![c].waiting = j]
         /\ DoReconnect(j)
    /\ UNCHANGED <<connVars, job, connStatus, written, told, remote, route, routeEvents,
                   exitReports, loop, checks, start, auto, disturbed, faults>>

ReconnectReturns(c) ==
    /\ todo[c].waiting # NoJob
    /\ rc[todo[c].waiting].pc = "idle"
    /\ todo' = [todo EXCEPT ![c].waiting = NoJob]
    /\ UNCHANGED <<connVars, job, connStatus, written, told, remote, route, routeEvents,
                   exitReports, loop, checks, start, rc, killer, auto, disturbed, faults>>

ReconcileConnDone(c) ==
    /\ target[c] = "up" => todo[c] = [NothingTodo EXCEPT !.listed = TRUE]
    /\ ReconcileDone(c)
    /\ todo' = [todo EXCEPT ![c] = NothingTodo]
    /\ UNCHANGED <<job, connStatus, written, told, remote, route, routeEvents, exitReports, loop,
                   checks, start, rc, killer, auto, disturbed, faults>>

-----------------------------------------------------------------------------
(* The user's commands: terminate (or close the block), reconnect,         *)
(* disconnect.                                                             *)

Command(j) ==
    /\ Disturb("command")
    /\ disturbed' = [disturbed EXCEPT ![j] = @ \/ Starting(j)]

TerminateJobManager(j) ==
    /\ job[j].status # "none"
    /\ Command(j)
    /\ DoTerminate(j)
    /\ UNCHANGED <<connVars, connStatus, written, told, remote, route, routeEvents, exitReports,
                   loop, checks, start, rc, auto, todo>>

ReconnectJob(j) ==
    /\ job[j].status # "none"
    /\ Command(j)
    /\ DoReconnect(j)
    /\ UNCHANGED <<connVars, job, connStatus, written, told, remote, route, routeEvents,
                   exitReports, loop, checks, start, auto, todo>>

DisconnectJob(j) ==
    /\ Up(j) /\ route[j]
    /\ Command(j)
    /\ RoutesDown({j})
    /\ UNCHANGED <<connVars, job, connStatus, written, told, remote, checks, start, rc, killer,
                   auto, todo>>

-----------------------------------------------------------------------------
(* What the program itself does next, as opposed to its users, its hosts   *)
(* and their network.                                                      *)
JobStep(j) ==
    \/ RemoteStartJob(j) \/ StartJobReturns(j) \/ StartJobFails(j)
    \/ HandleCmdJobExited(j) \/ OutputLoopEnds(j) \/ TryTerminateJobManager(j)
    \/ \E g \in Groups : KillBegins(g, j) \/ RemoteTerminate(g, j)
                         \/ KillSucceeds(g, j) \/ KillFails(g, j)
    \/ ManagerStops(j)
    \/ RemoteReconnect(j) \/ JobManagerGone(j) \/ RouteRegistered(j) \/ RestartStreaming(j)
    \/ ReconnectFails(j) \/ HandleRouteEvent(j) \/ AttemptAutoReconnect(j)

ConnStep(c) ==
    \/ HandleConnChange(c) /\ UNCHANGED jobVars
    \/ ListJobs(c) \/ ReconnectNext(c) \/ ReconnectReturns(c) \/ ReconcileConnDone(c)

WorkerStep == (LeaveToken \/ TakeToken \/ ReconcileAllConns) /\ UNCHANGED jobVars

LifecycleNext ==
    \/ WorkerStep
    \/ \E c \in Conns : LinkChanges(c) \/ ConnStep(c)
    \/ \E j \in Jobs : \/ StartJob(j) \/ CmdExits(j) \/ PtyEnds(j) \/ ManagerDies(j)
                       \/ TerminateJobManager(j) \/ ReconnectJob(j) \/ DisconnectJob(j)
                       \/ JobStep(j)

LifecycleSpec == LifecycleInit /\ [][LifecycleNext]_vars

(* Some goroutine that can run does run, calls return, and a signal that   *)
(* was sent is delivered.  What users, hosts and networks do is finite     *)
(* here, and so is what follows from it: more fairness would add nothing.  *)
ProgramStep ==
    \/ WorkerStep
    \/ \E c \in Conns : ConnStep(c)
    \/ \E j \in Jobs : JobStep(j)

LifecycleFairSpec == LifecycleSpec /\ WF_vars(ProgramStep)

-----------------------------------------------------------------------------
(* A running job whose command has exited and whose output has ended is    *)
(* about to be terminated, or was meant to be: the two ends are recorded   *)
(* by two handlers that look at each other's record, so the later of them  *)
(* must see both whatever the order.                                       *)
EndedJobIsTerminated ==
    \A j \in Jobs :
        IsJobManagerRunning(j) /\ job[j].exited /\ job[j].streamDone /\ ~disturbed[j] =>
            checks[j] > 0 \/ job[j].terminateOnReconnect

(* The terminal is told of a job's end once: by its exit, its termination  *)
(* from either group, or the discovery that its manager is gone, which can *)
(* all happen to one job.                                                  *)
EndIsToldOnce ==
    \A j \in Jobs :
        /\ told[j] <= 1
        /\ job[j].status = "done" /\ job[j].reason # "startuperror" => told[j] = 1

(* A job that was started and is recorded as done has no job manager left  *)
(* on its host but one that was to be stopped: its record says terminated, *)
(* and the host has signalled it, or tried to and was refused.  No call    *)
(* that failed, and no reconnect that found nothing, ends the record of a  *)
(* manager that nobody told to stop, unless a command came while StartJob  *)
(* was under way.                                                          *)
DoneMeansStopping ==
    \A j \in Jobs :
        job[j].status = "done" /\ job[j].pid /\ ~disturbed[j] =>
            \/ remote[j].manager # "alive"
            \/ job[j].reason = "terminated" /\ remote[j].signal # "none"

(* On a connection that is not lost, with calls that return, signals that  *)
(* are sent and no command in between, a job whose command and output have *)
(* ended is recorded as done and its manager stops in the end, however the *)
(* first reconcile of the connection, the route events, the two ends and   *)
(* StartJob interleave.                                                    *)
EndedJobSettles ==
    \A j \in Jobs :
        [](faults = 0) =>
            (remote[j].cmd = "exited" /\ remote[j].ptyEnded ~>
                job[j].status = "done" /\ remote[j].manager # "alive")
=============================================================================
