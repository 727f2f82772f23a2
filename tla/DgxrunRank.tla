----------------------------- MODULE DgxrunRank -----------------------------
(***************************************************************************)
(* One agent's rank of one dgxrun deployment: the docker container named   *)
(* dgxrun_<id>, the persistent deployment store entry, the in-memory       *)
(* cancel registry, and the handlers that touch them.  The agent is one    *)
(* event loop, so a handler is atomic between two awaits; every await      *)
(* (docker, sync) is a point where any other handler may run.              *)
(*                                                                         *)
(* A docker command is two steps: the daemon takes effect, and later the   *)
(* event loop runs the continuation.                                       *)
(*                                                                         *)
(* Sources: packages/agent/src/index.ts (handleCommand, the health and     *)
(* metrics timers, postRegistrationSetup), runtime/dgxrun/dgxrun.ts,       *)
(* runtime/dgxrun/dgxrun-metrics.ts, runtime/dgxrun/dgxrun-reconcile.ts,   *)
(* runtime/deploy-cancel.ts and runtime/deployment-store.ts.               *)
(***************************************************************************)
EXTENDS Naturals

CONSTANTS
  Deploys,         \* cmd:deploy messages this run may deliver, one launch each
  Undeploys,       \* cmd:undeploy messages this run may deliver
  IsHead,          \* does this agent own rank 0?
  Overlap,         \* may cmd:deploy arrive while an earlier launch or stop runs?
  Inconclusive,    \* may docker inspect fail to answer (timeout, busy daemon)?
  DockerFails,     \* may docker rm and docker stop fail (wedged daemon)?
  MaxReconnects,   \* bound: WebSocket reconnects
  MaxAgentCrashes  \* bound: agent process restarts

ASSUME RankAssumption ==
  /\ Deploys \cap Undeploys = {}
  /\ IsHead \in BOOLEAN
  /\ Overlap \in BOOLEAN
  /\ Inconclusive \in BOOLEAN
  /\ DockerFails \in BOOLEAN
  /\ MaxReconnects \in Nat
  /\ MaxAgentCrashes \in Nat

VARIABLES
  store,        \* this deployment's entry in deployments.json
  container,    \* what the docker daemon has under the name dgxrun_<id>
  cancel,       \* deployCancels holds a cancel for this id (its deleteAfter is data)
  launch,       \* per cmd:deploy: how far its launchDgxrun got
  stop,         \* per cmd:undeploy: how far its teardown got
  preserve,     \* per cmd:undeploy: its preserveContainer
  tick,         \* per timer: how far its current tick got
  seen,         \* per timer: the store entry the current tick loaded
  absentTicks,  \* consecutive absent inspects (shared by both timers)
  recon,        \* how far the reconnect reconciliation got
  report,       \* the agent:deployment:status the last step sent, and who sent it
  lastCmd,      \* the last command delivered
  hit,          \* a failure verdict or an agent restart overlapped a launch
  evidence,     \* a failure teardown has kept a dead container for inspection
  nReconnects, nCrashes

vars == <<store, container, cancel, launch, stop, preserve, tick, seen,
          absentTicks, recon, report, lastCmd, hit, evidence,
          nReconnects, nCrashes>>

Timers == {"health", "metrics"}

NoEntry == [tracked |-> FALSE, starting |-> FALSE, stopping |-> FALSE]

Entries == [tracked : BOOLEAN, starting : BOOLEAN, stopping : BOOLEAN]

ContainerStates == {"absent", "created", "running", "exited"}

LaunchPhases == {"idle", "image", "rm", "rmDone", "drop", "run", "created",
                 "exit0", "exit1", "reap", "reapDone", "over"}

StopPhases == {"idle", "docker", "dockerDone", "over"}

TickPhases == {"idle", "inspect", "capture", "dead", "alive", "stop",
               "stopDone"}

Reports == [status : {"none", "starting", "stopping", "running", "failed",
                      "stopped"},
            by : {"none", "command", "launch", "health", "reconcile"}]

NoReport == [status |-> "none", by |-> "none"]

TypeOK ==
  /\ store \in Entries
  /\ container \in ContainerStates
  /\ cancel \in BOOLEAN
  /\ launch \in [Deploys -> LaunchPhases]
  /\ stop \in [Undeploys -> StopPhases]
  /\ preserve \in [Undeploys -> BOOLEAN]
  /\ tick \in [Timers -> TickPhases]
  /\ seen \in [Timers -> Entries]
  /\ absentTicks \in 0..1
  /\ recon \in {"idle", "inspect"}
  /\ report \in Reports
  /\ lastCmd \in {"none", "deploy", "undeploy"}
  /\ hit \in BOOLEAN
  /\ evidence \in BOOLEAN
  /\ nReconnects \in 0..MaxReconnects
  /\ nCrashes \in 0..MaxAgentCrashes

Init ==
  /\ store = NoEntry
  /\ container = "absent"
  /\ cancel = FALSE
  /\ launch = [d \in Deploys |-> "idle"]
  /\ stop = [u \in Undeploys |-> "idle"]
  /\ preserve = [u \in Undeploys |-> FALSE]
  /\ tick = [t \in Timers |-> "idle"]
  /\ seen = [t \in Timers |-> NoEntry]
  /\ absentTicks = 0
  /\ recon = "idle"
  /\ report = NoReport
  /\ lastCmd = "none"
  /\ hit = FALSE
  /\ evidence = FALSE
  /\ nReconnects = 0
  /\ nCrashes = 0

(***************************************************************************)
(* Helpers.                                                                *)
(***************************************************************************)

\* A launch between cmd:deploy and the end of its docker run (or its reaping).
InFlight(d) == launch[d] \notin {"idle", "over"}

LaunchInFlight == \E d \in Deploys : InFlight(d)

StopInFlight == \E u \in Undeploys : stop[u] \notin {"idle", "over"}

\* The health tick has decided, or is acting on, a failure verdict.
VerdictInFlight == tick["health"] \in {"capture", "dead", "stop", "stopDone"}

Quiescent == ~LaunchInFlight /\ ~StopInFlight

\* stopDgxrun's docker argv: `docker stop` keeps the container, `docker rm -f`
\* removes it.  `docker stop` does nothing to a container that never started.
AfterDockerRemoves(keep) == "absent"          \* mutant: always docker rm -f

AfterDocker(keep) ==
  IF keep THEN IF container = "running" THEN "exited" ELSE container
          ELSE "absent"

\* execCapture runs the command; its caller goes on whether or not it worked.
Docker(outcome) ==
  \/ container' = outcome
  \/ DockerFails /\ container' = container

\* sendMsg("agent:deployment:status", ...)
Send(status, by) == report' = [status |-> status, by |-> by]

Silent == report' = NoReport

(***************************************************************************)
(* cmd:deploy.  beginDeploy drops any earlier cancel; the head announces   *)
(* "starting"; launchDgxrun starts with the image check.                   *)
(***************************************************************************)
Deploy(d) ==
  /\ launch[d] = "idle"
  /\ Overlap \/ (~LaunchInFlight /\ ~StopInFlight)
  /\ cancel' = FALSE
  /\ launch' = [launch EXCEPT ![d] = "image"]
  /\ \/ IsHead /\ Send("starting", "command")
     \/ Silent             \* a worker, or reportPhase: no step forward
  /\ lastCmd' = "deploy"
  /\ hit' = (hit \/ VerdictInFlight)
  /\ evidence' = FALSE
  /\ UNCHANGED <<store, container, stop, preserve, tick, seen, absentTicks,
                 recon, nReconnects, nCrashes>>

\* A mod is not installed, the image is not on the node, or the argv cannot be
\* built: onExit(1) before anything was persisted or removed.
LaunchRefused(d) ==
  /\ launch[d] = "image"
  /\ launch' = [launch EXCEPT ![d] = "exit1"]
  /\ Silent
  /\ UNCHANGED <<store, container, cancel, stop, preserve, tick, seen,
                 absentTicks, recon, lastCmd, hit, evidence, nReconnects,
                 nCrashes>>

\* The image is there: issue `docker rm -f` for a stale container.
LaunchClear(d) ==
  /\ launch[d] = "image"
  /\ launch' = [launch EXCEPT ![d] = "rm"]
  /\ Silent
  /\ UNCHANGED <<store, container, cancel, stop, preserve, tick, seen,
                 absentTicks, recon, lastCmd, hit, evidence, nReconnects,
                 nCrashes>>

\* The daemon removes the stale container ...
LaunchRm(d) ==
  /\ launch[d] = "rm"
  /\ Docker("absent")
  /\ launch' = [launch EXCEPT ![d] = "rmDone"]
  /\ hit' = VerdictInFlight
  /\ Silent
  /\ UNCHANGED <<store, cancel, stop, preserve, tick, seen, absentTicks,
                 recon, lastCmd, evidence, nReconnects, nCrashes>>

\* ... and the continuation persists the entry with starting set, replacing
\* whatever was stored, and waits for the page cache to be dropped.
LaunchedEntryLost == store        \* mutant: the launch persists nothing

LaunchedEntry == [tracked |-> TRUE, starting |-> TRUE, stopping |-> FALSE]

LaunchPersist(d) ==
  /\ launch[d] = "rmDone"
  /\ store' = LaunchedEntry
  /\ launch' = [launch EXCEPT ![d] = "drop"]
  /\ Silent
  /\ UNCHANGED <<container, cancel, stop, preserve, tick, seen,
                 absentTicks, recon, lastCmd, hit, evidence, nReconnects,
                 nCrashes>>

\* Caches dropped: spawn `docker run -d`.
LaunchSpawn(d) ==
  /\ launch[d] = "drop"
  /\ launch' = [launch EXCEPT ![d] = "run"]
  /\ Silent
  /\ UNCHANGED <<store, container, cancel, stop, preserve, tick, seen,
                 absentTicks, recon, lastCmd, hit, evidence, nReconnects,
                 nCrashes>>

\* docker run creates the container; a container already holding the name, or
\* an error of its own, makes it exit non-zero.
DockerCreate(d) ==
  /\ launch[d] = "run"
  /\ \/ /\ container = "absent"
        /\ container' = "created"
        /\ launch' = [launch EXCEPT ![d] = "created"]
     \/ /\ container' = container
        /\ launch' = [launch EXCEPT ![d] = "exit1"]
  /\ Silent
  /\ UNCHANGED <<store, cancel, stop, preserve, tick, seen, absentTicks,
                 recon, lastCmd, hit, evidence, nReconnects, nCrashes>>

\* docker run starts what it created.  It exits non-zero when the container was
\* removed under it, and may fail to start one that is still there.
DockerStart(d) ==
  /\ launch[d] = "created"
  /\ \/ /\ container = "created"
        /\ container' = "running"
        /\ launch' = [launch EXCEPT ![d] = "exit0"]
     \/ /\ container' = container
        /\ launch' = [launch EXCEPT ![d] = "exit1"]
  /\ Silent
  /\ UNCHANGED <<store, cancel, stop, preserve, tick, seen, absentTicks,
                 recon, lastCmd, hit, evidence, nReconnects, nCrashes>>

\* clearStarting merges, so a stopping flag set meanwhile survives.
ClearStarting(entry) == [entry EXCEPT !.starting = FALSE]

\* The child's exit event.  launchExitAction: a pending cancel wins over both
\* exit codes and starts the reaping; otherwise 0 is "running" (the health tick
\* confirms it) and non-zero is reported failed.
ExitActionUncancelled(d) ==      \* mutant: the exit code wins over a cancel
  IF launch[d] = "exit1" THEN "failed" ELSE "running"

LaunchExitAction(d) ==
  IF cancel THEN "cancelled"
  ELSE IF launch[d] = "exit1" THEN "failed" ELSE "running"

LaunchExit(d) ==
  /\ launch[d] \in {"exit0", "exit1"}
  /\ store' = IF launch[d] = "exit0" THEN ClearStarting(store) ELSE store
  /\ launch' = [launch EXCEPT ![d] = IF LaunchExitAction(d) = "cancelled"
                                       THEN "reap" ELSE "over"]
  /\ IF LaunchExitAction(d) = "failed" THEN Send("failed", "launch")
                                       ELSE Silent
  /\ UNCHANGED <<container, cancel, stop, preserve, tick, seen, absentTicks,
                 recon, lastCmd, hit, evidence, nReconnects, nCrashes>>

StopKeepsEntry == store           \* mutant: the record goes only if docker worked

\* stopDgxrun's `finally`: the record goes even if docker is wedged.
RemoveDeployment == NoEntry

\* Stop raced the launch: `docker rm -f` whatever came up ...
LaunchReap(d) ==
  /\ launch[d] = "reap"
  /\ Docker(AfterDocker(FALSE))
  /\ launch' = [launch EXCEPT ![d] = "reapDone"]
  /\ Silent
  /\ UNCHANGED <<store, cancel, stop, preserve, tick, seen, absentTicks,
                 recon, lastCmd, hit, evidence, nReconnects, nCrashes>>

\* ... untrack it, forget the cancel and report stopped.
LaunchReaped(d) ==
  /\ launch[d] = "reapDone"
  /\ store' = RemoveDeployment
  /\ cancel' = FALSE
  /\ launch' = [launch EXCEPT ![d] = "over"]
  /\ Send("stopped", "launch")
  /\ UNCHANGED <<container, stop, preserve, tick, seen, absentTicks, recon,
                 lastCmd, hit, evidence, nReconnects, nCrashes>>

(***************************************************************************)
(* cmd:undeploy.  Up to its first await: report stopping, record the       *)
(* cancel, mark a tracked entry stopping, issue the docker command.  With  *)
(* no entry it is the orphan sweep, which issues the same command.         *)
(***************************************************************************)
CancelTrackedOnly == cancel \/ store.tracked  \* mutant: cancels what is stored

RequestCancel == TRUE

Undeploy(u, keep) ==
  /\ stop[u] = "idle"
  /\ Send("stopping", "command")
  /\ cancel' = RequestCancel
  /\ store' = IF store.tracked THEN [store EXCEPT !.stopping = TRUE] ELSE store
  /\ stop' = [stop EXCEPT ![u] = "docker"]
  /\ preserve' = [preserve EXCEPT ![u] = keep]
  /\ lastCmd' = "undeploy"
  /\ evidence' = (evidence /\ keep)
  /\ UNCHANGED <<container, launch, tick, seen, absentTicks, recon, hit,
                 nReconnects, nCrashes>>

StopDocker(u) ==
  /\ stop[u] = "docker"
  /\ Docker(AfterDocker(preserve[u]))
  /\ stop' = [stop EXCEPT ![u] = "dockerDone"]
  /\ hit' = FALSE
  /\ Silent
  /\ UNCHANGED <<store, cancel, launch, preserve, tick, seen, absentTicks,
                 recon, lastCmd, evidence, nReconnects, nCrashes>>

StopDone(u) ==
  /\ stop[u] = "dockerDone"
  /\ store' = RemoveDeployment
  /\ stop' = [stop EXCEPT ![u] = "over"]
  /\ preserve' = [preserve EXCEPT ![u] = FALSE]
  /\ Send("stopped", "command")
  /\ UNCHANGED <<container, cancel, launch, tick, seen, absentTicks, recon,
                 lastCmd, hit, evidence, nReconnects, nCrashes>>

(***************************************************************************)
(* The two timers.  Both call checkDgxrunDeployments, so both move         *)
(* absentTicks; only the health timer acts on what it returns.             *)
(***************************************************************************)

\* loadDeployments(), then await docker inspect.
TickStart(t) ==
  /\ tick[t] = "idle"
  /\ store.tracked
  /\ tick' = [tick EXCEPT ![t] = "inspect"]
  /\ seen' = [seen EXCEPT ![t] = store]
  /\ Silent
  /\ UNCHANGED <<store, container, cancel, launch, stop, preserve,
                 absentTicks, recon, lastCmd, hit, evidence, nReconnects,
                 nCrashes>>

\* A verdict moves the health tick on; the metrics tick drops it.
Verdict(t, phase) ==
  /\ tick' = [tick EXCEPT ![t] = IF t = "health" THEN phase ELSE "idle"]
  /\ hit' = (hit \/ (t = "health" /\ phase = "dead" /\ LaunchInFlight))

\* The tick's local copy of the entry goes out of use.
Forget(t) == seen' = [seen EXCEPT ![t] = NoEntry]

\* docker did not answer: skip the tick, touch nothing.
InspectUnknown(t) ==
  /\ Inconclusive
  /\ tick[t] = "inspect"
  /\ tick' = [tick EXCEPT ![t] = "idle"]
  /\ Forget(t)
  /\ Silent
  /\ UNCHANGED <<store, container, cancel, launch, stop, preserve,
                 absentTicks, recon, lastCmd, hit, evidence, nReconnects,
                 nCrashes>>

AbsentTicksToFail == 2

\* docker says there is no such container.  A stopping or starting entry (as
\* loaded when the tick began) excuses it; otherwise the second consecutive
\* sighting is the verdict.
InspectAbsent(t) ==
  /\ tick[t] = "inspect"
  /\ container = "absent"
  /\ \/ /\ seen[t].stopping \/ seen[t].starting
        /\ absentTicks' = 0
        /\ tick' = [tick EXCEPT ![t] = "idle"]
        /\ UNCHANGED hit
     \/ /\ ~seen[t].stopping /\ ~seen[t].starting
        /\ absentTicks + 1 < AbsentTicksToFail
        /\ absentTicks' = absentTicks + 1
        /\ tick' = [tick EXCEPT ![t] = "idle"]
        /\ UNCHANGED hit
     \/ /\ ~seen[t].stopping /\ ~seen[t].starting
        /\ absentTicks + 1 >= AbsentTicksToFail
        /\ absentTicks' = 0
        /\ Verdict(t, "dead")
  /\ Forget(t)
  /\ Silent
  /\ UNCHANGED <<store, container, cancel, launch, stop, preserve, recon,
                 lastCmd, evidence, nReconnects, nCrashes>>

\* docker found the container.  A stopping entry excuses one that is not
\* running; an exited one has its log captured first; a created one is not
\* "failing" but is pushed as neither alive nor running.
InspectFound(t) ==
  /\ tick[t] = "inspect"
  /\ container # "absent"
  /\ absentTicks' = 0
  /\ \/ /\ container # "running" /\ seen[t].stopping
        /\ tick' = [tick EXCEPT ![t] = "idle"]
        /\ UNCHANGED hit
     \/ /\ container = "exited" /\ ~seen[t].stopping
        /\ tick' = [tick EXCEPT ![t] = "capture"]
        /\ UNCHANGED hit
     \/ /\ container = "created" /\ ~seen[t].stopping
        /\ Verdict(t, "dead")
     \/ /\ container = "running"
        /\ Verdict(t, "alive")
  /\ Forget(t)
  /\ Silent
  /\ UNCHANGED <<store, container, cancel, launch, stop, preserve, recon,
                 lastCmd, evidence, nReconnects, nCrashes>>

\* captureCrashedDgxrunLogs: `docker stop -t 3`, by name, then the log.
Capture(t) ==
  /\ tick[t] = "capture"
  /\ Docker(AfterDocker(TRUE))
  /\ Verdict(t, "dead")
  /\ Silent
  /\ UNCHANGED <<store, cancel, launch, stop, preserve, seen, absentTicks,
                 recon, lastCmd, evidence, nReconnects, nCrashes>>

\* The head's rank is up: after fetching /metrics and the node's memory the
\* health tick reports running (or starting).  Workers stay silent.
TickAlive ==
  /\ tick["health"] = "alive"
  /\ tick' = [tick EXCEPT !["health"] = "idle"]
  /\ \/ Silent      \* shouldReportStatus: nothing changed
     \/ IsHead /\ \E s \in {"starting", "running"} : Send(s, "health")
  /\ UNCHANGED <<store, container, cancel, launch, stop, preserve, seen,
                 absentTicks, recon, lastCmd, hit, evidence, nReconnects,
                 nCrashes>>

\* Report the failure, then stop the container but keep it (#94).
TickDead ==
  /\ tick["health"] = "dead"
  /\ tick' = [tick EXCEPT !["health"] = "stop"]
  /\ Send("failed", "health")
  /\ evidence' = (evidence \/ (container = "exited" /\ ~LaunchInFlight
                               /\ \A u \in Undeploys :
                                     stop[u] = "docker" => preserve[u]))
  /\ UNCHANGED <<store, container, cancel, launch, stop, preserve, seen,
                 absentTicks, recon, lastCmd, hit, nReconnects, nCrashes>>

TickStop ==
  /\ tick["health"] = "stop"
  /\ Docker(AfterDocker(TRUE))
  /\ tick' = [tick EXCEPT !["health"] = "stopDone"]
  /\ Silent
  /\ UNCHANGED <<store, cancel, launch, stop, preserve, seen, absentTicks,
                 recon, lastCmd, hit, evidence, nReconnects, nCrashes>>

TickStopDone ==
  /\ tick["health"] = "stopDone"
  /\ store' = RemoveDeployment
  /\ tick' = [tick EXCEPT !["health"] = "idle"]
  /\ Silent
  /\ UNCHANGED <<container, cancel, launch, stop, preserve, seen,
                 absentTicks, recon, lastCmd, hit, evidence, nReconnects,
                 nCrashes>>

(***************************************************************************)
(* Reconnect.  postRegistrationSetup inspects a tracked rank; anything but *)
(* a running container is reported failed, whatever the entry's flags.     *)
(***************************************************************************)
Reconnect ==
  /\ nReconnects < MaxReconnects
  /\ nReconnects' = nReconnects + 1
  /\ recon' = IF store.tracked THEN "inspect" ELSE recon
  /\ Silent
  /\ UNCHANGED <<store, container, cancel, launch, stop, preserve, tick,
                 seen, absentTicks, lastCmd, hit, evidence, nCrashes>>

Reconcile ==
  /\ recon = "inspect"
  /\ recon' = "idle"
  /\ \/ Inconclusive /\ Silent                          \* skip
     \/ container # "running" /\ Send("failed", "reconcile")
     \/ /\ container = "running"
        /\ IF IsHead THEN \/ Send("starting", "reconcile")        \* phase
                          \/ Silent
                     ELSE Send("running", "reconcile")
  /\ UNCHANGED <<store, container, cancel, launch, stop, preserve, tick, seen,
                 absentTicks, lastCmd, hit, evidence, nReconnects, nCrashes>>

(***************************************************************************)
(* The environment: a container dies or is removed behind the agent's      *)
(* back, and the agent process is restarted (its memory goes, the store    *)
(* and the daemon's containers stay, and it reconciles on connecting).     *)
(***************************************************************************)
ContainerDies ==
  /\ container = "running"
  /\ container' = "exited"
  /\ Silent
  /\ UNCHANGED <<store, cancel, launch, stop, preserve, tick, seen,
                 absentTicks, recon, lastCmd, hit, evidence, nReconnects,
                 nCrashes>>

ContainerVanishes ==
  /\ container = "running"
  /\ container' = "absent"
  /\ Silent
  /\ UNCHANGED <<store, cancel, launch, stop, preserve, tick, seen,
                 absentTicks, recon, lastCmd, hit, evidence, nReconnects,
                 nCrashes>>

\* A docker run cut by the restart may or may not have got through.
AgentCrash ==
  /\ nCrashes < MaxAgentCrashes
  /\ nCrashes' = nCrashes + 1
  /\ container' \in IF \E d \in Deploys : launch[d] \in {"run", "created"}
                      THEN IF container \in {"absent", "created"}
                             THEN {container, "created", "running"}
                             ELSE {container}
                      ELSE {container}
  /\ hit' = (hit \/ LaunchInFlight)
  /\ cancel' = FALSE
  /\ launch' = [d \in Deploys |-> IF InFlight(d) THEN "over" ELSE launch[d]]
  /\ stop' = [u \in Undeploys |-> IF stop[u] = "idle" THEN "idle" ELSE "over"]
  /\ tick' = [t \in Timers |-> "idle"]
  /\ absentTicks' = 0
  /\ recon' = IF store.tracked THEN "inspect" ELSE "idle"
  /\ lastCmd' = "none"
  /\ preserve' = [u \in Undeploys |-> FALSE]
  /\ seen' = [t \in Timers |-> NoEntry]
  /\ Silent
  /\ UNCHANGED <<store, evidence, nReconnects>>

LaunchStep(d) ==
  \/ LaunchRefused(d) \/ LaunchClear(d) \/ LaunchRm(d) \/ LaunchPersist(d)
  \/ LaunchSpawn(d) \/ DockerCreate(d) \/ DockerStart(d) \/ LaunchExit(d)
  \/ LaunchReap(d) \/ LaunchReaped(d)

StopStep(u) == StopDocker(u) \/ StopDone(u)

InspectStep(t) == InspectUnknown(t) \/ InspectAbsent(t) \/ InspectFound(t)

HealthStep == TickAlive \/ TickDead \/ TickStop \/ TickStopDone

TickStep(t) ==
  \/ TickStart(t) \/ InspectStep(t) \/ Capture(t)
  \/ t = "health" /\ HealthStep

Next ==
  \/ \E d \in Deploys : Deploy(d) \/ LaunchStep(d)
  \/ \E u \in Undeploys :
       \/ \E keep \in BOOLEAN : Undeploy(u, keep)
       \/ StopStep(u)
  \/ \E t \in Timers : TickStep(t)
  \/ Reconnect \/ Reconcile
  \/ ContainerDies \/ ContainerVanishes
  \/ AgentCrash

\* Handlers already running go on (one event loop, docker answers), and the
\* timers fire again and again.
Fairness ==
  /\ \A d \in Deploys : WF_vars(LaunchStep(d))
  /\ \A u \in Undeploys : WF_vars(StopStep(u))
  /\ \A t \in Timers : WF_vars(TickStep(t))
  /\ WF_vars(Reconcile)

Spec == Init /\ [][Next]_vars

FairSpec == Spec /\ Fairness
(***************************************************************************)
(* Properties.                                                             *)
(***************************************************************************)

\* runtime/deploy-cancel.ts: once everything has settled after a cmd:undeploy,
\* nothing of this rank is left running, however the stop raced the launch.
\* Assumes ~Overlap and ~DockerFails.
StopWins ==
  Quiescent /\ lastCmd = "undeploy" => container # "running"

\* Once everything has settled, a live container is in the deployment store, so
\* the health tick and the next reconnect can find it.  Excepted are a failure
\* verdict of the health tick that overlapped the launch and an agent restart
\* that cut it: both untrack a container that may still come up.
NoOrphan ==
  Quiescent /\ container = "running" /\ ~hit => store.tracked

\* dgxrun.ts stopDgxrun: once everything has settled after a cmd:undeploy, the
\* deployment store has let go of the rank, even if every docker command failed
\* and whatever the racing launch persisted meanwhile.
StopForgets ==
  Quiescent /\ lastCmd = "undeploy" => ~store.tracked

\* index.ts cmd:undeploy (#94): the container a failure teardown kept is still
\* there after any number of further preserving undeploys, tracked or not.
EvidenceKept == evidence => container = "exited"

Promise == INSTANCE RankPromise
             WITH up <- container = "running", want <- lastCmd,
                  busy <- LaunchInFlight \/ StopInFlight

\* The await-level agent keeps the promise of RankPromise: in particular a rank
\* that has settled after a stop never comes up again by itself, whichever
\* launches, health ticks and reconnects are still under way.
\* Assumes ~Overlap and ~DockerFails.
PromiseKept == Promise!Spec

\* A stop that has been asked for ends with the rank down, unless a new deploy
\* (or an agent restart, which forgets the cancel) comes in between.
UndeployConverges ==
  lastCmd = "undeploy"
    ~> \/ lastCmd # "undeploy"
       \/ container # "running" /\ ~LaunchInFlight
=============================================================================
