--------------------------- MODULE DgxrunCluster ---------------------------
(***************************************************************************)
(* A multi-rank dgxrun deployment as the manager and its agents run it     *)
(* together: the deployment row, the HTTP operations on it, the status     *)
(* handler with its coordinated teardown and name publishing, one          *)
(* WebSocket per node (ordered while it is up, everything in flight lost   *)
(* when it drops), and one rank per agent.                                 *)
(*                                                                         *)
(* A rank is coarser here than in DgxrunRank: a command is one step and    *)
(* the launch window one phase, "starting".                                *)
(*                                                                         *)
(* Sources: packages/server/src/routes/deployments.ts (DELETE, restart),   *)
(* ws/deployment-status-handler.ts, ws/deployment-status.ts,               *)
(* deployments/teardown-decision.ts, deployments/dgxrun-teardown.ts,       *)
(* ws/agent-hub.ts (agent:register, sendToAgent) and                       *)
(* packages/agent/src/index.ts.                                            *)
(***************************************************************************)
EXTENDS Naturals, Sequences

CONSTANTS
  Nodes,      \* the cluster nodes, one rank each
  HeadNode,   \* rank 0, the only rank that serves the API
  Patient,    \* does the operator wait for a delete before restarting?
  MaxOps,     \* bound: DELETE and restart requests
  MaxFaults,  \* bound: failed launches and dying containers
  MaxDrops    \* bound: WebSocket drops

ASSUME ClusterAssumption ==
  /\ HeadNode \in Nodes
  /\ Nodes # {HeadNode}
  /\ Patient \in BOOLEAN
  /\ MaxOps \in Nat
  /\ MaxFaults \in Nat
  /\ MaxDrops \in Nat

VARIABLES
  row,        \* the Deployment row: does it exist, status, is a name published
  pending,    \* the HTTP request that has sent its commands but not yet written
  tasks,      \* per node: what the status handler still has to do for its report
  toAgent,    \* per node: commands on the wire
  toServer,   \* per node: status reports on the wire
  link,       \* per node: is the WebSocket open?
  rank,       \* per node: its rank
  tracked,    \* per node: the deployment is in the agent's store
  told,       \* the head's deployLastStatus
  phaseTold,  \* the head's deployPhaseRank; "starting" is any phase before running
  ready,      \* the head's API answers
  failedFan,  \* a failure was fanned out to every rank since the last drop
              \* and the last fan-out of cmd:deploy
  deleting,   \* a DELETE with delete=true is not confirmed yet
  ops, faults, drops

vars == <<row, pending, tasks, toAgent, toServer, link, rank, tracked, told,
          phaseTold, ready, failedFan, deleting, ops, faults, drops>>

Statuses == {"pending", "starting", "running", "stopping", "stopped",
             "failed", "removing", "restarting"}

Rows == [exists : BOOLEAN, status : Statuses, named : BOOLEAN]

\* After the row update: give it a name, tear every rank down, delete the row.
Tasks == {"publish", "teardown", "erase"}

Deploy == [kind |-> "deploy", delete |-> FALSE, keep |-> FALSE]

Undeploy(delete, keep) == [kind |-> "undeploy", delete |-> delete,
                           keep |-> keep]

Commands == [kind : {"deploy", "undeploy"}, delete : BOOLEAN, keep : BOOLEAN]

StatusReports == [status : Statuses, delete : BOOLEAN]

TypeOK ==
  /\ row \in Rows
  /\ pending \in {"none", "restart", "remove", "erase"}
  /\ tasks \in [Nodes -> SUBSET Tasks]
  /\ toAgent \in [Nodes -> Seq(Commands)]
  /\ toServer \in [Nodes -> Seq(StatusReports)]
  /\ link \in [Nodes -> BOOLEAN]
  /\ rank \in [Nodes -> {"none", "starting", "up", "dead"}]
  /\ tracked \in [Nodes -> BOOLEAN]
  /\ told \in {"none", "starting", "running"}
  /\ phaseTold \in {"none", "starting", "running"}
  /\ ready \in BOOLEAN
  /\ failedFan \in BOOLEAN
  /\ deleting \in BOOLEAN
  /\ ops \in 0..MaxOps
  /\ faults \in 0..MaxFaults
  /\ drops \in 0..MaxDrops

\* POST /api/deployments has created the row and fanned cmd:deploy out.
Init ==
  /\ row = [exists |-> TRUE, status |-> "pending", named |-> FALSE]
  /\ pending = "none"
  /\ tasks = [n \in Nodes |-> {}]
  /\ toAgent = [n \in Nodes |-> <<Deploy>>]
  /\ toServer = [n \in Nodes |-> <<>>]
  /\ link = [n \in Nodes |-> TRUE]
  /\ rank = [n \in Nodes |-> "none"]
  /\ tracked = [n \in Nodes |-> FALSE]
  /\ told = "none"
  /\ phaseTold = "none"
  /\ ready = FALSE
  /\ failedFan = FALSE
  /\ deleting = FALSE
  /\ ops = 0
  /\ faults = 0
  /\ drops = 0

(***************************************************************************)
(* The manager.                                                            *)
(***************************************************************************)

SendHead(cmd) ==                  \* mutant: only the head's agent is told
  [toAgent EXCEPT ![HeadNode] = IF link[HeadNode] THEN Append(@, cmd) ELSE @]

\* sendToAgent for every cluster node: dropped where the socket is not open.
SendAll(cmd) ==
  [n \in Nodes |-> IF link[n] THEN Append(toAgent[n], cmd) ELSE toAgent[n]]

agentVars == <<link, rank, tracked, told, phaseTold, ready, faults, drops>>

\* POST /:id/restart re-fans cmd:deploy; the row is written after an await.
RestartSend ==
  /\ pending = "none" /\ ops < MaxOps /\ row.exists
  /\ Patient => ~deleting
  /\ toAgent' = SendAll(Deploy)
  /\ pending' = "restart"
  /\ ops' = ops + 1
  /\ failedFan' = FALSE
  /\ UNCHANGED <<row, tasks, toServer, deleting, agentVars>>

RestartWrite ==
  /\ pending = "restart"
  /\ pending' = "none"
  /\ row' = IF row.exists
              THEN [row EXCEPT !.status = "restarting", !.named = FALSE]
              ELSE row
  /\ UNCHANGED <<tasks, toAgent, toServer, failedFan, deleting, ops,
                 agentVars>>

TerminalStatuses == {"stopped", "failed"}

\* DELETE /:id on a live deployment: cmd:undeploy to every rank, row later.
RemoveSend(delete) ==
  /\ pending = "none" /\ ops < MaxOps /\ row.exists
  /\ ~(delete /\ row.status \in TerminalStatuses)
  /\ toAgent' = SendAll(Undeploy(delete, FALSE))
  /\ pending' = "remove"
  /\ deleting' = (deleting \/ delete)
  /\ ops' = ops + 1
  /\ UNCHANGED <<row, tasks, toServer, failedFan, agentVars>>

RemovingStatus == "removing"

RemoveWrite ==
  /\ pending = "remove"
  /\ pending' = "none"
  /\ row' = IF row.exists THEN [row EXCEPT !.status = RemovingStatus] ELSE row
  /\ UNCHANGED <<tasks, toAgent, toServer, failedFan, deleting, ops,
                 agentVars>>

\* DELETE /:id?delete=true on a terminal row: tell whoever is online to drop
\* its state, and delete the row without waiting for an answer.
EraseSend ==
  /\ pending = "none" /\ ops < MaxOps /\ row.exists
  /\ row.status \in TerminalStatuses
  /\ toAgent' = SendAll(Undeploy(FALSE, FALSE))
  /\ pending' = "erase"
  /\ deleting' = TRUE
  /\ ops' = ops + 1
  /\ UNCHANGED <<row, tasks, toServer, failedFan, agentVars>>

NoRow == [exists |-> FALSE, status |-> "stopped", named |-> FALSE]

EraseWrite ==
  /\ pending = "erase"
  /\ pending' = "none"
  /\ row' = NoRow
  /\ deleting' = FALSE
  /\ UNCHANGED <<tasks, toAgent, toServer, failedFan, ops, agentVars>>

\* deploymentStatusUpdate: the name goes with the serving lifetime.
StatusUpdate(r, status) ==
  [r EXCEPT !.status = status,
            !.named = @ /\ status \notin {"stopped", "failed"}]

FollowUpNoTeardown(r) ==          \* mutant: a failed rank is only recorded
  IF r.status = "running" THEN {"publish"}
  ELSE IF r.status = "stopped" /\ r.delete THEN {"erase"} ELSE {}

\* handleDeploymentStatus, up to its first await after the row update.  A
\* report for a row that is gone is dropped.
FollowUp(r) ==
  IF r.status = "running" THEN {"publish"}
  ELSE IF r.status = "failed" THEN {"teardown"}
  ELSE IF r.status = "stopped" /\ r.delete THEN {"erase"} ELSE {}

HandleReport(n) ==
  /\ toServer[n] # <<>>
  /\ toServer' = [toServer EXCEPT ![n] = Tail(@)]
  /\ IF row.exists
       THEN /\ row' = StatusUpdate(row, Head(toServer[n]).status)
            /\ tasks' = [tasks EXCEPT ![n] = @ \cup FollowUp(Head(toServer[n]))]
       ELSE UNCHANGED <<row, tasks>>
  /\ UNCHANGED <<pending, toAgent, failedFan, deleting, ops, agentVars>>

Done(n, task) ==
  /\ task \in tasks[n]
  /\ tasks' = [tasks EXCEPT ![n] = @ \ {task}]

\* publishName: the runtime has answered and the name is stored, without
\* looking at the row's status again.
PublishName(n) ==
  /\ Done(n, "publish")
  /\ row' = IF row.exists THEN [row EXCEPT !.named = TRUE] ELSE row
  /\ UNCHANGED <<pending, toAgent, toServer, failedFan, deleting, ops,
                 agentVars>>

AllLinked == \A n \in Nodes : link[n]

\* coordinatedDgxrunTeardown: one failed rank takes every rank down, keeping
\* the containers for inspection.
Teardown(n) ==
  /\ Done(n, "teardown")
  /\ IF row.exists
       THEN toAgent' = SendAll(Undeploy(FALSE, TRUE)) /\ failedFan' = AllLinked
       ELSE UNCHANGED <<toAgent, failedFan>>
  /\ UNCHANGED <<row, pending, toServer, deleting, ops, agentVars>>

\* Auto-delete after the confirmed stop.
DeleteConfirmed(n) ==
  /\ Done(n, "erase")
  /\ row' = NoRow
  /\ deleting' = FALSE
  /\ UNCHANGED <<pending, toAgent, toServer, failedFan, ops, agentVars>>

(***************************************************************************)
(* The agents.                                                             *)
(***************************************************************************)
requestVars == <<row, pending, tasks, deleting, ops>>

serverVars == <<requestVars, failedFan>>

Msg(status, delete) == [status |-> status, delete |-> delete]

\* sendMsg: dropped when the socket is closed.
Reply(n, msgs) ==
  toServer' = [toServer EXCEPT ![n] = IF link[n] THEN @ \o msgs ELSE @]

\* phaseRank of what the head has announced last.
PhaseRank == [none |-> 0, starting |-> 1, running |-> 2]

\* reportPhase: forward only; an announcement that is not is dropped.
ReportPhase(phase) ==
  IF PhaseRank[phase] > PhaseRank[phaseTold]
  THEN phaseTold' = phase /\ Reply(HeadNode, <<Msg(phase, FALSE)>>)
  ELSE UNCHANGED <<toServer, phaseTold>>

\* cmd:deploy replaces the rank's container.  Only the head announces it.
DoDeploy(n) ==
  /\ rank' = [rank EXCEPT ![n] = "starting"]
  /\ tracked' = [tracked EXCEPT ![n] = TRUE]
  /\ ready' = FALSE
  /\ IF n = HeadNode THEN ReportPhase("starting")
     ELSE UNCHANGED <<toServer, phaseTold>>

StoppedReplyForgets(cmd) == Msg("stopped", FALSE)  \* mutant: no deleteAfter

StoppedReply(cmd) == Msg("stopped", cmd.delete)

\* cmd:undeploy tears the rank down (a launch in flight is reaped), untracks
\* it and confirms.
DoUndeploy(n, cmd) ==
  /\ rank' = [rank EXCEPT ![n] =
                IF cmd.keep /\ @ \in {"up", "dead"} THEN "dead" ELSE "none"]
  /\ tracked' = [tracked EXCEPT ![n] = FALSE]
  /\ ready' = FALSE
  /\ phaseTold' = IF n = HeadNode THEN "none" ELSE phaseTold
  /\ Reply(n, <<Msg("stopping", FALSE), StoppedReply(cmd)>>)

HandleCommand(n) ==
  /\ toAgent[n] # <<>>
  /\ toAgent' = [toAgent EXCEPT ![n] = Tail(@)]
  /\ \/ Head(toAgent[n]).kind = "deploy" /\ DoDeploy(n)
     \/ Head(toAgent[n]).kind = "undeploy" /\ DoUndeploy(n, Head(toAgent[n]))
  /\ UNCHANGED <<link, told, faults, drops, serverVars>>

LaunchSucceeds(n) ==
  /\ rank[n] = "starting"
  /\ rank' = [rank EXCEPT ![n] = "up"]
  /\ UNCHANGED <<toAgent, toServer, link, tracked, told, phaseTold, ready,
                 faults, drops, serverVars>>

LaunchFails(n) ==
  /\ rank[n] = "starting"
  /\ faults < MaxFaults
  /\ faults' = faults + 1
  /\ rank' = [rank EXCEPT ![n] = "none"]
  /\ Reply(n, <<Msg("failed", FALSE)>>)
  /\ UNCHANGED <<toAgent, link, tracked, told, phaseTold, ready,
                 drops, serverVars>>

\* The mp executor serves once every rank has joined.
BecomeReady ==
  /\ ~ready
  /\ \A n \in Nodes : rank[n] = "up"
  /\ ready' = TRUE
  /\ UNCHANGED <<toAgent, toServer, link, rank, tracked, told, phaseTold,
                 faults, drops, serverVars>>

RankDies(n) ==
  /\ rank[n] = "up"
  /\ faults < MaxFaults
  /\ faults' = faults + 1
  /\ rank' = [rank EXCEPT ![n] = "dead"]
  /\ ready' = FALSE
  /\ UNCHANGED <<toAgent, toServer, link, tracked, told, phaseTold,
                 drops, serverVars>>

\* The health tick on a dead rank, head or worker: report, stop, untrack.
TickDead(n) ==
  /\ link[n] /\ tracked[n] /\ rank[n] = "dead"
  /\ Reply(n, <<Msg("failed", FALSE)>>)
  /\ tracked' = [tracked EXCEPT ![n] = FALSE]
  /\ told' = IF n = HeadNode THEN "none" ELSE told
  /\ UNCHANGED <<toAgent, link, rank, phaseTold, ready, faults,
                 drops, serverVars>>

\* The health tick on the head's live rank: shouldReportStatus lets a change of
\* status through, and a change of the memory in use (here: at most one such
\* repeat on the wire).
TickHead ==
  LET status == IF ready THEN "running" ELSE "starting"
  IN /\ link[HeadNode] /\ tracked[HeadNode] /\ rank[HeadNode] = "up"
     /\ told # status \/ toServer[HeadNode] = <<>>
     /\ told' = status
     /\ Reply(HeadNode, <<Msg(status, FALSE)>>)
     /\ UNCHANGED <<toAgent, link, rank, tracked, phaseTold, ready, faults,
                    drops, serverVars>>

\* "Application startup complete" in the head's log.
LogReady ==
  /\ ready
  /\ ReportPhase("running")
  /\ UNCHANGED <<toAgent, link, rank, tracked, told, ready, faults, drops,
                 serverVars>>

(***************************************************************************)
(* The WebSocket.                                                          *)
(***************************************************************************)
LinkDown(n) ==
  /\ link[n] /\ drops < MaxDrops
  /\ drops' = drops + 1
  /\ link' = [link EXCEPT ![n] = FALSE]
  /\ toAgent' = [toAgent EXCEPT ![n] = <<>>]
  /\ toServer' = [toServer EXCEPT ![n] = <<>>]
  /\ failedFan' = FALSE
  /\ UNCHANGED <<rank, tracked, told, phaseTold, ready, faults, requestVars>>

\* reconcileDgxrunAction for a tracked rank: not running is failed; a live
\* worker says running; a live head re-announces "starting", which reportPhase
\* drops because its cmd:deploy has announced at least that.
ReconcileReport(n) ==
  IF ~tracked[n] THEN <<>>
  ELSE IF rank[n] # "up" THEN <<Msg("failed", FALSE)>>
  ELSE IF n # HeadNode THEN <<Msg("running", FALSE)>> ELSE <<>>

\* agent:register on the manager.  publishNamesForNode: a deployment that is
\* serving on this (head) node and has no name is given one.
Registered(n) ==
  IF n = HeadNode /\ row.exists /\ row.status = "running" /\ ~row.named
    THEN [tasks EXCEPT ![n] = @ \cup {"publish"}] ELSE tasks

LinkUp(n) ==
  /\ ~link[n]
  /\ link' = [link EXCEPT ![n] = TRUE]
  /\ tasks' = Registered(n)
  /\ \/ toServer' = [toServer EXCEPT ![n] = ReconcileReport(n)]
     \/ UNCHANGED toServer            \* docker inspect did not answer
  /\ UNCHANGED <<toAgent, rank, tracked, told, phaseTold, ready, faults, drops,
                 row, pending, deleting, ops, failedFan>>

FollowUpStep(n) == PublishName(n) \/ Teardown(n) \/ DeleteConfirmed(n)

Server ==
  \/ RestartWrite \/ RemoveWrite \/ EraseWrite
  \/ \E n \in Nodes : HandleReport(n) \/ FollowUpStep(n)

LaunchEnds(n) == LaunchSucceeds(n) \/ LaunchFails(n)

AgentStep(n) == HandleCommand(n) \/ LaunchEnds(n) \/ TickDead(n)

Next ==
  \/ RestartSend \/ EraseSend
  \/ \E delete \in BOOLEAN : RemoveSend(delete)
  \/ Server
  \/ \E n \in Nodes :
       AgentStep(n) \/ RankDies(n) \/ LinkDown(n) \/ LinkUp(n)
  \/ BecomeReady \/ LogReady \/ TickHead

\* The manager's handlers run, agents handle commands and their timers fire,
\* a launch ends one way or the other, and an agent reconnects.
Fairness ==
  /\ WF_vars(RestartWrite \/ RemoveWrite \/ EraseWrite)
  /\ \A n \in Nodes : /\ WF_vars(HandleCommand(n))
                       /\ WF_vars(LaunchEnds(n))
                       /\ WF_vars(TickDead(n))
                       /\ WF_vars(LinkUp(n))
                       /\ WF_vars(HandleReport(n))
                       /\ WF_vars(FollowUpStep(n))

Spec == Init /\ [][Next]_vars

FairSpec == Spec /\ Fairness

(***************************************************************************)
(* Properties.                                                             *)
(***************************************************************************)

\* Nothing is on the wire and no request is half done.
Drained ==
  /\ pending = "none"
  /\ \A n \in Nodes :
       toAgent[n] = <<>> /\ toServer[n] = <<>> /\ tasks[n] = {}

Live(n) == rank[n] \in {"starting", "up"}

\* deployments/teardown-decision.ts: once a failure of ANY rank was fanned out
\* over open sockets and everything has drained, EVERY rank is down.
TeardownComplete ==
  Drained /\ failedFan => \A n \in Nodes : ~Live(n)

\* routes/deployments.ts DELETE: when the row is gone and everything has
\* drained, no rank is left behind with nothing pointing at it.
RowGoneMeansDown ==
  Drained /\ drops = 0 /\ ~row.exists => \A n \in Nodes : ~Live(n)

\* A delete=true request is carried through, whatever failure or restart races
\* it: when everything has drained the row is gone.
DeleteCarriedThrough == Drained /\ drops = 0 => ~deleting

\* A dead rank, head or worker, leads to every rank being down once every
\* socket is open, even if it died while its agent was disconnected, unless a
\* further request or another drop intervenes.
FailureTearsDown ==
  \A k \in 0..MaxOps, j \in 0..MaxDrops :
    (/\ ops = k /\ drops = j /\ row.exists /\ AllLinked
     /\ \A n \in Nodes : toAgent[n] = <<>>
     /\ \E n \in Nodes : rank[n] = "dead" /\ tracked[n])
      ~> (ops > k \/ drops > j \/ \A n \in Nodes : ~Live(n))
=============================================================================
