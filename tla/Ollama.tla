------------------------------- MODULE Ollama -------------------------------
(***************************************************************************)
(* The Ollama deployments of one node: the manager's rows, the agent that  *)
(* pulls, loads and unloads their models, its reconcile after a reconnect, *)
(* its health tick, and the ollama service with the models it holds.       *)
(*                                                                         *)
(* The agent keeps an Ollama deployment in three places that have to agree *)
(* without a lock: activeDeployments (memory), deployments.json (disk) and *)
(* the row the manager believes. Every await of the handlers is a step.    *)
(* A command is numbered when it is sent, and its handler then runs as     *)
(* task[number] beside the others.                                         *)
(*                                                                         *)
(* Sources: packages/agent/src/runtime/{ollama,ollama-reconcile}.ts, the   *)
(* reconcile, the health tick and the cmd:deploy and cmd:undeploy cases of *)
(* packages/agent/src/index.ts, packages/server/src/routes/deployments.ts  *)
(* and the agent:ollama-status case of packages/server/src/ws/agent-hub.ts *)
(***************************************************************************)
EXTENDS Naturals, FiniteSets

CONSTANTS
  Deps,          \* Ollama deployments of the node
  Models,        \* the models they serve
  ModelOf,       \* config.modelName of each
  MaxCmds,       \* bound: deploy, restart and undeploy commands
  MaxFaults,     \* bound: agent restarts, socket losses, failed calls
  MaxMoves       \* bound: loads and evictions the agent did not ask for

ASSUME OllamaAssumption ==
  /\ IsFiniteSet(Deps)
  /\ ModelOf \in [Deps -> Models]
  /\ {MaxCmds, MaxFaults, MaxMoves} \subseteq Nat

VARIABLES
  row,      \* Deployment.status; "none" before the POST, "gone" once deleted
  wipe,     \* rows whose deletion the agent was asked to confirm
  hub,      \* updates an agent:ollama-status handler has still to write
  link,     \* the agent's socket delivers; if not, it is closed or half open
  lost,     \* deployments a command of which was lost, or died with the agent
  task,     \* the handler of each command: its deployment, place, abort signal
  ctl,      \* activeAbortControllers: the command that owns the controller
  active,   \* activeDeployments
  store,    \* deployments.json: none, kept, or stopping
  last,     \* ollamaLastState
  look,     \* the tick's reading of /api/ps it has not used yet: dep, loaded
  pending,  \* ollamaPendingRestores
  rec,      \* the reconcile loop: where it is, what is left, the current one
  service,  \* the ollama service: down, queued (systemd job), up
  loaded,   \* models in Ollama's /api/ps
  fresh,    \* history: deployments whose model was resident since their last
            \* deploy, or read as resident by a tick that deploy overtook
  budget    \* requests, faults and moves so far

vars == <<row, wipe, hub, link, lost, task, ctl, active, store, last, look,
          pending, rec, service, loaded, fresh, budget>>

manager == <<row, wipe, hub>>
memory  == <<task, ctl, active, last, look, pending, rec>>
ollama  == <<service, loaded, fresh>>

Terminal == {"stopped", "failed", "evicted"}

Reported == {"starting", "downloading", "loading", "running", "evicted",
             "failed", "stopping", "stopped"}

Rows == Reported \cup {"none", "gone", "pending", "restarting", "removing"}

Resident(d) == ModelOf[d] \in loaded

Idle == [at |-> "off", todo |-> {}, dep |-> "none"]

NoLook == [dep |-> "none", loaded |-> FALSE]

Ids == 1..MaxCmds

NoTask == [at |-> "over", dep |-> "none", del |-> FALSE, aborted |-> FALSE]

\* Something goes wrong.
Fault ==
  /\ budget.faults < MaxFaults
  /\ budget' = [budget EXCEPT !.faults = @ + 1]

\* handleDeploymentStatus: the row takes whatever status is reported, and a
\* confirmed stop deletes it when that was asked for.
Handled(d, s, del) ==
  IF row[d] = "gone" THEN row
  ELSE [row EXCEPT ![d] = IF s = "stopped" /\ del THEN "gone" ELSE s]

\* sendMsg agent:deployment:status: nothing tells the agent of a loss.
Tell(d, s, del) ==
  IF link THEN row' = Handled(d, s, del) ELSE UNCHANGED row

\* The agent has just started, perhaps with deployments of an earlier life:
\* the service may have survived (agent restart) or not (node reboot).
Init ==
  /\ \E old \in SUBSET Deps :
       /\ row = [d \in Deps |-> IF d \in old THEN "running" ELSE "none"]
       /\ store = [d \in Deps |-> IF d \in old THEN "kept" ELSE "none"]
       /\ \/ service = "down" /\ loaded = {}
          \/ service = "up" /\ loaded = {ModelOf[d] : d \in old}
  /\ wipe = {} /\ hub = {}
  /\ link = FALSE /\ lost = {}
  /\ task = [i \in Ids |-> NoTask]
  /\ ctl = [d \in Deps |-> 0]
  /\ active = {} /\ pending = {} /\ fresh = Deps
  /\ last = [d \in Deps |-> "none"]
  /\ look = NoLook
  /\ rec = Idle
  /\ budget = [cmds |-> 0, faults |-> 0, moves |-> 0]

-----------------------------------------------------------------------------
(* The manager's requests. Each sends one command and writes the row in the *)
(* same turn. The command reaches the agent then, whose first report takes  *)
(* the row on at once, or it is lost.                                       *)

\* mutant: the state of the previous cycle is kept
KeepLast(d) == last

\* ollamaLastState.delete: the health tick starts a new cycle.
ResetLast(d) == [last EXCEPT ![d] = "none"]

\* deployModel up to its first await: tracked, stored, abortable.
DeployModel(d, i) ==
  /\ active' = active \cup {d}
  /\ store' = [store EXCEPT ![d] = "kept"]
  /\ ctl' = [ctl EXCEPT ![d] = i]
  /\ task' = [task EXCEPT ![i] = [NoTask EXCEPT !.at = "ensure", !.dep = d]]

\* A tick has read the model as loaded and is about to compare that with
\* ollamaLastState: to the deploy that resets it in between, it will look as if
\* the model of its own cycle had been seen.
Overtaken(d) == look.dep = d /\ look.loaded

\* cmd:deploy, runtime ollama.
CmdDeploy(d, i) ==
  /\ last' = ResetLast(d)
  /\ DeployModel(d, i)
  /\ fresh' = IF Resident(d) \/ Overtaken(d) THEN fresh \cup {d} ELSE fresh \ {d}

\* cmd:undeploy, runtime ollama: the stopping mark, then stopModel aborts
\* the pull and asks for the unload.
CmdUndeploy(d, i, del) ==
  /\ store' = [store EXCEPT ![d] = IF @ = "none" THEN @ ELSE "stopping"]
  /\ ctl' = [ctl EXCEPT ![d] = 0]
  /\ LET signalled == IF ctl[d] = 0 \/ task[ctl[d]].at = "over" THEN task
                      ELSE [task EXCEPT ![ctl[d]].aborted = TRUE]
     IN  task' = [signalled EXCEPT ![i] =
                    [at |-> "unload", dep |-> d, del |-> del, aborted |-> FALSE]]
  /\ UNCHANGED <<last, active, fresh>>

\* sendToAgent writes to the socket it has, and its result is not looked at.
Request(d, to, heard, handler) ==
  /\ budget.cmds < MaxCmds
  /\ budget' = [budget EXCEPT !.cmds = @ + 1]
  /\ IF link
     THEN /\ handler
          /\ row' = [row EXCEPT ![d] = IF to = "gone" THEN to ELSE heard]
          /\ UNCHANGED lost
     ELSE /\ row' = [row EXCEPT ![d] = to]
          /\ lost' = lost \cup {d}
          /\ UNCHANGED <<task, ctl, last, active, store, fresh>>
  /\ UNCHANGED <<hub, link, look, pending, rec, service, loaded>>

Number == budget.cmds + 1

\* POST /api/deployments with runtime "ollama".
Create(d) ==
  /\ row[d] = "none"
  /\ wipe' = wipe
  /\ Request(d, "pending", "starting", CmdDeploy(d, Number))

\* POST /:id/restart: any row, in any status (the operator does not restart
\* what is being deleted; DgxrunCluster has that race).
Restart(d) ==
  /\ row[d] \notin {"none", "gone"} /\ d \notin wipe
  /\ wipe' = wipe
  /\ Request(d, "restarting", "starting", CmdDeploy(d, Number))

\* DELETE /:id, with the row kept.
Stop(d) ==
  /\ row[d] \notin {"none", "gone"}
  /\ wipe' = wipe
  /\ Request(d, "removing", "stopping", CmdUndeploy(d, Number, FALSE))

\* DELETE /:id?delete=true: a row in a terminal status goes at once.
Delete(d) ==
  /\ row[d] \notin {"none", "gone"}
  /\ IF row[d] \in Terminal
     THEN /\ wipe' = wipe
          /\ Request(d, "gone", "stopping", CmdUndeploy(d, Number, FALSE))
     ELSE /\ wipe' = IF link THEN wipe \cup {d} ELSE wipe
          /\ Request(d, "removing", "stopping", CmdUndeploy(d, Number, TRUE))

-----------------------------------------------------------------------------
(* agent:ollama-status.                                                     *)

\* The status an agent:ollama-status report gives a row: a resident model is
\* running, an absent one evicted. vramActual is 0 in every evicted row.
Believed(d, models) ==
  IF ModelOf[d] \in models THEN "running" ELSE "evicted"

\* mutant: evicted rows are not looked at again
CorrectionsOfRunning(models) ==
  {<<d, "evicted">> :
     d \in {e \in Deps : row[e] = "running" /\ ModelOf[e] \notin models}}

\* agent:ollama-status: findMany over the node's running and evicted rows,
\* and the updates the loop is going to write.
Corrections(models) ==
  {<<d, Believed(d, models)>> :
     d \in {e \in Deps : /\ row[e] \in {"running", "evicted"}
                        /\ row[e] # Believed(e, models)}}

\* One of its updates; that of a deleted row throws and ends the handler.
HubPsWrite ==
  /\ \E w \in hub :
       IF row[w[1]] = "gone" THEN row' = row /\ hub' = {}
       ELSE row' = [row EXCEPT ![w[1]] = w[2]] /\ hub' = hub \ {w}
  /\ UNCHANGED <<wipe, link, lost, memory, store, ollama, budget>>

-----------------------------------------------------------------------------
(* deployModel, and the reports of its caller.                              *)

\* The catch of deployModel; its caller reports the same failure once more.
Fail(i) ==
  LET d == task[i].dep IN
  /\ active' = active \ {d}
  /\ store' = [store EXCEPT ![d] = "none"]
  /\ task' = [task EXCEPT ![i] = NoTask]
  /\ Tell(d, "failed", FALSE)

\* Everything a step of deployModel or stopModel leaves alone.
Aside == <<wipe, hub, link, lost, ctl, last, look, pending, rec, budget>>

\* isOllamaRunning: the API answers.
Reachable == service = "up"

\* ensureOllamaRunning: systemctl start --no-block, then polling.
EnsureStart(i) ==
  /\ task[i].at = "ensure" /\ service = "down"
  /\ service' = "queued"
  /\ UNCHANGED <<Aside, row, task, active, store, loaded, fresh>>

EnsureGivesUp(i) ==
  /\ task[i].at = "ensure" /\ service = "queued"
  /\ Fail(i)
  /\ UNCHANGED <<Aside, ollama>>

\* The service answers: the pull begins, unless it was aborted before.
EnsureDone(i) ==
  /\ task[i].at = "ensure" /\ Reachable
  /\ IF task[i].aborted THEN Fail(i)
     ELSE /\ task' = [task EXCEPT ![i].at = "pull"]
          /\ Tell(task[i].dep, "downloading", FALSE)
          /\ UNCHANGED <<active, store>>
  /\ UNCHANGED <<Aside, ollama>>

\* pullModel: an abort before the response began resolves it, deployModel
\* returns, and its caller reports running for the model it never loaded.
PullDone(i) ==
  /\ task[i].at = "pull" /\ (task[i].aborted \/ service = "up")
  /\ IF task[i].aborted
     THEN /\ task' = [task EXCEPT ![i] = NoTask]
          /\ Tell(task[i].dep, "running", FALSE)
     ELSE /\ task' = [task EXCEPT ![i].at = "load"]
          /\ Tell(task[i].dep, "loading", FALSE)
  /\ UNCHANGED <<Aside, active, store, ollama>>

\* The pull or the load is refused, the service has gone, or the pull was aborted
\* in the middle of the response, which is an error of the response.
CallFails(i) ==
  /\ \/ task[i].at \in {"pull", "load"}
     \/ task[i].at = "verify" /\ (service # "up" \/ ~Resident(task[i].dep))
  /\ Fail(i)
  /\ UNCHANGED <<Aside, ollama>>

\* Deployments that see the model become resident.
Sharing(m) == {d \in Deps : ModelOf[d] = m}

\* /api/chat or /api/embed with keep_alive -1: nothing aborts this call.
Load(i) ==
  /\ task[i].at = "load" /\ service = "up"
  /\ loaded' = loaded \cup {ModelOf[task[i].dep]}
  /\ fresh' = fresh \cup Sharing(ModelOf[task[i].dep])
  /\ task' = [task EXCEPT ![i].at = "verify"]
  /\ UNCHANGED <<Aside, row, active, store, service>>

Verify(i) ==
  /\ task[i].at = "verify" /\ service = "up" /\ Resident(task[i].dep)
  /\ task' = [task EXCEPT ![i] = NoTask]
  /\ Tell(task[i].dep, "running", FALSE)
  /\ UNCHANGED <<Aside, active, store, ollama>>

-----------------------------------------------------------------------------
(* stopModel.                                                               *)

\* keep_alive 0: the model goes, whoever else serves it; a failed call is
\* taken for "already unloaded".
Unload(i) ==
  /\ task[i].at = "unload"
  /\ \/ loaded' = loaded \ {ModelOf[task[i].dep]} /\ UNCHANGED budget
     \/ Fault /\ UNCHANGED loaded
  /\ task' = [task EXCEPT ![i].at = "unloaded"]
  /\ UNCHANGED <<manager, link, lost, ctl, active, store, last, look, pending, rec,
                 service, fresh>>

\* mutant: only the memory is cleared
ForgetInMemory(d) == store

\* removeDeployment at the end of stopModel.
Forget(d) == [store EXCEPT ![d] = "none"]

\* mutant: an undeploy that finds nothing tracked says nothing
ConfirmTracked(i) ==
  IF task[i].dep \in active THEN Tell(task[i].dep, "stopped", task[i].del)
  ELSE UNCHANGED row

\* The report that ends the undeploy carries deleteAfter.
Confirm(i) == Tell(task[i].dep, "stopped", task[i].del)

StopDone(i) ==
  /\ task[i].at = "unloaded"
  /\ active' = active \ {task[i].dep}
  /\ store' = Forget(task[i].dep)
  /\ task' = [task EXCEPT ![i] = NoTask]
  /\ Confirm(i)
  /\ UNCHANGED <<Aside, ollama>>

Task(i) ==
  \/ EnsureStart(i) \/ EnsureGivesUp(i) \/ EnsureDone(i)
  \/ PullDone(i) \/ CallFails(i) \/ Load(i) \/ Verify(i)
  \/ Unload(i) \/ StopDone(i)

-----------------------------------------------------------------------------
(* The reconcile: once per registration, and again from the health tick.    *)

Stored == {d \in Deps : store[d] # "none"}

\* mutant: the list read when the loop began is believed
SnapshotHolds(d) == TRUE

\* The loop reads the store again: an undeploy may have landed meanwhile.
StillThere(d) == store[d] = "kept"

\* trackOllamaDeployment: the memory of a restarted agent is empty.
Track(d) == active \cup {d}

\* The loop up to its next await: what is gone or stopping is passed over, the
\* next one is tracked in memory and the service probed for it.
Advance(todo, failed) ==
  LET there == {d \in todo : StillThere(d)} IN
  IF there = {}
  THEN /\ rec' = Idle
       /\ pending' = failed \ todo
       /\ UNCHANGED active
  ELSE \E d \in there :
         /\ rec' = [Idle EXCEPT !.at = "probe", !.dep = d, !.todo = there \ {d}]
         /\ pending' = failed \ (todo \ there)
         /\ active' = Track(d)

\* reconcileOllamaDeployments: a loop that is already running is not doubled.
\* The node's deployments outside Deps may come first in its list.
Reconcile ==
  IF rec.at # "off" THEN UNCHANGED <<rec, pending, active>>
  ELSE \/ Advance(Stored, pending)
       \/ /\ rec' = [Idle EXCEPT !.at = "others", !.todo = Stored]
          /\ UNCHANGED <<pending, active>>

\* Their probes, restores and reports are over.
RecOthers ==
  /\ rec.at = "others"
  /\ Advance(rec.todo, pending)
  /\ UNCHANGED <<manager, link, lost, task, ctl, store, last, look, ollama, budget>>

\* Serving and idle are reported alike; otherwise startOllama, with the budget
\* of a start that races the boot.
RecProbe ==
  /\ rec.at = "probe"
  /\ IF Reachable
     THEN rec' = [rec EXCEPT !.at = "report"] /\ UNCHANGED service
     ELSE rec' = [rec EXCEPT !.at = "restore"] /\ service' = "queued"
  /\ UNCHANGED <<manager, link, lost, task, ctl, active,
                 store, last, look, pending, loaded, fresh, budget>>

\* What the loop says of its current deployment before it goes on.
RecSays(s, failed) ==
  /\ Tell(rec.dep, s, FALSE)
  /\ Advance(rec.todo, failed)
  /\ UNCHANGED <<wipe, hub, link, lost, task, ctl, store, last, look, ollama, budget>>

RecReport ==
  /\ rec.at = "report" \/ (rec.at = "restore" /\ Reachable)
  /\ RecSays("running", pending \ {rec.dep})

\* The boot budget is spent and the job still queued: failed, and a retry.
RecGivesUp ==
  /\ rec.at = "restore" /\ ~Reachable
  /\ RecSays("failed", pending \cup {rec.dep})

-----------------------------------------------------------------------------
(* The health tick.                                                         *)

\* mutant: a failed restore waits for the next registration
RetryNever == FALSE

\* shouldRetryOllamaReconcile
Retry == pending # {} /\ rec.at = "off"

\* agent:ollama-status reaches the manager, which reads the rows; the retry.
TickBegin ==
  /\ hub = {}
  /\ hub' = IF service = "up" /\ link THEN Corrections(loaded) ELSE {}
  /\ IF Retry THEN Reconcile ELSE UNCHANGED <<rec, pending, active>>
  /\ UNCHANGED <<row, wipe, link, lost, task, ctl, store, last, look, ollama, budget>>

\* decideOllamaStateTransition: "none" when there is nothing to report.
Transition(resident, prev) ==
  CASE ~resident /\ prev = "running" -> "evicted"
    [] resident /\ prev # "running" -> "running"
    [] OTHER -> "none"

\* The eviction loop asks /api/ps for one deployment after the other; a call that
\* fails counts as not loaded.  Nothing comes of an absent model that is not
\* known as running.
TickLook(d) ==
  /\ d \in active /\ look = NoLook
  /\ \/ /\ service = "up" /\ Resident(d)
        /\ look' = [dep |-> d, loaded |-> TRUE]
        /\ UNCHANGED budget
     \/ /\ last[d] = "running"
        /\ look' = [dep |-> d, loaded |-> FALSE]
        /\ IF service = "up" /\ Resident(d) THEN Fault ELSE UNCHANGED budget
  /\ UNCHANGED <<manager, link, lost, task, ctl, active, store, last, pending, rec,
                 ollama>>

\* The answer is compared with ollamaLastState as it is by then.
TickApply ==
  /\ look # NoLook
  /\ look' = NoLook
  /\ LET d == look.dep
         s == Transition(look.loaded, last[d])
     IN  IF s = "none" THEN UNCHANGED <<last, row>>
         ELSE last' = [last EXCEPT ![d] = s] /\ Tell(d, s, FALSE)
  /\ UNCHANGED <<wipe, hub, link, lost, task, ctl, active, store, pending, rec,
                 ollama, budget>>

-----------------------------------------------------------------------------
(* The service, the clients of its models, and the faults.                  *)

\* The queued systemd job runs (ollama.service waits for network-online).
ServiceStarts ==
  /\ service = "queued"
  /\ service' = "up"
  /\ UNCHANGED <<manager, link, lost, memory, store, loaded, fresh, budget>>

\* A client's request loads a model, or Ollama evicts an idle one.
Move(m) ==
  /\ service = "up" /\ budget.moves < MaxMoves
  /\ budget' = [budget EXCEPT !.moves = @ + 1]
  /\ IF m \in loaded THEN loaded' = loaded \ {m} /\ UNCHANGED fresh
     ELSE loaded' = loaded \cup {m} /\ fresh' = fresh \cup Sharing(m)
  /\ UNCHANGED <<manager, link, lost, memory, store, service>>

\* The socket closes, or stops delivering with neither side told (the health
\* tick goes on then).
LinkLoss ==
  /\ link /\ Fault
  /\ link' = FALSE
  /\ UNCHANGED <<manager, lost, memory, store, ollama>>

\* The agent dies, alone or with the node: deployments.json survives.
AgentDies ==
  /\ Fault
  /\ link' = FALSE
  /\ lost' = lost \cup {task[i].dep : i \in {j \in Ids : task[j].at # "over"}}
  /\ task' = [i \in Ids |-> NoTask]
  /\ ctl' = [d \in Deps |-> 0]
  /\ active' = {} /\ pending' = {}
  /\ last' = [d \in Deps |-> "none"]
  /\ look' = NoLook
  /\ rec' = Idle
  /\ \/ UNCHANGED <<service, loaded>>
     \/ service' = "down" /\ loaded' = {}
  /\ UNCHANGED <<manager, store, fresh>>

\* The agent registers again, and postRegistrationSetup reconciles.
Reconnect ==
  /\ ~link
  /\ link' = TRUE
  /\ Reconcile
  /\ UNCHANGED <<manager, lost, task, ctl, store, last, look, ollama, budget>>

-----------------------------------------------------------------------------

Requests == \E d \in Deps : Create(d) \/ Restart(d) \/ Stop(d) \/ Delete(d)

Rec == RecOthers \/ RecProbe \/ RecReport \/ RecGivesUp

Next ==
  \/ Requests \/ HubPsWrite \/ Rec \/ TickBegin
  \/ \E d \in Deps : TickLook(d)
  \/ TickApply
  \/ \E i \in Ids : Task(i)
  \/ \E m \in Models : Move(m)
  \/ ServiceStarts \/ LinkLoss \/ AgentDies \/ Reconnect

Spec == Init /\ [][Next]_vars

\* Timers fire, awaits return (each has a timeout), sockets deliver and are
\* reopened, and systemd runs the job that was queued.
Fairness ==
  /\ WF_vars(HubPsWrite) /\ WF_vars(Rec)
  /\ WF_vars(TickBegin)
  /\ \A i \in Ids : WF_vars(Task(i))
  /\ WF_vars(ServiceStarts) /\ WF_vars(Reconnect)

FairSpec == Spec /\ Fairness

-----------------------------------------------------------------------------
(* Properties.                                                              *)

Handler == [at : {"over", "ensure", "pull", "load", "verify", "unload",
                  "unloaded"},
            dep : Deps \cup {"none"}, del : BOOLEAN, aborted : BOOLEAN]

Loop == [at : {"off", "others", "probe", "report", "restore"},
         todo : SUBSET Deps, dep : Deps \cup {"none"}]

\* Every variable has its shape, and a handler or loop under way its deployment.
TypeOK ==
  /\ row \in [Deps -> Rows]
  /\ wipe \subseteq Deps /\ lost \subseteq Deps
  /\ hub \subseteq Deps \X {"running", "evicted"}
  /\ link \in BOOLEAN
  /\ task \in [Ids -> Handler]
  /\ \A i \in Ids : task[i].at # "over" => task[i].dep \in Deps
  /\ ctl \in [Deps -> 0..MaxCmds]
  /\ active \subseteq Deps /\ pending \subseteq Deps /\ fresh \subseteq Deps
  /\ store \in [Deps -> {"none", "kept", "stopping"}]
  /\ last \in [Deps -> {"none", "running", "evicted"}]
  /\ look \in [dep : Deps, loaded : BOOLEAN] \cup {NoLook}
  /\ rec \in Loop
  /\ rec.at \in {"probe", "report", "restore"} => rec.dep \in Deps
  /\ service \in {"down", "queued", "up"}
  /\ loaded \subseteq Models
  /\ budget \in [cmds : Nat, faults : Nat, moves : Nat]

\* What the agent tracks it has on disk: the reconcile never re-registers a
\* deployment that was torn down while the loop waited for another one, which
\* would leave the health loop reporting on it for ever (index.ts:265-268).
NoGhost == active \subseteq Stored

\* No handler of d is under way, and no command of it was lost.
Settled(d) ==
  /\ d \notin lost
  /\ \A i \in Ids : task[i].dep # d

\* Once a row is deleted and its undeploy has run, nothing on the node would
\* bring the deployment back: neither the memory the tick reads nor the store
\* the next reconcile reads has it (ollama.ts:309-313).
GoneIsForgotten ==
  \A d \in Deps : row[d] = "gone" /\ Settled(d) => d \notin active \cup Stored

\* The health tick calls a model evicted only if it was resident since the
\* last deploy: the load of a restart is not taken for an eviction
\* (index.ts:936-938).  The exception is a restart that lands between a tick's
\* reading of the model as loaded and the comparison: the tick then files
\* "running" for the new cycle, and the load may be called an eviction after all
\* (fresh counts what that tick saw).
NoFalseEviction == \A d \in Deps : last[d] = "evicted" => d \in fresh

\* With the service up, a row that says running while its model is not
\* resident, or evicted while it is, is corrected by a later tick, whatever
\* report was lost or overtaken (agent-hub.ts:457-490).
RowFollowsMemory ==
  \A d \in Deps :
    (service = "up" /\ row[d] = (IF Resident(d) THEN "evicted" ELSE "running"))
      ~> (\/ service # "up" \/ row[d] \notin {"running", "evicted"}
          \/ row[d] = (IF Resident(d) THEN "running" ELSE "evicted"))

\* A restore that failed at boot is retried until it succeeds, without a new
\* registration, unless the deployment is undeployed (ollama-reconcile.ts).
RestoreHeals ==
  \A d \in Deps : (d \in pending) ~> (d \notin pending \/ store[d] # "kept")

\* A row the operator deleted disappears, also when the undeploy had to stop
\* a pull or a load, unless a connection or the agent is lost on the way.
DeleteEnds ==
  \A d \in Deps : (d \in wipe) ~> (row[d] = "gone" \/ budget.faults > 0)
=============================================================================
