------------------------------ MODULE FineTune ------------------------------
(***************************************************************************)
(* One fine-tuning job: the manager's rows (the job, its Model and the     *)
(* Model's Deployment), the head agent that trains, merges, quantizes and  *)
(* serves it, and the containers on the head and on the workers.           *)
(*                                                                         *)
(* The agent runs docker and ssh synchronously, so one of its handlers is  *)
(* one step up to its next await; the awaits are the image build, the wait *)
(* for the container, the wait for each worker and the training itself.    *)
(* The manager has one database connection, so a row update issued in the  *)
(* same turn as a sendToAgent takes effect before the agent's answer; the  *)
(* two are one step here.                                                  *)
(*                                                                         *)
(* Sources: packages/server/src/routes/finetune.ts,                        *)
(* packages/agent/src/runtime/{finetune,finetune-quantize}.ts, the         *)
(* cmd:finetune:* cases of packages/agent/src/index.ts and the             *)
(* agent:finetune:* cases of packages/server/src/ws/agent-hub.ts.          *)
(***************************************************************************)
EXTENDS Naturals, Sequences, FiniteSets

CONSTANTS
  Workers,       \* the worker nodes of the job (none for a single-node job)
  Patient,       \* the operator waits for one request, and one stage, to end
  MaxFaults,     \* bound: agent restarts, socket losses, removals that fail
  MaxRenames,    \* bound: PATCH requests that change the name
  MaxCmds,       \* bound: commands under way to the agent
  MaxMsgs        \* bound: reports under way when a request is made

ASSUME FineTuneAssumption ==
  /\ IsFiniteSet(Workers) /\ "head" \notin Workers
  /\ Patient \in BOOLEAN
  /\ {MaxFaults, MaxRenames, MaxCmds, MaxMsgs}
       \subseteq Nat

VARIABLES
  status,    \* FineTuneJob.status; "none" before the POST, "gone" after DELETE
  merge,     \* FineTuneJob.mergeStatus
  quant,     \* FineTuneJob.quantizationStatus
  name,      \* FineTuneJob.displayName: stable (null), chosen, or taken elsewhere
  model,     \* the linked Model's name, or "none"
  dep,       \* the Model's Deployment: none, active, terminal
  creating,  \* the POST has created the row and not yet sent the command
  deploying, \* a deploy request under way, and the name it read
  restarting,\* a restart of the Deployment has read its row and sent nothing yet
  deleting,  \* a DELETE under way, and what it read
  resumed,   \* the job continues an earlier one and shares its outputDir
  link,      \* the agent's socket is open
  cmds,      \* commands on their way to the agent
  msgs,      \* reports on their way to the manager
  launch,    \* where startFinetuneJob is
  aborted,   \* instance.aborted
  tracked,   \* running has the job under its full id
  head,      \* the head's training container: absent, up, training, done, broken
  works,     \* worker containers that exist
  dead,      \* those of them that have exited
  todo,      \* workers the launch has not started yet
  tail,      \* reattached log followers: a subset of {"train", "merge"}
  merger,    \* merge process: none, tracked by the agent, or orphan
  quantizer, \* quantize process: none, tracked, or orphan
  files,     \* artifacts that are whole on the shared storage
  serving,   \* the agent has launched the deployment
  ended,     \* a report that the deployment has ended is under way
  unreached, \* hosts on which a removal failed
  restarts,
  drops,
  renames,
  erased,    \* history: DELETE removed the output directory
  crossed    \* history: a start of the deployment crossed its end, or a restart
             \* of it the DELETE of the job

jobVars == <<status, merge, quant, name, model, dep, creating,
             deploying, deleting>>
netVars == <<link, cmds, msgs, drops>>
runVars == <<launch, aborted, tracked, head, works, dead, todo, tail>>
artVars == <<merger, quantizer, files, serving, erased>>
depVars == <<restarting, ended, crossed>>
cntVars == <<resumed, unreached, restarts, renames, depVars>>

vars == <<jobVars, netVars, runVars, artVars, cntVars>>

Idle == [at |-> "idle"]

\* The hosts with a container of the job.
Hosts == Workers \cup {"head"}

\* A report: which stage, its outcome, and whether it carries the full job id.
Report(stage, result, whole) == [stage |-> stage, result |-> result,
                                 whole |-> whole]

Names == {"stable", "chosen", "taken"}

Statuses == {"none", "pending", "starting", "stopping", "completed", "failed",
             "stopped", "gone"}

Commands == {"start", "stop", "merge", "quantize", "deploy"}

Reports ==
  [stage : {"train"}, result : {"completed", "failed", "stopped"},
   whole : BOOLEAN] \cup
  [stage : {"merge", "quantize"}, result : {"completed", "failed"},
   whole : BOOLEAN]

JobTypeOK ==
  /\ status \in Statuses
  /\ merge \in {"null", "running", "completed", "failed"}
  /\ quant \in {"null", "quantizing", "quantized", "failed"}
  /\ name \in Names
  /\ model \in Names \cup {"none"}
  /\ dep \in {"none", "active", "terminal"}
  /\ creating \in BOOLEAN
  /\ deploying \in {Idle, [at |-> "create"], [at |-> "send"]}
                     \cup [at : {"upsert"}, name : Names]
  /\ deleting \in {Idle, [at |-> "row"]} \cup
                  [at : {"sweep"}, status : Statuses, swept : BOOLEAN]

NetTypeOK ==
  /\ link \in BOOLEAN
  /\ cmds \in Seq(Commands)
  /\ msgs \in Seq(Reports)
  /\ drops \in Nat

RunTypeOK ==
  /\ launch \in {"none", "build", "ready", "workers", "training"}
  /\ aborted \in BOOLEAN
  /\ tracked \in BOOLEAN
  /\ head \in {"absent", "up", "training", "done", "broken"}
  /\ works \subseteq Workers
  /\ dead \subseteq works
  /\ todo \subseteq Workers
  /\ tail \subseteq {"train", "merge"}

ArtTypeOK ==
  /\ merger \in {"none", "tracked", "orphan"}
  /\ quantizer \in {"none", "tracked", "orphan"}
  /\ files \subseteq {"adapter", "merged", "fp8"}
  /\ serving \in BOOLEAN
  /\ erased \in BOOLEAN

CntTypeOK ==
  /\ resumed \in BOOLEAN
  /\ unreached \subseteq Hosts
  /\ restarts \in Nat
  /\ renames \in 0 .. MaxRenames
  /\ restarting \in BOOLEAN /\ ended \in BOOLEAN /\ crossed \in BOOLEAN

\* Every variable has its type.
TypeOK == JobTypeOK /\ NetTypeOK /\ RunTypeOK /\ ArtTypeOK /\ CntTypeOK

Init ==
  /\ status = "none" /\ merge = "null" /\ quant = "null"
  /\ name = "stable"   \* a name given in the POST is one given by a PATCH after it
  /\ model = "none" /\ dep = "none"
  /\ creating = FALSE /\ deploying = Idle /\ deleting = Idle
  /\ resumed \in BOOLEAN
  /\ link = TRUE /\ cmds = <<>> /\ msgs = <<>>
  /\ launch = "none" /\ aborted = FALSE /\ tracked = FALSE
  /\ head = "absent" /\ works = {} /\ dead = {} /\ todo = {} /\ tail = {}
  /\ merger = "none" /\ quantizer = "none" /\ files = {} /\ serving = FALSE
  /\ unreached = {} /\ restarts = 0 /\ drops = 0 /\ renames = 0
  /\ erased = FALSE
  /\ restarting = FALSE /\ ended = FALSE /\ crossed = FALSE

Faults == restarts + drops + Cardinality(unreached)

-----------------------------------------------------------------------------
(* Requests to the manager.                                                *)

Row == status \notin {"none", "gone"}

\* sendToAgent: a command for an agent that is not connected is dropped.
ToAgent(c) == IF link THEN Append(cmds, c) ELSE cmds

\* sendMsg: so is a report.
ToManager(m) == IF link THEN Append(msgs, m) ELSE msgs

\* The bounds leave room for a request about the job, and a patient operator has
\* waited for the POST to be answered.
Room ==
  /\ Row
  /\ Len(cmds) < MaxCmds /\ Len(msgs) < MaxMsgs
  /\ Patient => ~creating

\* Except for a DELETE, also for a deploy or a restart.
MayAsk == Room /\ (Patient => deploying = Idle /\ ~restarting)

\* POST /: the row is created, with the name the request carried.
Create ==
  /\ status = "none"
  /\ status' = "pending"
  /\ creating' = TRUE
  /\ UNCHANGED <<merge, quant, name, model, dep, deploying, deleting, netVars,
                 runVars, artVars, cntVars>>

\* ... outputDir, the cluster's rows, the command, and the status.
CreateSend ==
  /\ creating
  /\ creating' = FALSE
  /\ status' = IF Row THEN "starting" ELSE status
  /\ cmds' = ToAgent("start")
  /\ UNCHANGED <<merge, quant, name, model, dep, deploying, deleting, link, msgs,
                 drops, runVars, artVars, cntVars>>

\* POST /:id/stop looks at nothing but the row's existence.
Stop ==
  /\ MayAsk
  /\ cmds' = ToAgent("stop")
  /\ status' = "stopping"
  /\ UNCHANGED <<merge, quant, name, model, dep, creating, deploying, deleting, link, msgs, drops,
                 runVars, artVars, cntVars>>

MergeAnyTime == TRUE              \* mutant: the merge is not gated

MergeAllowed == status = "completed"

\* POST /:id/merge.  A patient operator neither repeats a merge nor merges under
\* a quantization that reads the result.
Merge ==
  /\ MayAsk
  /\ MergeAllowed
  /\ Patient => merge \in {"null", "failed"}
  /\ cmds' = ToAgent("merge")
  /\ merge' = "running"
  /\ UNCHANGED <<status, quant, name, model, dep, creating, deploying, deleting, link, msgs, drops,
                 runVars, artVars, cntVars>>

\* POST /:id/quantize: already quantized is answered from the row, and one under
\* way is refused.
Quantize ==
  /\ MayAsk
  /\ merge = "completed"
  /\ quant \in {"null", "failed"}
  /\ cmds' = ToAgent("quantize")
  /\ quant' = "quantizing"
  /\ UNCHANGED <<status, merge, name, model, dep, creating, deploying, deleting, link, msgs, drops,
                 runVars, artVars, cntVars>>

\* The Model's name after the rename.
RenamedModel(n) == IF model = "none" THEN "none" ELSE n

\* PATCH /:id: the job and its Model in one transaction; a name another Model
\* holds rolls both back (P2002).  (The bound counts what takes effect.)
Rename(n) ==
  /\ MayAsk
  /\ renames < MaxRenames /\ n # name
  /\ IF model # "none" /\ n = "taken"
     THEN UNCHANGED <<name, model, renames>>
     ELSE name' = n /\ model' = RenamedModel(n) /\ renames' = renames + 1
  /\ UNCHANGED <<status, merge, quant, dep, creating, deploying, deleting, netVars, runVars, artVars,
                 resumed, unreached, restarts, depVars>>

-----------------------------------------------------------------------------
(* POST /:id/deploy, across its awaits.                                    *)

\* The job is read and its stage checked; the admission check follows.  (The
\* model has one deployment of the job at a time.)
DeployCheck ==
  /\ MayAsk
  /\ deploying = Idle
  /\ merge = "completed"
  /\ dep = "none"
  /\ deploying' = [at |-> "upsert", name |-> name]
  /\ UNCHANGED <<status, merge, quant, name, model, dep, creating, deleting, netVars,
                 runVars, artVars, cntVars>>

\* Too little memory, or a display name in use.
DeployRefused ==
  /\ deploying.at = "upsert"
  /\ deploying' = Idle
  /\ UNCHANGED <<status, merge, quant, name, model, dep, creating, deleting, netVars,
                 runVars, artVars, cntVars>>

\* model.upsert under the name read at the start: refused when another Model has
\* it (P2002), and when the job is gone (its foreign key).
DeployUpsert ==
  /\ deploying.at = "upsert"
  /\ IF Row /\ deploying.name # "taken"
     THEN model' = deploying.name /\ deploying' = [at |-> "create"]
     ELSE deploying' = Idle /\ UNCHANGED model
  /\ UNCHANGED <<status, merge, quant, name, dep, creating, deleting, netVars, runVars,
                 artVars, cntVars>>

\* Deployment.modelId is a foreign key.
ModelExists == model # "none"

\* deployment.create needs the Model; for a cluster its ClusterNode rows follow.
DeployCreate ==
  /\ deploying.at = "create"
  /\ IF ModelExists
     THEN dep' = "active" /\ deploying' = [at |-> "send"]
     ELSE deploying' = Idle /\ UNCHANGED dep
  /\ UNCHANGED <<status, merge, quant, name, model, creating, deleting, netVars,
                 runVars, artVars, cntVars>>

\* The job's row is updated, which needs it, and the command goes out, whatever
\* has become of the Deployment.
DeploySend ==
  /\ deploying.at = "send"
  /\ deploying' = Idle
  /\ cmds' = IF Row THEN ToAgent("deploy") ELSE cmds
  /\ UNCHANGED <<status, merge, quant, name, model, dep, creating, deleting, link, msgs, drops,
                 runVars, artVars, cntVars>>

\* Bound: the deployment is not restarted again after a first crossing.
MayRestart == ~crossed

\* POST /api/deployments/:id/restart, of a row in any status; the admission check
\* follows.
RestartCheck ==
  /\ MayAsk
  /\ dep # "none" /\ ~restarting
  /\ MayRestart
  /\ restarting' = TRUE
  /\ crossed' = (deleting # Idle)
  /\ UNCHANGED <<jobVars, netVars, runVars, artVars, resumed, unreached, restarts,
                 renames, ended>>

RestartRefused ==
  /\ restarting
  /\ restarting' = FALSE
  /\ UNCHANGED <<jobVars, netVars, runVars, artVars, resumed, unreached, restarts,
                 renames, ended, crossed>>

\* cmd:finetune:deploy is sent first; the update of a row that is gone throws.
RestartSend ==
  /\ restarting
  /\ restarting' = FALSE
  /\ cmds' = ToAgent("deploy")
  /\ dep' = IF dep = "none" THEN dep ELSE "active"
  /\ crossed' = (crossed \/ ended)
  /\ UNCHANGED <<status, merge, quant, name, model, creating, deploying, deleting,
                 link, msgs, drops, runVars, artVars, resumed, unreached, restarts,
                 renames, ended>>

\* A command to start the deployment is under way.
Commanded == \E i \in DOMAIN cmds : cmds[i] = "deploy"

\* The server fails or is undeployed, or the undeploy finds none; the agent says
\* so.  An undeploy is behind the commands sent before it.
DeploymentDown ==
  /\ serving \/ (dep = "active" /\ ~Commanded)
  /\ ~ended
  /\ serving' = FALSE
  /\ ended' = link
  /\ crossed' = (crossed \/ Commanded \/ deploying.at = "send")
  /\ UNCHANGED <<jobVars, netVars, runVars, merger, quantizer, files, erased, resumed,
                 unreached, restarts, renames, restarting>>

\* The report takes the row to stopped or failed.
DeploymentEnds ==
  /\ ended
  /\ ended' = FALSE
  /\ dep' = IF dep = "none" THEN dep ELSE "terminal"
  /\ UNCHANGED <<status, merge, quant, name, model, creating, deploying, deleting, netVars,
                 runVars, artVars, resumed, unreached, restarts, renames, restarting,
                 crossed>>

\* The reports of a server that comes up find the row terminal.
DeploymentUp ==
  /\ serving /\ link /\ dep = "terminal"
  /\ dep' = "active"
  /\ UNCHANGED <<status, merge, quant, name, model, creating, deploying, deleting, netVars,
                 runVars, artVars, cntVars>>

-----------------------------------------------------------------------------
(* DELETE /:id, across its awaits.                                         *)

SweepAny == TRUE                  \* mutant: an active deployment is swept too

\* Only terminal deployments may be swept.
Sweepable == dep # "active"

\* The job, its Model and the Deployments are read; an active one refuses.
DeleteCheck ==
  /\ Room
  /\ deleting = Idle
  /\ Sweepable
  /\ deleting' = [at |-> "sweep", status |-> status, swept |-> dep # "none"]
  /\ crossed' = (crossed \/ restarting)
  /\ UNCHANGED <<status, merge, quant, name, model, dep, creating, deploying, netVars,
                 runVars, artVars, resumed, unreached, restarts, renames, restarting,
                 ended>>

StopNothing(s) == FALSE           \* mutant: DELETE leaves the training alone

StopFirst(s) == s \in {"pending", "starting", "running"}

\* The deployments that were read go, a job that was training is told to stop,
\* and with cleanFiles the output directory goes unless another job shares it.
DeleteSweep(cleanFiles) ==
  /\ deleting.at = "sweep"
  /\ deleting' = [at |-> "row"]
  /\ dep' = IF deleting.swept THEN "none" ELSE dep
  /\ cmds' = IF StopFirst(deleting.status) THEN ToAgent("stop") ELSE cmds
  /\ IF cleanFiles /\ ~resumed
     THEN files' = {} /\ erased' = TRUE
     ELSE UNCHANGED <<files, erased>>
  /\ UNCHANGED <<status, merge, quant, name, model, creating, deploying, link, msgs, drops,
                 runVars, merger, quantizer, serving, cntVars>>

\* The row goes and its Model with it; a Deployment created meanwhile stops the
\* cascade (its foreign key) and the request fails.
DeleteRow ==
  /\ deleting.at = "row"
  /\ deleting' = Idle
  /\ IF dep = "none"
     THEN status' = "gone" /\ model' = "none"
     ELSE UNCHANGED <<status, model>>
  /\ UNCHANGED <<merge, quant, name, dep, creating, deploying, netVars, runVars, artVars,
                 cntVars>>

-----------------------------------------------------------------------------
(* The manager handles a report: the row is found by the id it carries, so *)
(* a report under a container's 12-character id finds none.                *)

QuantStatus(r) == IF r = "completed" THEN "quantized" ELSE "failed"

HandleReport ==
  /\ msgs # <<>>
  /\ msgs' = Tail(msgs)
  /\ LET m == Head(msgs)
         found == Row /\ m.whole
     IN /\ status' = IF found /\ m.stage = "train" THEN m.result ELSE status
        /\ merge' = IF found /\ m.stage = "merge" THEN m.result ELSE merge
        /\ quant' = IF found /\ m.stage = "quantize"
                    THEN QuantStatus(m.result) ELSE quant
  /\ UNCHANGED <<name, model, dep, creating, deploying, deleting, link, cmds, drops,
                 runVars, artVars, cntVars>>

-----------------------------------------------------------------------------
(* The agent: training.                                                    *)

\* The workers whose containers survive cleanup when ssh does not reach u.
\* Only a tracked instance still knows its workers.
CleanWorkers(u) == IF tracked THEN works \cap u ELSE works

\* The removal of the containers fails on the hosts u, where there is one.
Missed(u, h) ==
  /\ u \subseteq works \cup {"head"}
  /\ "head" \in u => h # "absent"
  /\ Faults + Cardinality(u \ unreached) <= MaxFaults
  /\ unreached' = unreached \cup u

\* docker rm -f of the head's container h: its failure is not looked at.
HeadLeft(u, h) == IF "head" \in u THEN h ELSE "absent"

\* cleanup(): watchdog off, worker containers, head container, no longer tracked.
Cleanup(u, h) ==
  /\ Missed(u, h)
  /\ works' = CleanWorkers(u)
  /\ dead' = dead \cap CleanWorkers(u)
  /\ head' = HeadLeft(u, h)
  /\ tracked' = FALSE

Command(c) == cmds # <<>> /\ Head(cmds) = c /\ link

\* cmd:finetune:start up to the image build: tracked, worker list on disk, an
\* old container of the name removed; or the recipe is not there.
Start(found) ==
  /\ Command("start")
  /\ cmds' = Tail(cmds)
  /\ IF found
     THEN /\ launch' = "build"
          /\ aborted' = FALSE
          /\ tracked' = TRUE
          /\ todo' = Workers
          /\ head' = "absent"
          /\ msgs' = msgs
     ELSE /\ msgs' = ToManager(Report("train", "failed", TRUE))
          /\ UNCHANGED <<launch, aborted, tracked, todo, head>>
  /\ UNCHANGED <<jobVars, link, drops, works, dead, tail, artVars, cntVars>>

\* The end of startFinetuneJob on a failure: reported, then cleaned up.
LaunchFails(u) ==
  /\ launch' = "none"
  /\ todo' = {}
  /\ msgs' = ToManager(Report("train", "failed", TRUE))
  /\ Cleanup(u, head)
  /\ UNCHANGED <<jobVars, link, cmds, drops, aborted, tail, artVars, resumed,
                 restarts, renames, depVars>>

RunUnchecked == FALSE             \* mutant: a stop during the build is ignored

StoppedMeanwhile == aborted

\* The image is there and docker run -d has started the head; a stop during the
\* build takes it down again at once.
RunHead(u) ==
  /\ launch = "build"
  /\ IF StoppedMeanwhile
     THEN launch' = "none" /\ todo' = {} /\ Cleanup(u, "up")
     ELSE launch' = "ready" /\ head' = "up" /\ UNCHANGED <<todo, tracked, works, dead, unreached>>
  /\ UNCHANGED <<jobVars, netVars, aborted, tail, artVars, resumed, restarts,
                 renames, depVars>>

\* The build, the pull or docker run throws; or the container is not ready in
\* five minutes, which a stop that removed it also looks like; or a worker is
\* not ready in its time or not reachable.
BuildFails(u) == launch = "build" /\ LaunchFails(u)
ReadyFails(u) == launch = "ready" /\ LaunchFails(u)
WorkerFails(u) == launch = "workers" /\ LaunchFails(u)

\* What follows without an await: the next worker's container is started (the
\* old one of the name removed), or, every worker being up, the watchdog is set
\* and docker exec starts the training.
Proceed(rest) ==
  /\ todo' = rest
  /\ \/ /\ rest = {}
        /\ launch' = "training"
        /\ head' = IF head = "up" THEN "training" ELSE head
        /\ UNCHANGED works
     \/ \E w \in rest :
        /\ launch' = "workers"
        /\ works' = works \cup {w}
        /\ UNCHANGED head

\* waitForReady finds /tmp/.ready in the container.
HeadReady ==
  /\ launch = "ready"
  /\ head = "up" /\ ~aborted
  /\ Proceed(Workers)
  /\ UNCHANGED <<jobVars, netVars, aborted, tracked, dead, tail, artVars,
                 cntVars>>

\* ... in the container of a job that was stopped, whose removal had failed.
HeadStopped(u) ==
  /\ launch = "ready"
  /\ head = "up" /\ aborted
  /\ launch' = "none" /\ todo' = {}
  /\ Cleanup(u, head)
  /\ UNCHANGED <<jobVars, netVars, aborted, tail, artVars, resumed, restarts,
                 renames, depVars>>

\* A worker's container is ready and its training launched.
WorkerReady(w) ==
  /\ launch = "workers"
  /\ w \in todo \cap works
  /\ Proceed(todo \ {w})
  /\ UNCHANGED <<jobVars, netVars, aborted, tracked, dead, tail, artVars,
                 cntVars>>

\* The training script ends in the container.  With a dead worker it hangs in a
\* collective instead.
TrainingEnds(ok) ==
  /\ head = "training"
  /\ dead = {}
  /\ head' = IF ok THEN "done" ELSE "broken"
  /\ files' = IF ok THEN files \cup {"adapter"} ELSE files
  /\ UNCHANGED <<jobVars, netVars, launch, aborted, tracked, works, dead, todo,
                 tail, merger, quantizer, serving, erased, cntVars>>

\* A worker's container exits.
WorkerDies(w) ==
  /\ head = "training"
  /\ w \in works \ dead
  /\ dead' = dead \cup {w}
  /\ UNCHANGED <<jobVars, netVars, launch, aborted, tracked, head, works, todo,
                 tail, artVars, cntVars>>

ExitResult(h) == IF h = "done" THEN "completed" ELSE "failed"

\* docker exec exits: reported and cleaned up, unless the job was aborted.
ExecExit(u) ==
  /\ launch = "training"
  /\ ~aborted
  /\ head \in {"done", "broken"}
  /\ launch' = "none"
  /\ msgs' = ToManager(Report("train", ExitResult(head), TRUE))
  /\ Cleanup(u, head)
  /\ UNCHANGED <<jobVars, link, cmds, drops, aborted, todo, tail, artVars,
                 resumed, restarts, renames, depVars>>

\* The exit of an aborted job's docker exec changes nothing.
ExecAborted ==
  /\ launch = "training"
  /\ aborted
  /\ launch' = "none"
  /\ UNCHANGED <<jobVars, netVars, aborted, tracked, head, works, dead, todo,
                 tail, artVars, cntVars>>

WatchdogBlind == FALSE            \* mutant: dead workers are not seen

\* What the watchdog looks for.
WorkerDown == dead # {}

\* The watchdog finds a worker that is not running.
Watchdog(u) ==
  /\ launch = "training"
  /\ ~aborted
  /\ WorkerDown
  /\ aborted' = TRUE
  /\ Cleanup(u, head)
  /\ msgs' = ToManager(Report("train", "failed", TRUE))
  /\ UNCHANGED <<jobVars, link, cmds, drops, launch, todo, tail, artVars,
                 resumed, restarts, renames, depVars>>

\* forceCleanupJob finds the worker list under the job's own id, which is not
\* where a resumed job keeps it.
ForceWorkers(u) == IF resumed THEN works ELSE works \cap u

\* cmd:finetune:stop.  Always confirmed.
StopJob(u) ==
  /\ Command("stop")
  /\ cmds' = Tail(cmds)
  /\ IF tracked
     THEN aborted' = TRUE /\ Cleanup(u, head)
     ELSE /\ Missed(u, head)
          /\ works' = ForceWorkers(u)
          /\ dead' = dead \cap ForceWorkers(u)
          /\ head' = HeadLeft(u, head)
          /\ UNCHANGED <<aborted, tracked>>
  /\ msgs' = ToManager(Report("train", "stopped", TRUE))
  /\ UNCHANGED <<jobVars, link, drops, launch, todo, tail, artVars, resumed,
                 restarts, renames, depVars>>

-----------------------------------------------------------------------------
(* The agent: merging, quantizing and serving.                             *)

\* cmd:finetune:merge: an old container of the name is removed, a new one starts
\* and rewrites the merged directory.
MergeStart(ok) ==
  /\ Command("merge")
  /\ cmds' = Tail(cmds)
  /\ files' = files \ {"merged"}
  /\ IF ok
     THEN merger' = "tracked" /\ msgs' = msgs
     ELSE merger' = "none" /\ msgs' = ToManager(Report("merge", "failed", TRUE))
  /\ UNCHANGED <<jobVars, link, drops, runVars, quantizer, serving, erased,
                 cntVars>>

\* The merge script exits.
MergeExit(ok) ==
  /\ merger = "tracked"
  /\ merger' = "none"
  /\ files' = IF ok THEN files \cup {"merged"} ELSE files
  /\ msgs' = ToManager(Report("merge", IF ok THEN "completed" ELSE "failed", TRUE))
  /\ UNCHANGED <<jobVars, link, cmds, drops, runVars, quantizer, serving, erased,
                 cntVars>>

\* cmd:finetune:quantize: the container starts and its dependencies install, or
\* the installation fails.
QuantizeStart(ok) ==
  /\ Command("quantize")
  /\ cmds' = Tail(cmds)
  /\ files' = files \ {"fp8"}
  /\ IF ok
     THEN quantizer' = "tracked" /\ msgs' = msgs
     ELSE /\ quantizer' = "none"
          /\ msgs' = ToManager(Report("quantize", "failed", TRUE))
  /\ UNCHANGED <<jobVars, link, drops, runVars, merger, serving, erased, cntVars>>

QuantizeExit(ok) ==
  /\ quantizer = "tracked"
  /\ quantizer' = "none"
  /\ files' = IF ok THEN files \cup {"fp8"} ELSE files
  /\ msgs' = ToManager(Report("quantize", IF ok THEN "completed" ELSE "failed",
                              TRUE))
  /\ UNCHANGED <<jobVars, link, cmds, drops, runVars, merger, serving, erased,
                 cntVars>>

\* cmd:finetune:deploy: the recipe is written and sparkrun started.
Serve ==
  /\ Command("deploy")
  /\ cmds' = Tail(cmds)
  /\ serving' = TRUE
  /\ UNCHANGED <<jobVars, link, msgs, drops, runVars, merger, quantizer, files,
                 erased, cntVars>>

-----------------------------------------------------------------------------
(* Restarts and reconnections.                                             *)

\* The agent process ends: what it remembered is lost, containers stay, and a
\* merge or quantization goes on inside its container.  Also what a docker run
\* that throws in quantizeMergedToFp8 leads to: nothing catches the rejection.
AgentRestart ==
  /\ Faults < MaxFaults
  /\ restarts' = restarts + 1
  /\ link' = FALSE
  /\ cmds' = <<>>
  /\ launch' = "none" /\ aborted' = FALSE /\ tracked' = FALSE
  /\ todo' = {} /\ tail' = {}
  /\ merger' = IF merger = "none" THEN "none" ELSE "orphan"
  /\ quantizer' = IF quantizer = "none" THEN "none" ELSE "orphan"
  /\ UNCHANGED <<jobVars, msgs, drops, head, works, dead, files, serving, erased,
                 resumed, unreached, renames, depVars>>

\* The socket is lost, with what was on its way.
Drop ==
  /\ link
  /\ Faults < MaxFaults
  /\ drops' = drops + 1
  /\ link' = FALSE
  /\ cmds' = <<>>
  /\ msgs' = <<>>
  /\ ended' = FALSE
  /\ UNCHANGED <<jobVars, runVars, artVars, resumed, unreached, restarts, renames,
                 restarting, crossed>>

\* Registered again: reattachFinetuneJobs follows the log of every running
\* training or merge container that has one.
Reconnect ==
  /\ ~link
  /\ link' = TRUE
  /\ tail' = {x \in {"train", "merge"} :
               IF x = "train" THEN head \in {"training", "done", "broken"}
                              ELSE merger # "none"}
  /\ UNCHANGED <<jobVars, cmds, msgs, drops, launch, aborted, tracked, head,
                 works, dead, todo, artVars, cntVars>>

\* A follower sees the script's last line and reports it under the container's
\* short id.  The container stays.
TailTraining ==
  /\ "train" \in tail
  /\ head \in {"done", "broken"}
  /\ tail' = tail \ {"train"}
  /\ msgs' = ToManager(Report("train", ExitResult(head), FALSE))
  /\ UNCHANGED <<jobVars, link, cmds, drops, launch, aborted, tracked, head,
                 works, dead, todo, artVars, cntVars>>

OrphanMergeEnds(ok) ==
  /\ merger = "orphan"
  /\ merger' = "none"
  /\ files' = IF ok THEN files \cup {"merged"} ELSE files
  /\ IF "merge" \in tail
     THEN /\ tail' = tail \ {"merge"}
          /\ msgs' = ToManager(Report("merge", IF ok THEN "completed" ELSE "failed",
                                      FALSE))
     ELSE UNCHANGED <<tail, msgs>>
  /\ UNCHANGED <<jobVars, link, cmds, drops, launch, aborted, tracked, head,
                 works, dead, todo, quantizer, serving, erased, cntVars>>

OrphanQuantizeEnds(ok) ==
  /\ quantizer = "orphan"
  /\ quantizer' = "none"
  /\ files' = IF ok THEN files \cup {"fp8"} ELSE files
  /\ UNCHANGED <<jobVars, netVars, runVars, merger, serving, erased, cntVars>>

-----------------------------------------------------------------------------

\* startFinetuneJob goes on, and its timers fire.
TrainStep ==
  \/ \E u \in SUBSET Hosts :
       \/ RunHead(u) \/ BuildFails(u) \/ ReadyFails(u) \/ WorkerFails(u)
       \/ HeadStopped(u)
       \/ ExecExit(u) \/ Watchdog(u)
  \/ \E w \in Workers : WorkerReady(w)
  \/ HeadReady \/ ExecAborted

\* The agent handles the next command.
CommandStep ==
  \/ \E u \in SUBSET Hosts : StopJob(u)
  \/ \E ok \in BOOLEAN : Start(ok) \/ MergeStart(ok) \/ QuantizeStart(ok)
  \/ Serve

MergeStep == \E ok \in BOOLEAN : MergeExit(ok)
QuantizeStep == \E ok \in BOOLEAN : QuantizeExit(ok)

OrphanStep ==
  \/ \E ok \in BOOLEAN : OrphanMergeEnds(ok) \/ OrphanQuantizeEnds(ok)
  \/ TailTraining

ManagerStep ==
  \/ DeployRefused \/ DeployUpsert \/ DeployCreate \/ DeploySend
  \/ RestartRefused \/ RestartSend
  \/ \E c \in BOOLEAN : DeleteSweep(c)
  \/ DeleteRow

OperatorStep ==
  \/ Create \/ Stop \/ Merge \/ Quantize \/ DeployCheck \/ RestartCheck
  \/ DeleteCheck
  \/ \E n \in Names : Rename(n)

\* What happens by itself.
Event ==
  \/ AgentRestart \/ Drop \/ DeploymentDown \/ DeploymentEnds \/ DeploymentUp
  \/ \E ok \in BOOLEAN : TrainingEnds(ok)
  \/ \E w \in Workers : WorkerDies(w)

Next ==
  \/ TrainStep \/ CommandStep \/ MergeStep \/ QuantizeStep \/ OrphanStep
  \/ CreateSend \/ HandleReport \/ ManagerStep
  \/ OperatorStep \/ Event \/ Reconnect

Spec == Init /\ [][Next]_vars

\* Both processes go on with what they have begun: the agent handles its
\* commands, every wait of a launch ends (each has a time limit, except that for
\* an image build, which is taken to end), merge and quantize scripts end and the
\* watchdog's timer fires; the manager handles the reports.  A training may run
\* for ever, and nothing obliges the operator.
Fairness ==
  /\ WF_vars(TrainStep) /\ WF_vars(CommandStep)
  /\ WF_vars(MergeStep) /\ WF_vars(QuantizeStep)
  /\ WF_vars(CreateSend) /\ WF_vars(HandleReport)

FairSpec == Spec /\ Fairness

-----------------------------------------------------------------------------
(* Properties.                                                             *)

\* No container is left, as far as the removals succeeded.
NoContainers ==
  /\ "head" \notin unreached => head = "absent"
  /\ unreached = {} => works = {}

\* The exception forceCleanupJob has: after an agent restart the workers of a
\* resumed job are not found.
WorkersForgotten == resumed /\ restarts > 0

\* A job whose row says that it is over has no container left on any node,
\* wherever in its launch the stop or the failure met it (the aborted checks of
\* startFinetuneJob and cleanup()).
OverMeansDown ==
  status \in {"stopped", "failed", "completed"} /\ ~WorkersForgotten
    => NoContainers

\* What the row says is finished is whole on the shared storage, so that no
\* stage works on what an earlier one has not finished, unless DELETE removed
\* the directory: the gates of /merge, /quantize and /deploy, across agent
\* restarts and lost reports.
StagesInOrder ==
  ~erased =>
    /\ status = "completed" \/ merger # "none" => "adapter" \in files
    /\ merge = "completed" \/ quantizer # "none" \/ serving => "merged" \in files
    /\ quant = "quantized" => "fp8" \in files

\* A deployment the agent serves has its rows, and its row is active, although
\* DELETE and deploy may overlap and the deployment end and be restarted: the 409
\* of DELETE for active deployments and the foreign keys.  The exceptions are a
\* start that crosses the end of the deployment, whose report then hides it, and a
\* restart that overlaps the DELETE, which sweeps the row it has read as terminal.
ServedHasRows ==
  serving /\ ~crossed => dep = "active" /\ model # "none" /\ Row

Undisturbed == restarts = 0 /\ drops = 0

Over == status \in {"completed", "failed", "stopped", "gone"}

\* While the agent stays up and connected, a job is over or training, a stop and
\* the death of a worker always end it, and a merge and a quantization end: every
\* path of the agent's handlers reports, and the watchdog ends the training that
\* a dead worker leaves hanging.
EveryStageEnds ==
  /\ status \in {"pending", "starting"} ~> Over \/ head = "training" \/ ~Undisturbed
  /\ status = "stopping" \/ dead # {} ~> Over \/ ~Undisturbed
  /\ merge = "running" ~> merge # "running" \/ ~Row \/ ~Undisturbed
  /\ quant = "quantizing" ~> quant # "quantizing" \/ ~Row \/ ~Undisturbed

\* A deleted job's containers go, however long its training would still have
\* run, while the agent stays up and connected (the stop DELETE sends).
DeleteStops == status = "gone" ~> NoContainers \/ ~Undisturbed

=============================================================================
