# A TLA+ verification of dgx-manager

dgx-manager runs large-language-model servers on a small cluster of GPU nodes.
A *manager* (`packages/server`: Express, Prisma over SQLite, a WebSocket hub, an
OpenAI-compatible gateway) tells one *agent* per node (`packages/agent`) what to
run; agents drive docker, Ollama, sparkrun and training jobs and report back; a
Next.js dashboard shows the result.  This project models the parts whose
correctness depends on order and failure, checks them with TLC on small
instances, and proves the central results with TLAPS for every instance.

## 1. Inventory

| Part | State | Operations | Hard behaviour |
|---|---|---|---|
| Agent, dgxrun rank (`runtime/dgxrun/*`, `deploy-cancel.ts`, `deployment-store.ts`, `index.ts`) | container, entry in `deployments.json`, cancel registry, `absentTicks` | `cmd:deploy`, `cmd:undeploy`, health and metrics timers, reconnect reconciliation | a stop racing `docker run -d`, ticks that act on an old snapshot, agent restart, a busy docker daemon |
| Manager, deployment lifecycle (`routes/deployments.ts`, `ws/deployment-status*.ts`, `deployments/dgxrun-*.ts`) | `Deployment` and `ClusterNode` rows | POST, DELETE, restart, status reports, coordinated teardown, name publishing | commands sent before rows are written, follow-ups after awaits, dropped sends |
| Manager, admission (`admission/*`, `display-name.ts`, `maxoutmem.ts`, `nodes/role.ts`) | rows, last metric of each node | the checks of POST and restart | check-then-create, old readings, memory a restart is credited with |
| Manager, agent hub (`ws/agent-hub.ts`) | `agents` map, node rows | register, heartbeat, close, staleness sweep, send | late close of an old socket, sweep against heartbeat |
| Manager, nodes (`routes/nodes.ts`, `routes/tokens.ts`, `ssh/*`, `nodes/*`, `ollama/dropin.ts`) | node rows, join tokens, SSH jobs | add, audit, provision, power, wake, register by token, offboard | intent against reality, jobs that outlive rows, scripts cut half way |
| Agent, installation (`updater.ts`, `update-launch.ts`, `firewall.ts`, `self-audit.ts`, `install.sh`) | directories under `/opt`, update lock and result, node id, iptables chains | install, self-update, roll back, uninstall, apply the firewall | a crash between two renames, a health check that sees the wrong agent |
| Agent, Ollama (`runtime/ollama*.ts`) | `activeDeployments`, `deployments.json`, `ollamaLastState`, pending restores | deploy, undeploy, reconcile with retry, eviction reports | three copies of the truth without a lock |
| Agent, sparkrun (`runtime/sparkrun.ts`) | launcher process | launch, stop, health | memory held and released late |
| Fine-tuning (`runtime/finetune*.ts`, `routes/finetune.ts`) | job, Model and Deployment rows, containers on head and workers, artifacts | train, stop, merge, quantize, deploy, rename, delete | a stop during the launch, a dead worker, reattachment after a restart |
| Benchmarks, capability calls, agent jobs (`benchmarks/*`, `caps/*`, agent `caps/*`, `jobs/*`) | run rows, pending calls, systemd unit and its files | dispatch, poll, cancel, boot reconciliation | time-out against late answer, restart of either side, vanished against silent |
| Gateway (`gateway/*`) | in-flight counts, rotation per name | `/v1/*` inference | concurrent selection, leaks, aliasing of the rotation |
| Catalogue, datasets, settings, HF cache, dashboard, host metrics | rows, files | request/response | none of their own |

What makes each part correct:

* **rank**: a stop wins over the launch it races; nothing runs untracked; the
  container of a failure is kept;
* **deployment**: one dead rank takes all down; a delete is carried through and
  leaves nothing running;
* **admission**: what is admitted fits what is really free; a restart is credited
  with no more than it was granted;
* **agent hub**: after flapping ends, the map and the row agree with the truth,
  and the dashboards with the row;
* **nodes**: the row does not go on claiming a power state or a provisioning that
  nothing will correct; an Ollama that somebody else installed is not appropriated;
* **installation**: the outcome an update reports is true, the machine's identity
  survives it, and a green firewall check means the rules are there;
* **Ollama**: nothing removed comes back, an eviction is a real one, row and memory
  converge, failed restores are retried;
* **fine-tuning**: a job that is over has no containers, no stage works on what is
  not finished, every stage ends;
* **benchmarks**: no result is invented, nothing alive is declared dead, the log is
  exact, every row ends;
* **gateway**: counts are exact, the choice is never stale, ties rotate.

`PROJECT.json` lists the hazards with the line at which each bites.

## 2. Modules

| Module | Models |
|---|---|
| `RankPromise` | what an agent promises about one rank: settled after a stop means down, and a settled rank does not come up by itself |
| `DgxrunRank` | one agent's rank, one step per stretch of code between two awaits |
| `DgxrunCluster` | the manager, the sockets and a coarse rank per node |
| `Admission` | POST and restart of a deployment, from the first check to the commands |
| `Ollama` | the Ollama deployments of one node: rows, agent, service |
| `FineTune` | one fine-tuning job: rows, head agent, containers, artifacts |
| `Benchmark` | one benchmark run: row, manager's thread, capability calls, systemd unit |
| `AgentHub` | what the manager believes about one node: the agents map, the row's status, the dashboards |
| `Nodes` | a machine and its rows: registration, audit, provisioning, power, offboarding |
| `AgentHost` | the agent installed on one machine: installation, update, uninstallation, firewall |
| `Gateway` | `/v1` routing |
| `X_proofs` | the theorems about module `X` and the inductive invariants they need: `DgxrunRank`, `DgxrunCluster`, `Admission`, `Ollama`, `FineTune`, `Nodes`, `AgentHost` |
| `Manager_proofs` | the same for `Gateway` and `Benchmark` |
| `MC...` | instances for TLC |

Both programs are event loops, so a handler is atomic between two awaits, and every
await is a point where any other handler may run.  The manager has a single SQLite
connection that serves queries in the order they are issued: a query takes effect
where it is issued, and the code after its await is a later step.  `AgentHub` is more
liberal and lets two queries under way take effect in either order.

History variables (named as such in each module) record what a property has to
except or compare with.  The MC modules of `AgentHost` and `Nodes` do not explore
beyond an overlap (`mixed`) after which their properties say nothing.  That of `Nodes`
also leaves out power commands on a machine with somebody else's Ollama, where to the
script they are one more way to be cut short; the theorems have no such limit.

### DgxrunRank

A docker command is two steps: the daemon acts (`LaunchRm`, `StopDocker`, ...), later
the continuation runs (`LaunchPersist`, `StopDone`, ...).  `launch[d]` is the program
counter of the `launchDgxrun` started by message `d`, `stop[u]` that of `cmd:undeploy`
`u`, `tick[t]` that of a timer's current tick, and `seen[t]` the store entry that tick
loaded and still believes.  `store`, `container`, `cancel` and `absentTicks` are the
program's own state.  `report`, `lastCmd`, `hit` and `evidence` are history: the last
status sent, the last command, whether a failure verdict or an agent restart
overlapped the current launch, and whether a failure teardown has kept a dead
container.

Switches select the environment: `Overlap` (a `cmd:deploy` may arrive while an
earlier launch or stop still runs), `Inconclusive` (`docker inspect` may not
answer), `DockerFails` (`docker rm`/`stop` may have no effect, `execCapture`
returning all the same), `IsHead`.  Bounds: the sets `Deploys` and `Undeploys`
(one message each), `MaxReconnects`, `MaxAgentCrashes`.

Abstractions: "exited" stands for every docker state other than created and
running; the container is started without a `--restart` policy, so its restart
count stays 0 and the crash-loop branch of the tick cannot be taken; the refusals
of a launch (missing mod, image, bad argv) are one step; the phases the head reads
out of its log are left to `DgxrunCluster`; ticks of one timer do not overlap
themselves; a docker command that timed out has no later effect; the log follower
and the page-cache loop are left out.

### DgxrunCluster

`row` is the deployment's row, `pending` the HTTP request that has sent its
commands and not yet written the row, `tasks[n]` what the status handler still has
to do, after an await, for a report of node `n` (publish the name, tear every rank
down, delete the row).  `toAgent` and `toServer` are the sockets' queues: ordered,
lost as a whole when the socket drops, and nothing is queued while it is down.
`told` is the head's `deployLastStatus`, `phaseTold` its `deployPhaseRank`, which
`ReportPhase` only moves forward.

`Init` is the state in which POST has created the row and fanned `cmd:deploy`
out.  One HTTP request is in progress at a time; `Patient` is an operator who does
not restart a deployment whose delete is under way.  A rank is coarser than in
`DgxrunRank`: a command is one step (an undeploy reaps the launch it races, which
is what `DgxrunRank` shows) and the launch window is the phase "starting".  The
status "evicted" is only ever written for Ollama rows and does not occur.  The
health tick's repeat of an unchanged status (the memory in use has moved) is
limited to one on the wire.

Bounds: `MaxOps` requests, `MaxFaults` failed launches or dying containers,
`MaxDrops` socket drops.  `failedFan` and `deleting` are history variables.

### Admission

The requests under way are the slots; `task[s]` is where the request of slot `s` is
and what it has read.  `inuse` is the memory really in use on a node, `held` the part
each deployment holds, `reading` the last metric, which is all the checks see.
Shares are in twentieths, so the safety margin 0.05 is 1 and the default 0.85 is 17.
`granted` remembers every share a deployment was created or overridden with, and a
task's `excess` by how much the request would really not fit when it is admitted,
less what the reading was out of date and what the deployment holds below its share.
`foreign` is the part of `inuse` that no deployment holds; it is what
`maxOutMemoryForDeploy` makes free on the nodes it reaches (`ReclaimMemory`).  The
sparkrun launch on the agent is here as far as it holds memory: it is launched, may
fail, may die and be found dead by the health tick (`HealthTick`), is reconciled with
its row when the agent connects again (`Reconcile`), and is stopped; a stop that does
not reach the container leaves it behind ("stray").  `launchSparkrun` removes nothing
before it starts (other runtimes do): until the new container comes up, which is taken
to replace the earlier one, or for good when the launch fails, what the deployment held
may stay held (`Holds`).  Names, models and recipe texts are reduced to what the checks
compare.

### Ollama

A command is numbered when it is sent and its handler runs as `task[number]` beside the
others, through `ensure`, `pull`, `load`, `verify` or `unload`.  `active`, `store` and
`row` are the three places that have to agree.  `rec` is the reconcile loop, `pending`
its failed restores, `last` the eviction machine of the health tick, `hub` what an
`agent:ollama-status` handler has read and still has to write.  A tick reads `/api/ps`
in one step (`TickLook`, remembered in `look`) and compares it with what it last knew
in a later one (`TickApply`), so commands run in between; ticks do not overlap
themselves.  `fresh` is history: the deployments whose model was resident since their
last deploy, or read as resident by a tick that this deploy overtook.  The service and
what it holds in memory (`loaded`) are external: clients load models and Ollama evicts
them (`Move`).  An aborted pull resolves, or rejects when the response had begun
(`CallFails`).  `link` FALSE is a socket that does not deliver, closed or half open.

### FineTune

Docker and ssh run synchronously in the agent, so its awaits are the image build, the
waits for the head and for each worker, and the training.  A row update that is issued
in the same turn as `sendToAgent` is one step with it.  `launch` is where
`startFinetuneJob` is, `head`, `works` and `dead` are the containers, `files` the
artifacts that are whole on shared storage.  After an agent restart a reattached
follower (`tail`) reports under a truncated id (`whole = FALSE`), which finds no row.
The deployment of the job is started by `/deploy` (checks, upsert of the Model, row,
command: an await before each) and by the restart of `routes/deployments.ts`, from a
row in any status (`RestartCheck`, `RestartRefused`, `RestartSend`); it may end, and
its row hears of that later (`ended`).  A removal of a container may fail on any host,
which the code does not look at (`unreached`).  `crossed` is history: a start crossed
the end of the deployment, or a restart the DELETE of the job.  After that it is not
restarted again (`MayRestart`, a bound on the search).  `Patient` is an operator who
waits for one request, and one stage, to end.

### Benchmark

`thread` is whoever follows the run in the manager (`executeRun`, or
`reconcileStaleRuns` after a restart); `net` holds the capability calls under way.
Call ids restart at one in every life of the manager, so an answer to its previous
life may meet a new call: ids are abstracted to that possibility (`Mixups`).  `job` is
the systemd unit with its exit, result and log files, which survive both processes.
The log is a number of bytes: a poll reads from the stored byte offset to wherever the
file ends at that moment (`Chunk`, `From`), the line being written included, and from 0
when the file is shorter than the offset.  `Newlines` are the bytes that end a line.
The manager's `log` is how many bytes it has, whether some stand there twice, and
whether a line was logged in two pieces (`cut`).

### AgentHub

One node.  `sock[c]` is the life of the c-th socket the agent opens; "cut" is the
time in which the agent has lost it and the manager has not noticed (the close
event "can lag 76+ min").  `reg`, `beat`, `bye` and `sweep` are the handlers'
program counters, `entry` is `agents.get(nodeId)`, `swept` its membership in
`sweptOffline`, `shown` the last `node:status` the dashboards were sent.  `recent`
abstracts `lastSeen` to the side of the threshold it is on, and `Age` is the
passing of 30 s.  The history variable `late` records that the close of an old
socket was announced after a newer one had opened.  Bounds: `MaxConns` sockets,
`MaxStalls` gaps on a live socket, one heartbeat on the wire and one in its handler
per socket.

### Nodes

One machine, the rows it may have, and the agent on it.  `job` are the audits and
provisionings under way over SSH, `script` the Ollama script each of them, or
`install.sh`, is running on the machine, `oll` what that script looks at and changes:
the unit, the marker, the lines of `override.conf` that matter (`User=`,
`OLLAMA_MODELS=`, any other) and whether the shared storage is mounted, which changes
at any time (`StorageChanges`).  An Ollama that was there first has one of the
`Overrides`.  A command of the script may fail and, under `set -e`, ends it where it is.
`cmd`, `ack` and `doom` follow a power command from the manager over the agent, which
acknowledges that it was launched, to the machine, where it works (`PowerDown`) or does
not (`PowerFails`).  The SSH awaits of `PowerSsh` are one step.  `excused` and
`stuck` collect the rows that the code leaves wrong (section 4).  A token is issued by
`CreateToken`, one at a time, and dies by its use, its deletion or the clock.

### AgentHost

`dir` is what is in `/opt/dgx-agent`, `-old` and `-new`: a version, whether the agent
in it starts and connects, and whether it holds the node-id file.  Every `mv`, `rm` and
restart of the updater is a step of its own and may fail; a swap that could not be
undone either is written as `failed` with the text that says so ("unrestored").  An
update is sent to one machine (`UpdateAgent`) or to those of a plan (`UpdateAgentAll`).
The updater is spawned inside the agent's control group, so `systemctl restart` kills
it under the unit `install.sh` writes (`KillMode` default); the unit for which the rest
of the code is written spares it; both are checked.  `rules` is the kernel's state per
address family, `fw` what the process believes, `audit` what the row was told.

### Gateway

`Requests` is a set of slots that are used again, so the number of requests is not
bounded.  A request reads the rows (`Query`), resumes later (`Route`) and is then
routed in one turn of the event loop.  The number at which the rotation wraps is the
constant `Wrap`.  `Declared` is what a deployment's stored config has for its modality,
absent and unreadable values included.  A client that hangs up makes the upstream fail
(`UpstreamFails`); bodies that are refused touch no state and are left out.

## 3. Runs

| Run | Instance | Shows |
|---|---|---|
| `rank_safety` | 2 deploys, 1 undeploy, 1 agent restart, inconclusive inspects, fair | `StopWins`, `NoOrphan`, refinement of `RankPromise` (`PromiseKept`), `UndeployConverges` |
| `rank_faults` | a worker's rank, 2 deploys, 2 undeploys, failing docker commands, 1 reconnect | `StopForgets`, `EvidenceKept` |
| `cluster_safety` | 2 ranks, 2 requests, 1 fault | `TeardownComplete`, `RowGoneMeansDown`, `DeleteCarriedThrough` |
| `cluster_failure` | 3 ranks, 1 fault, 1 drop, fair | `FailureTearsDown` |
| `hub` | 2 sockets in turn, 2 heartbeat gaps, fair | `StatusSettles`, `ShownSettles` |
| `gateway` | 3 requests, pools of two and one, 1 change of a row or agent | `CountsExact`, `LeastOutstanding`, `EvenRotation` |
| `admission` | 2 nodes (eval, GPU), 2 slots, 3 requests, 1 recipe edit or change of foreign memory | `AdmittedFits`, `ReclaimEarned`, `AutoPickAgrees` |
| `ollama` | 1 deployment, 2 commands, 1 fault, 1 load or eviction, fair | `NoGhost`, `GoneIsForgotten`, `NoFalseEviction`, `RowFollowsMemory`, `RestoreHeals`, `DeleteEnds` |
| `finetune` | 1 worker, 1 fault, 1 rename, restarts of the deployment, fair | `OverMeansDown`, `StagesInOrder`, `ServedHasRows`, `EveryStageEnds`, `DeleteStops` |
| `benchmark` | plain and proxied runs, a log line of 2 bytes, 1 fault, 1 mixed-up answer, fair | `CompletedIsReal`, `NoFalseFailure`, `LogExact`, `EveryRunEnds`, `CancelStops` |
| `host` | 2 updaters, 2 installations, 1 fault, both kill modes | `IdentityKept`, `AuditHonest`, `OutcomeTrue` |
| `nodes` | 1 row, 2 jobs, 2 requests, 1 fault, two kinds of foreign override | `PowerHonest`, `ProvisioningIsLive`, `OllamaOwnership` |

Each property's comment in its module states it in words and names the code.

**Bounds.**  They are the smallest in which the interesting cases meet: two deploys
and an undeploy give a stop of a launch and a restart after it; a third rank adds
bystanders to a failure; two requests give delete against restart and delete against
failure; three requests over a pool of two give unequal loads and a tie, and
`Wrap = 4` is passed several times; three admission requests in two slots give a POST
and a restart that overtake each other after an earlier deployment; two commands, a
fault and a load or eviction of Ollama give an undeploy during the reconcile that
follows an agent restart, a restart after an eviction, a restart in the middle of a tick,
and a load during a stop; one fault of a benchmark can be a
restart of manager, agent or node at any point of the run, and the mixed-up answer is
counted apart, and two bytes of one line are read in one chunk or in two (the proxied
run, whose log is no different, writes none); an override with and one without a line
that the probe looks for are the two ways it sees an Ollama that is not the manager's;
two updaters give an update during an update.  One deployment, one run,
one job and one row are enough where the code keys everything by its id: what
deployments share (the Ollama service, a node's memory) is part of the model.  `Move`
stands for the other users of the Ollama service.  With one row in `nodes` the second
row that a token registration of a machine added by address creates is not explored.

Only `gateway` and `hub` check for deadlock: the others end when the bounded requests
and faults have been used up and nothing is running, which is rest and not deadlock.

**Fairness.**

* `DgxrunRank`: a handler that has begun goes on (one event loop, and `execCapture`
  settles by its deadline whether docker answers or not), and both `setInterval` timers
  fire again and again.  Nothing is assumed of commands, reconnects, crashes or of
  containers dying.
* `DgxrunCluster`: the manager's handlers continue, agents handle what arrives, the
  health tick fires, a launch ends one way or the other, and an agent reconnects
  (`ws.on("close")` schedules `connect`).  Nothing is assumed of requests, faults,
  drops, or of the model ever becoming ready.
* `AgentHub`: handlers continue, the metrics timer and the sweep's timer fire, a dead
  socket is noticed in the end and time passes without an agent; nothing is assumed of
  connecting or of cutting.
* `Ollama`: awaits return (each has a timeout), the timer fires, the socket is reopened
  and systemd runs the job that was queued.
* `FineTune`: the agent handles its commands, the waits for the head and the workers
  have a time limit, the image build, which has none (`finetune.ts:509`), ends all the
  same, the merge and quantize scripts end, the watchdog's timer fires, the manager
  handles reports.  A training may run for ever.
* `Benchmark`: manager, agent and systemd go on with what they have begun, every call
  resolves (`invoke` has a timer), the agent connects again.  The command may run for
  ever.

`ShownSettles` excludes `late` because the code needs it: the close handler marks the
node offline without asking whether its socket is still the mapped one, the next
heartbeat revives map and row (`StatusSettles` holds with late closes), but it
announces only a recovery from the sweep, so open dashboards keep showing "offline".

## 4. What the properties except

Where the code does not keep what one would like, the models do the same and the
properties except exactly that.  These are the known deviations.

* **rank.**  A health tick between docker's create and start takes the launch for dead
  (`dgxrun-metrics.ts:109`); `deployment-store.ts:33` describes this as what the
  `starting` flag prevents.  The metrics timer shares `absentTicks` with the health
  timer and discards the verdict, so a vanished container may never be reported
  (`dgxrun-metrics.ts:58`).  A restart during a stop is untracked by the end of that
  stop (`dgxrun.ts:212`; `Overlap = TRUE`).
* **deployment.**  A worker's reconnect writes `running` while the head still loads
  (`dgxrun-reconcile.ts:37`, against `index.ts:878`).  `publishName` stores a name for
  a row that has failed meanwhile (`deployment-status-handler.ts:92`, against
  `CONTEXT.md:38`).  A DELETE sent while a rank is offline is not repeated.
* **admission.**  Nothing reserves what a check found free: two requests admitted on
  one reading may not fit together, and display names and ports are checked before the
  row exists.  A restart without a `displayName` does not validate the stored name
  again (`deployments.ts:948`).  A restart that fails to launch may leave the container
  of before up, with a row that has failed (`sparkrun.ts:51`).
* **nodes.** `/provision` writes "provisioning" and then refuses a row without an
  address (`nodes.ts:521`); a manager restart leaves "provisioning" behind; a failed
  provisioning stores a log that the next `/provision` cannot parse (`nodes.ts:516`,
  `nodes.ts:560`).  The exit code of a power command over SSH is not looked at; the
  agent acknowledges one it has launched, and if it then fails (a refused suspend, an
  inhibited shutdown) the row stays "asleep", "off" or "rebooting" under a connected
  agent until that registers again (`index.ts:1568`); a wake of a running node leaves
  "waking", a suspend whose socket survives leaves "asleep".  A run of the Ollama
  script that finds the storage unmounted takes `OLLAMA_MODELS=` out of the manager's
  own override, and Ollama restarts onto another model store (`dropin.ts:74`).  A
  foreign override with `User=` or `OLLAMA_MODELS=` is taken for the manager's
  (`dropin.ts:101`), and any foreign override is replaced as a whole
  (`provisioner.ts:169`).  Two overlapping Ollama scripts may strip the ownership
  lines, and a script cut between installation and marker disowns the manager's own
  Ollama (`dropin.ts:106`).
* **installation.** Under the unit `install.sh` writes, the restart kills the updater
  before its health check (`updater.ts:145` says it survives; `index.ts:1507` knows); a
  reboot between the two renames leaves no agent; a swap that fails and cannot be
  undone is reported as `failed` like one that left the agent untouched, though none is
  in place (`updater.ts:38`; `OutcomeTrue` asks only that the old one is whole in
  `-old`); a reconnect clears the update lock, so a second updater may start beside the
  first (`index.ts:163`).
* **Ollama.**  A pull that was aborted is followed by a "running" report
  (`index.ts:960`); stopping one deployment unloads a model another one shares.  A restart
  that lands between a tick's reading of a model as loaded and its use leaves "running"
  for the new cycle, and the load that follows may be reported as an eviction
  (`index.ts:619`).
* **fine-tuning.**  After an agent restart reports carry a truncated id and find no row
  (`finetune.ts:147` against `agent-hub.ts:679`); the workers of a resumed job are then
  not found by the cleanup; lost commands and reports leave a row where it is.  A failed
  `docker rm -f` goes unnoticed, on the head too (`finetune.ts:896`).  A restart of the
  deployment that begins or is under way while DELETE has read its row as terminal
  leaves a served model without rows (`routes/finetune.ts:550`); a start that crosses the
  report of the deployment's end leaves one whose row is terminal
  (`deployments.ts:1179`).
* **benchmarks.** A `job.start` answered after its time-out fails the row while the
  unit runs on (`remote-runner.ts:67`); one unanswered `job.result` fails a good run; a
  cancel before the run is polled is overwritten by "running"
  (`routes/benchmarks.ts:425`); an offset not yet stored when the manager ends makes
  bytes appear twice (`execute.ts:31`).  A line that a poll met half written is logged
  as two (`remote-runner.ts:79`), and a multi-byte character cut there is replaced; the
  null completions are counted from those lines.  The proof of `CompletedIsReal`
  brought out one more, which takes two restarts of the manager: the first sends
  `job.cancel` for a run whose proxy died with it (`boot-reconcile.ts:47`); the second
  finds the row still running and the unit deactivating, which `systemctl-parse.ts:18`
  counts as finished with the status 0 it still shows, so the run is carried on and may
  be recorded as completed although nobody knows how its command ended (`proxyLost`).

## 5. Proofs

Every theorem holds for every value of the constants: any set of nodes, ranks, workers,
deployments, rows, requests and updaters, and any bound.  The assumptions on the
constants (`...Assumption` in each module) only type them and make some sets finite.
Where a theorem assumes more, it says so with `ASSUME ... PROVE`:

* `~Overlap` and `~DockerFails` (`DgxrunRank`).  A restart sent while the stop before it
  still runs is untracked by that stop (section 4), and no stop can win when docker
  does not carry it out: the properties are false without them.
* `Patient` (`DgxrunCluster`, `FineTune`).  An operator who restarts what he is deleting
  can leave a rank up whose row is gone; one who stops a job while its POST is still
  under way, or asks for a stage again before it has ended, can leave containers of a
  job that is over, or a stage that reads what another one is writing.  The three
  properties are false without it: with `Patient = FALSE` TLC finds a counterexample to
  each on the instances of section 3.  The other theorems of the two modules do not
  assume it.

Each proof has the same shape: the type invariant, an inductive invariant for the
property, one step per action, and lemmas for the actions that disturb nothing.

| Theorem | Property | Inductive invariant, and why it is needed |
|---|---|---|
| `DgxrunRank` `StopForgetsCorrect` (`~Overlap`), `StopWinsCorrect` (`~Overlap`, `~DockerFails`) | `StopForgets`, `StopWins` | `OneLaunch`: at most one launch is in flight. `CancelPending`: after an undeploy a launch in flight still finds the cancel. `EntryDoomed`/`Doomed`: a tracked entry (a running container) then has something in flight that will remove it |
| `EvidenceKeptCorrect` | `EvidenceKept` | `EvidenceSafe`: while the evidence is claimed, no launch is in flight, no stop that would remove the container waits for docker, and the container has exited |
| `NoOrphanCorrect` (`~Overlap`, `~DockerFails`) | `NoOrphan` | `OrphanInv`: a launch nobody has hit goes from its `docker rm` to its `docker run` without a verdict under way and stays in the store; a verdict that hit no launch is about a container that is not running; what docker was told to take down is down |
| `PromiseKeptCorrect` (same) | refinement of `RankPromise` | the invariant of `StopWins`, with `up <- container = "running"`, `want <- lastCmd`, `busy <- LaunchInFlight \/ StopInFlight` |
| `DgxrunCluster` `TeardownCompleteCorrect` | `TeardownComplete` | `FanInv`: after a failure was fanned out, the last command on its way to every rank takes it down, or there is none and it is down |
| `DeleteCarriedThroughCorrect` | `DeleteCarriedThrough` | `DeleteInv`: a delete that is not confirmed has its row, and is about to be written or is, at some rank, in the queue to the agent, in the queue back, or handled and not written (`Flagged`). `LinkInv`: sockets close only by a drop |
| `RowGoneMeansDownCorrect` (`Patient`) | `RowGoneMeansDown` | `GoneInv`: the row is only deleted on request, and from the request on every rank is going down |
| `Admission` `AutoPickAgreesCorrect` | `AutoPickAgrees` | the candidates of the automatic choice pass the role check, whoever is online |
| `ReclaimEarnedCorrect` | `ReclaimEarned` | `ClaimInv`: what a row claims was granted; so does the copy of it a restart works with; one request at most creates a row; nothing runs without one |
| `AdmittedFitsCorrect` | `AdmittedFits` | `FitInv`: no node uses, or reported, more than it has, with the arithmetic of shares (a deployment's credit is at most its share of the total) |
| `Ollama` `NoGhostCorrect` | `NoGhost` | inductive by itself, given the types of the loop |
| `NoFalseEvictionCorrect` | `NoFalseEviction` | `FreshInv`: what is resident, what the tick has an opinion of, and what it has just read as loaded, counts as resident since its last deploy |
| `GoneIsForgottenCorrect` | `GoneIsForgotten` | `GoneInv`: of a deleted row the command was lost, its undeploy still runs, or nothing is left; no handler has a number that was not given out |
| `FineTune` `ServedHasRowsCorrect` | `ServedHasRows` | `ServeInv`: unless a start was crossed, the deployment is served, or about to be (`Starting`), only while its row is active and its end not under way, a DELETE sweeps only what it saw terminal, and no restart overlaps it |
| `OverMeansDownCorrect` (`Patient`) | `OverMeansDown` | `DownInv`: the start comes before every other command; until it is handled the agent has not heard of the job; every worker's container is known to the agent, out of ssh's reach or left by a restart; once the end is said, or on its way, nothing is up but what could not be removed (`HeadDown`) |
| `StagesInOrderCorrect` (`Patient`) | `StagesInOrder` | `MergeOnce`, `QuantizeOnce`: a stage is on its way to the agent, running or reported, one of the three and once, and meanwhile its row says so. `FilesInv`: what rows, reports and stages at work take for granted is on disk |
| `Nodes` `ProvisioningIsLiveCorrect` | `ProvisioningIsLive` | inductive by itself, given the types |
| `PowerHonestCorrect` | `PowerHonest` | `PowerInv` adds `LinkIsId`: the agent is connected as the row it was given |
| `OllamaOwnershipCorrect` | `OllamaOwnership` (action property) | `OwnInv`: without an overlap there is one script at a time (`OneScript`), the marker is beside the manager's own Ollama or an override the probe takes for its own (`Settings`), and what a script found still holds where it acts on it (`Placed`) |
| `AgentHost` `AuditHonestCorrect` | `AuditHonest` | `AuditInv`: a connected manager has the check on the final state, and a family counts as applied only while its rules are whole |
| `IdentityKeptCorrect` | `IdentityKept` | `HostInv`: `Alone` (no two updaters, none beside a script), `Progress` (where the update found, the new and the failed agent are, for each program counter), `Identity` (the file is there when the id was stored) |
| `OutcomeTrueCorrect` | `OutcomeTrue` (action property) | `HostInv` |
| `Gateway` `CountsExactCorrect` | `CountsExact` | `Aimed`: a request being forwarded has a target |
| `LeastOutstandingCorrect` | `LeastOutstanding` (action property) | the same |
| `EvenRotationCorrect` | `EvenRotation` (action property) | `RotationRemembered`: the member remembered of a name is where its rotation points in the tie remembered; two successive values below the wrap leave different remainders by a modulus of two or more |
| `Benchmark` `CompletedIsRealCorrect`, `NoFalseFailureCorrect`, `LogExactCorrect` | `CompletedIsReal`, `NoFalseFailure`, `LogExact` | `BenchmarkInv`, see below |

`BenchmarkInv` has five parts, each proved from the ones before it.

1. `Base`: types, and `CallInv`: the thread has one call under way at most, to the
   capability of the place where it waits.
2. `Life`: exit status, result and exit file come in this order (`JobInv`), and there is
   one `job.start` in the life of a run, which overlaps with no `job.status` unless its
   caller gave up (`StartInv`).  From these follows `JobAfter`, what any step may do to
   the job: once the command has ended only the unit changes, and a unit that is not
   there comes to be only by that `job.start`.
3. `Facts`: every answer under way still tells the truth when it is taken (`AnswerInv`),
   and so does what the thread remembers of earlier ones (`ThreadInv`).  This is the
   part a test hardly reaches: the answer was true when the agent gave it, and the job,
   the agent and the manager have moved on.
4. `Verdicts`: a unit is stopped only by a reboot, for a lost proxy, or for a run whose
   row is deleted or canceled for good (`StopInv`); a run that has ended is followed by
   nobody (`EndInv`); the reason a thread is about to write, and the reason in a failed
   row, hold of the job (`FailInv`, `FinInv`, `ErrInv`).
5. `Drains`: after the final drain the log is whole (`TailInv`), and the offset the
   thread reads from, or the one stored for its successor, is where the log ends
   (`OffsetInv`); a line is cut, or an offset in the middle of one, only after a read
   that met it half written (`CutInv`).

TLC checked all of them on the instance of section 3 and, for a proxied run without
mix-ups, with two faults; there it also finds the behaviour of section 4 when the
property does not except it.

Every module with proofs also proves its type invariant (`TypeCorrect`;
`GatewayTypeCorrect` and `BenchmarkTypeCorrect` in `Manager_proofs`).

Every invariant and every action property that a run checks is thereby a theorem.  Only
model-checked are the liveness properties (`UndeployConverges`, `FailureTearsDown`,
`StatusSettles`, `ShownSettles`, `RowFollowsMemory`, `RestoreHeals`, `DeleteEnds`,
`EveryStageEnds`, `DeleteStops`, `EveryRunEnds`, `CancelStops`): TLAPS does not do
liveness under fairness.  `AgentHub` promises nothing but that it settles, so there is
no theorem about it.

## 6. Not modelled, and the plan

Worth doing next: a coarse rank refined by `DgxrunRank`, which would join
`DgxrunCluster` to what is proved of one agent.

Left out: the dashboard; the catalogue, settings, dataset and cache routes, which are
requests over single rows or files; host metrics (that a reading is old when it is
used is in `Admission`); benchmark parsers, presets and peer evaluation, which convert
or aggregate finished results; the `known_hosts` reseeding, a throttled scan repeated
at the next registration; progress, phase and log parsing; the local benchmark runner;
the gateway's listings; and the vendored Python and kernels under `scripts/`.
