----------------------------- MODULE Admission -----------------------------
(***************************************************************************)
(* How the manager admits deployments: POST /api/deployments and POST      *)
(* /:id/restart, from the first check to the commands they send.           *)
(*                                                                         *)
(* Each request is a sequence of checks over state that others change in   *)
(* between: display names of rows, the node reading (the last metric, not  *)
(* the memory in use now), the recipe catalogue, the share a deployment    *)
(* was authorised for. Nothing reserves what a check found free. The       *)
(* requests under way are the slots; each step of a slot ends at an await  *)
(* whose result a later step uses.                                         *)
(*                                                                         *)
(* Shares of a node (gpu_memory_utilization) are in twentieths, so that    *)
(* the safety margin of 0.05 is 1 and the default share of 0.85 is 17.     *)
(*                                                                         *)
(* Sources: packages/server/src/routes/deployments.ts,                     *)
(* packages/server/src/admission/{vram,recipe-arch}.ts, packages/server/   *)
(* src/deployments/{display-name,maxoutmem}.ts, packages/server/src/nodes/ *)
(* role.ts, packages/agent/src/runtime/sparkrun.ts, and the sparkrun       *)
(* cmd:deploy and health tick of packages/agent/src/index.ts               *)
(***************************************************************************)
EXTENDS Integers, FiniteSets

CONSTANTS
  Nodes,        \* the nodes as numbers, in the order of their names
  Total,        \* memory of each node (Node.vramTotal)
  Role,         \* role of each node: gpu or eval
  Arch,         \* CPU architecture of each node
  RecipeArch,   \* the recipe's architecture, or "any"
  Ranks,        \* nodes the recipe wants: tensor x pipeline parallelism
  Shares,       \* shares a recipe may declare
  Deps,         \* deployments
  Slots,        \* requests under way at the same time
  Posts,        \* bodies of POST requests
  Restarts,     \* bodies of restart requests: gpuMem or NoShare, whether another
                \* setting is overridden, displayName or "absent"
  Foreigners,   \* node and memory taken there by what the manager has no row for
  MaxRequests,  \* bound: POST and restart requests
  MaxEvents     \* bound: recipe edits and changes of foreign memory

Unit == 20

NoShare == 0

ASSUME AdmissionAssumption ==
  /\ IsFiniteSet(Nodes) /\ Nodes \subseteq Nat
  /\ Total \in [Nodes -> Nat \ {0}]
  /\ Role \in [Nodes -> {"gpu", "eval"}]
  /\ Ranks \in Nat \ {0}
  /\ Shares \subseteq 1 .. Unit
  /\ \A p \in Posts : p.ask \in Int /\ p.node \in Nodes
  /\ \A b \in Restarts : b.ask \in Int
  /\ Foreigners \subseteq Nodes \X Nat
  /\ {MaxRequests, MaxEvents} \subseteq Nat

VARIABLES
  row,      \* Deployment: status, nodes, displayName and config
  run,      \* what the agents run for it: phase (down, launching, up, stray: a
            \* container whose record is gone), share it was launched at
  held,     \* memory it holds on each node
  inuse,    \* memory in use on each node, by whomever
  foreign,  \* the part of it that no deployment holds
  reading,  \* vramUsed of the last metric of each node
  catalog,  \* gpu_memory_utilization the recipe declares now
  task,     \* the request in each slot
  granted,  \* history: shares each deployment was created or overridden with
  misled,   \* history: an auto request was turned down for its node's role
  budget    \* requests and events so far

vars == <<row, run, held, inuse, foreign, reading, catalog, task, granted,
          misled, budget>>

fleet == <<run, held, inuse, foreign, reading, catalog>>

\* What the checks tell apart: one of ACTIVE_DEPLOYMENT_STATUSES, or one of the
\* others (failed, stopped, removing).
Statuses == {"none", "active", "ended"}

NoRow == [status |-> "none", nodes |-> {}, runtime |-> "vllm", name |-> "",
          gpuMem |-> NoShare, auth |-> NoShare]

Idle == [at |-> "idle"]

Down == [at |-> "down", share |-> NoShare]

\* Nothing is deployed, or the first deployment predates authorisedGpuMem and
\* is serving. No metric has been stored yet.
Init ==
  /\ catalog \in Shares
  /\ \E old \in SUBSET {CHOOSE d \in Deps : TRUE}, home \in Nodes :
       LET takes(d, n) == IF d \in old /\ n = home
                          THEN (Total[n] * catalog) \div Unit ELSE 0
       IN  /\ old # {} => Role[home] = "gpu"
           /\ row = [d \in Deps |-> IF d \notin old THEN NoRow
                     ELSE [NoRow EXCEPT !.status = "active", !.nodes = {home}]]
           /\ run = [d \in Deps |-> IF d \in old
                     THEN [at |-> "up", share |-> catalog] ELSE Down]
           /\ held = [d \in Deps |-> [n \in Nodes |-> takes(d, n)]]
           /\ inuse = [n \in Nodes |-> takes(CHOOSE d \in Deps : TRUE, n)]
  /\ foreign = [n \in Nodes |-> 0]
  /\ reading = [n \in Nodes |-> 0]
  /\ task = [s \in Slots |-> Idle]
  /\ granted = [d \in Deps |-> {}]
  /\ misled = FALSE
  /\ budget = [requests |-> 0, events |-> 0]

-----------------------------------------------------------------------------
(* Shares and memory: admission/vram.ts.                                    *)

\* Math.round of a share of a node's memory.
ShareOf(n, share) == (2 * Total[n] * share + Unit) \div (2 * Unit)

DefaultShare == 17

SafetyMargin(n) == ShareOf(n, 1)

IsUsableShare(v) == v > 0 /\ v <= Unit

\* firstUsableShare over two candidates and the catalogue's default.
FirstUsableShare(first, second) ==
  IF IsUsableShare(first) THEN first
  ELSE IF IsUsableShare(second) THEN second
  ELSE IF IsUsableShare(catalog) THEN catalog ELSE DefaultShare

Least(a, b) == IF a <= b THEN a ELSE b

Greatest(a, b) == IF a <= b THEN b ELSE a

\* mutant: whatever the reading leaves unexplained is the restart's own
ReclaimEverything(n, authorised) == reading[n]

\* reclaimForRestart: at most the authorised share, at most the reading.
Reclaim(n, authorised) ==
  Greatest(0, Least(ShareOf(n, authorised), reading[n]))

\* computeVramShortfall on the last reading, credited with what the restart is
\* about to release.
Short(n, requested, credit) ==
  LET used == Greatest(0, reading[n] - Greatest(0, credit))
      available == Greatest(0, Total[n] - used)
  IN  available < ShareOf(n, requested) + SafetyMargin(n)

\* checkVllmVramAdmission: the nodes that cannot take the request.
Shortfalls(nodes, requested, credit) ==
  {n \in nodes : Short(n, requested, credit[n])}

\* By how much the memory really free on n, once d has released what it holds,
\* misses the request and the margin, beyond what the reading was off and what
\* d holds less than its authorised share.
Excess(n, d, requested, authorised) ==
  LET others == inuse[n] - held[d][n]
      stale == inuse[n] - reading[n]
      unheld == Greatest(0, ShareOf(n, authorised) - held[d][n])
  IN  others + ShareOf(n, requested) + SafetyMargin(n) - Total[n] - stale - unheld

-----------------------------------------------------------------------------
(* Names and nodes.                                                         *)

\* validateDisplayNameUnique
NameTaken(name, d) ==
  /\ name # ""
  /\ \E e \in Deps \ {d} : row[e].name = name /\ row[e].status = "active"

\* runtimeAllowedOnNode: RUNTIMES_ALLOWED_ON_EVAL is empty.
RuntimeAllowed(n, runtime) == Role[n] # "eval"

\* mutant: the pick restates an older rule instead of asking
PickOllamaAnywhere(n, runtime) == runtime = "ollama" \/ Role[n] # "eval"

\* The filter of the automatic choice.
PickFilter(n, runtime) == RuntimeAllowed(n, runtime)

Candidates(online, runtime) == {n \in online : PickFilter(n, runtime)}

\* The k first candidates in the order of their names.
FirstOf(k, S) == {n \in S : Cardinality({m \in S : m < n}) < k}

\* The nodes of a request: chosen, or named by the caller; none if too few, and
\* none where a cluster is asked for and the recipe wants a single node: that list
\* of one is no cluster, and no nodeId was given.
Target(p, online) ==
  LET all == Candidates(online, p.runtime) IN
  CASE p.target = "auto" -> FirstOf(1, all)
    [] p.target = "cluster" -> IF Ranks = 1 \/ Cardinality(all) < Ranks THEN {}
                               ELSE FirstOf(Ranks, all)
    [] OTHER -> {p.node}

ArchAllowed(n) == RecipeArch = "any" \/ Arch[n] = RecipeArch

\* One node of another architecture sinks the deploy; Ollama runs on any.
ForeignArch(nodes, runtime) ==
  runtime # "ollama" /\ \E n \in nodes : ~ArchAllowed(n)

-----------------------------------------------------------------------------
(* POST /api/deployments.                                                   *)

\* A request may begin; a refusal ends one, and changes nothing else.
MayBegin(s) ==
  /\ task[s].at = "idle"
  /\ budget.requests < MaxRequests
  /\ budget' = [budget EXCEPT !.requests = @ + 1]

Refuse(s) == task' = [task EXCEPT ![s] = Idle]

\* Another request is already creating this deployment.
Creating(d) ==
  \E t \in Slots : task[t].at \in {"pick", "admit", "create"} /\ task[t].dep = d

\* The name is looked up first; Ollama takes none.
PostBegin(s, d, p) ==
  /\ MayBegin(s)
  /\ row[d].status = "none" /\ ~Creating(d)
  /\ ~NameTaken(p.name, d)
  /\ p.runtime = "ollama" => p.name = ""
  /\ task' = [task EXCEPT ![s] = [at |-> "pick", dep |-> d, post |-> p]]
  /\ UNCHANGED <<row, fleet, granted, misled>>

\* Nodes, role, architecture: anything that does not fit ends the request.
PostPick(s) ==
  /\ task[s].at = "pick"
  /\ \E online \in SUBSET Nodes :
     LET p == task[s].post
         nodes == Target(p, online)
         barred == {n \in nodes : ~RuntimeAllowed(n, p.runtime)}
     IN  /\ misled' = (misled \/ (barred # {} /\ p.target \in {"auto", "cluster"}))
         /\ IF nodes = {} \/ barred # {} \/ ForeignArch(nodes, p.runtime)
            THEN Refuse(s)
            ELSE task' = [task EXCEPT ![s] =
                   [at |-> IF p.runtime = "ollama" THEN "create" ELSE "admit",
                    dep |-> task[s].dep, post |-> p, nodes |-> nodes,
                    share |-> NoShare, excess |-> {}]]
  /\ UNCHANGED <<row, fleet, granted, budget>>

\* The share a fresh deploy requests; it is not validated here.
PostShare(ask) == IF ask # NoShare THEN ask ELSE catalog

\* checkVllmVramAdmission without a reclaim.
PostAdmit(s) ==
  /\ task[s].at = "admit"
  /\ LET share == PostShare(task[s].post.ask)
         nodes == task[s].nodes
     IN  IF Shortfalls(nodes, share, [n \in nodes |-> 0]) # {} THEN Refuse(s)
         ELSE task' = [task EXCEPT
                ![s].at = "create", ![s].share = share,
                ![s].excess = {Excess(n, task[s].dep, share, 0) : n \in nodes}]
  /\ UNCHANGED <<row, fleet, granted, misled, budget>>

\* The row, and with it the share a restart may credit itself with.
PostCreate(s) ==
  /\ task[s].at = "create"
  /\ row' = [row EXCEPT ![task[s].dep] =
       [status |-> "active", nodes |-> task[s].nodes,
        runtime |-> task[s].post.runtime, name |-> task[s].post.name,
        gpuMem |-> task[s].post.ask, auth |-> task[s].share]]
  /\ granted' = [granted EXCEPT ![task[s].dep] = @ \cup {task[s].share}]
  /\ task' = [task EXCEPT ![s].at = "reclaim"]
  /\ UNCHANGED <<fleet, misled, budget>>

-----------------------------------------------------------------------------
(* The agents.                                                              *)

\* What d holds is released.
Release(d) ==
  /\ held' = [held EXCEPT ![d] = [n \in Nodes |-> 0]]
  /\ inuse' = [n \in Nodes |-> inuse[n] - held[d][n]]

\* An earlier container of d is there.
Holds(d) == \E n \in Nodes : held[d][n] > 0

\* launchSparkrun, which removes nothing, and what the other runtimes do in its
\* place: docker rm -f, before the launch.
Launch(d, share) ==
  /\ run' = [run EXCEPT ![d] = [at |-> "launching", share |-> share]]
  /\ Release(d) \/ UNCHANGED <<held, inuse>>

\* cmd:deploy, with the share the launch honours, and the agent's first report;
\* a command to a node that is away is lost, and nobody is told.
Deploy(d, share, record) ==
  \/ /\ Launch(d, share)
     /\ row' = [row EXCEPT ![d] = [record EXCEPT !.status = "active"]]
  \/ /\ row' = [row EXCEPT ![d] = record]
     /\ UNCHANGED <<run, held, inuse>>

\* Whether the recipe asks for maxoutmem, as far as the manager finds out: from
\* the recipe it holds, or from a command on the head node.
MaxOutMem == BOOLEAN

\* reclaimMemoryCmd on the nodes reached, each by itself: the desktop stopped and
\* the caches dropped, what nobody deployed is free.
ReclaimMemory(reached) ==
  /\ inuse' = [n \in Nodes |-> IF n \in reached
                               THEN inuse[n] - foreign[n] ELSE inuse[n]]
  /\ foreign' = [n \in Nodes |-> IF n \in reached THEN 0 ELSE foreign[n]]

\* maxOutMemoryForDeploy; the request goes on whatever comes of it.
PostReclaim(s) ==
  /\ task[s].at = "reclaim"
  /\ \E enabled \in MaxOutMem :
       IF enabled /\ task[s].post.runtime # "ollama"
       THEN \E reached \in SUBSET task[s].nodes : ReclaimMemory(reached)
       ELSE UNCHANGED <<inuse, foreign>>
  /\ task' = [task EXCEPT ![s].at = "send"]
  /\ UNCHANGED <<row, run, held, reading, catalog, granted, misled, budget>>

\* The commands, with what the request knew when it began.
PostSend(s) ==
  /\ task[s].at = "send"
  /\ LET d == task[s].dep IN
     Deploy(d, PostShare(task[s].post.ask), row[d])
  /\ task' = [task EXCEPT ![s] = Idle]
  /\ UNCHANGED <<foreign, reading, catalog, granted, misled, budget>>

\* The container comes up with its share, or with less of it, in the place of an
\* earlier one.
Starts(d) ==
  /\ run[d].at = "launching"
  /\ \E some \in BOOLEAN :
       LET takes(n) == IF n \notin row[d].nodes THEN 0
                       ELSE IF some THEN 1 ELSE ShareOf(n, run[d].share)
       IN  /\ \A n \in Nodes : takes(n) >= 0 /\ inuse[n] - held[d][n] + takes(n) <= Total[n]
           /\ held' = [held EXCEPT ![d] = [n \in Nodes |-> takes(n)]]
           /\ inuse' = [n \in Nodes |-> inuse[n] - held[d][n] + takes(n)]
  /\ run' = [run EXCEPT ![d].at = "up"]
  /\ row' = [row EXCEPT ![d].status = "active"]
  /\ UNCHANGED <<foreign, reading, catalog, task, granted, misled, budget>>

\* The end of what runs for d, and of the memory it holds.
StopRun(d) == run' = [run EXCEPT ![d] = Down] /\ Release(d)

\* The launcher exits with an error: failed is reported.  An earlier container may
\* be left, which the record may tell of or not.
LaunchFails(d) ==
  /\ run[d].at = "launching"
  /\ \/ StopRun(d)
     \/ \E at \in {"up", "stray"} :
          /\ Holds(d)
          /\ run' = [run EXCEPT ![d].at = at]
          /\ UNCHANGED <<held, inuse>>
  /\ row' = [row EXCEPT ![d].status = "ended"]
  /\ UNCHANGED <<foreign, reading, catalog, task, granted, misled, budget>>

\* isWorkloadRunning: there is a container, and the agent still has the record.
Listed(d) == run[d].at = "up" \/ (run[d].at = "launching" /\ Holds(d))

\* What checkSparkrunDeployments can find dead or restarting in a loop: not a
\* launch that has no container yet.
FoundDead(d) == Listed(d)

\* The health tick reports failed, and stops the rest of it.
ContainerDies(d) ==
  /\ FoundDead(d)
  /\ StopRun(d)
  /\ row' = [row EXCEPT ![d].status = "ended"]
  /\ UNCHANGED <<foreign, reading, catalog, task, granted, misled, budget>>

\* The health tick finds it up and says so (starting, then running), whatever
\* the row has come to say meanwhile.
HealthTick(d) ==
  /\ Listed(d)
  /\ row[d].status # "active"
  /\ row' = [row EXCEPT ![d].status = "active"]
  /\ UNCHANGED <<fleet, task, granted, misled, budget>>

\* reconcileDeployStatus, asked without a launcher.
ReconcileDeployStatus(listed) == IF listed THEN "active" ELSE "ended"

\* The agent registers again and reconciles what it has records of: a launch
\* under way is reported failed, and goes on.
Reconcile(d) ==
  /\ run[d].at \in {"launching", "up"}
  /\ row' = [row EXCEPT ![d].status = ReconcileDeployStatus(Listed(d))]
  /\ UNCHANGED <<fleet, task, granted, misled, budget>>

\* DELETE /api/deployments/:id.  A command to an agent that is away is lost; a
\* stopSparkrun that fails drops the record all the same and leaves the
\* container to itself.
Stop(d) ==
  /\ row[d].status = "active"
  /\ row' = [row EXCEPT ![d].status = "ended"]
  /\ \/ StopRun(d)
     \/ UNCHANGED <<run, held, inuse>>
     \/ /\ Listed(d)
        /\ run' = [run EXCEPT ![d].at = "stray"]
        /\ UNCHANGED <<held, inuse>>
  /\ UNCHANGED <<foreign, reading, catalog, task, granted, misled, budget>>

-----------------------------------------------------------------------------
(* POST /api/deployments/:id/restart.                                       *)

\* The override wins over the saved share; what results must be usable. The
\* name is looked up again only when the body carries one.
RestartBegin(s, d, body) ==
  /\ MayBegin(s)
  /\ row[d].status # "none"
  /\ LET merged == IF body.ask # NoShare THEN body.ask ELSE row[d].gpuMem
         name == IF body.name = "absent" THEN row[d].name ELSE body.name
     IN  /\ merged = NoShare \/ IsUsableShare(merged)
         /\ body.name = "absent" \/ ~NameTaken(name, d)
         /\ task' = [task EXCEPT ![s] =
              [at |-> IF row[d].runtime = "ollama" THEN "resend" ELSE "readmit",
               dep |-> d, body |-> body, name |-> name, saved |-> row[d],
               merged |-> merged, share |-> NoShare, credit |-> NoShare,
               excess |-> {}]]
  /\ UNCHANGED <<row, fleet, granted, misled>>

\* mutant: the override counts for what the deployment was authorised for too
AuthorisedByOverride(t) == FirstUsableShare(t.merged, t.saved.auth)

\* What the deployment was authorised for: its own record first.
AuthorisedShare(t) == FirstUsableShare(t.saved.auth, t.saved.gpuMem)

\* checkVllmVramAdmission with the restarting deployment's reclaim.
RestartAdmit(s) ==
  /\ task[s].at = "readmit"
  /\ LET t == task[s]
         share == FirstUsableShare(t.merged, NoShare)
         authorised == AuthorisedShare(t)
         nodes == t.saved.nodes
         credit == [n \in nodes |-> Reclaim(n, authorised)]
     IN  IF Shortfalls(nodes, share, credit) # {} THEN Refuse(s)
         ELSE task' = [task EXCEPT
                ![s].at = "resend", ![s].share = share, ![s].credit = authorised,
                ![s].excess = {Excess(n, t.dep, share, authorised) : n \in nodes}]
  /\ UNCHANGED <<row, fleet, granted, misled, budget>>

\* The claim moves with an override and with nothing else.
Claim(t) == IF t.body.ask # NoShare THEN t.share ELSE t.saved.auth

\* configDirty
Dirty(t) == t.body.other \/ t.body.ask # NoShare

\* The commands go out and the row is written in one turn: the whole config as
\* it was read, with the overrides, if there was one; the name if it changed. A
\* dgxrun deployment without a recipe or an address is refused instead.
RestartSend(s) ==
  /\ task[s].at = "resend"
  /\ LET t == task[s]
         d == t.dep
         now == [row[d] EXCEPT !.status = "active"]
         named == IF t.name # t.saved.name THEN [now EXCEPT !.name = t.name]
                  ELSE now
         record == IF ~Dirty(t) THEN named
                   ELSE [named EXCEPT !.gpuMem = t.merged, !.auth = Claim(t)]
     IN  \/ /\ Deploy(d, PostShare(t.merged), record)
            /\ granted' = IF t.body.ask = NoShare \/ t.saved.runtime = "ollama"
                          THEN granted
                          ELSE [granted EXCEPT ![d] = @ \cup {t.share}]
         \/ /\ t.saved.runtime # "ollama"
            /\ UNCHANGED <<row, run, held, inuse, granted>>
  /\ task' = [task EXCEPT ![s] = Idle]
  /\ UNCHANGED <<foreign, reading, catalog, misled, budget>>

-----------------------------------------------------------------------------
(* What changes around them.                                                *)

Event ==
  /\ budget.events < MaxEvents
  /\ budget' = [budget EXCEPT !.events = @ + 1]

\* agent:metrics
Metric(n) ==
  /\ reading[n] # inuse[n]
  /\ reading' = [reading EXCEPT ![n] = inuse[n]]
  /\ UNCHANGED <<row, run, held, inuse, foreign, catalog, task, granted, misled,
                 budget>>

\* A training run, a hand-started container, a survivor of an offboarding.
Foreign(n, amount) ==
  /\ Event
  /\ inuse[n] + amount <= Total[n]
  /\ inuse' = [inuse EXCEPT ![n] = @ + amount]
  /\ foreign' = [foreign EXCEPT ![n] = @ + amount]
  /\ UNCHANGED <<row, run, held, reading, catalog, task, granted, misled>>

\* The catalogue is refreshed with an edited recipe.
RecipeEdited(share) ==
  /\ Event
  /\ share # catalog /\ catalog' = share
  /\ UNCHANGED <<row, run, held, inuse, foreign, reading, task, granted,
                 misled>>

-----------------------------------------------------------------------------

Request(s) ==
  \/ \E d \in Deps, p \in Posts : PostBegin(s, d, p)
  \/ PostPick(s) \/ PostAdmit(s) \/ PostCreate(s)
  \/ PostReclaim(s) \/ PostSend(s)
  \/ \E d \in Deps, b \in Restarts : RestartBegin(s, d, b)
  \/ RestartAdmit(s) \/ RestartSend(s)

Next ==
  \/ \E s \in Slots : Request(s)
  \/ \E d \in Deps : Starts(d) \/ LaunchFails(d) \/ ContainerDies(d)
                   \/ HealthTick(d) \/ Reconcile(d) \/ Stop(d)
  \/ \E n \in Nodes : Metric(n)
  \/ \E f \in Foreigners : Foreign(f[1], f[2])
  \/ \E share \in Shares : RecipeEdited(share)

Spec == Init /\ [][Next]_vars

-----------------------------------------------------------------------------
(* Properties.                                                              *)

Names == {p.name : p \in Posts} \cup {b.name : b \in Restarts} \cup {""}

Runtimes == {p.runtime : p \in Posts} \cup {"vllm"}

RowType == [status : Statuses, nodes : SUBSET Nodes, runtime : Runtimes,
            name : Names, gpuMem : Int, auth : Int]

\* A request that has a deployment, one that also has its nodes, a restart.
PickTask == [at : {"pick"}, dep : Deps, post : Posts]
PostTask == [at : {"admit", "create", "reclaim", "send"}, dep : Deps,
             post : Posts, nodes : SUBSET Nodes, share : Int,
             excess : SUBSET Int]
RestartTask == [at : {"readmit", "resend"}, dep : Deps, body : Restarts,
                name : Names, saved : RowType, merged : Int, share : Int,
                credit : Int, excess : SUBSET Int]

\* Every variable has its shape.
TypeOK ==
  /\ row \in [Deps -> RowType]
  /\ run \in [Deps -> [at : {"down", "launching", "up", "stray"}, share : Int]]
  /\ held \in [Deps -> [Nodes -> Nat]]
  /\ inuse \in [Nodes -> Int] /\ foreign \in [Nodes -> Nat]
  /\ reading \in [Nodes -> Int]
  /\ catalog \in Shares
  /\ task \in [Slots -> {Idle} \cup PickTask \cup PostTask \cup RestartTask]
  /\ granted \in [Deps -> SUBSET Int] /\ misled \in BOOLEAN
  /\ budget \in [requests : Nat, events : Nat]

\* Whatever a request was admitted to, once its deployment has released what it
\* holds the node really has room for it and for the margin, but for what the
\* reading was out of date and what the deployment holds less than it may:
\* memory the manager has no record of counts against a restart (ADR 0004,
\* Decisions 3 and 4; reclaimForRestart and computeVramShortfall).
AdmittedFits ==
  \A s \in Slots :
    task[s].at \in {"create", "reclaim", "send", "resend"}
      => \A e \in task[s].excess : e <= 0

\* A restart is credited with a share this deployment was itself admitted to,
\* by its creation or by an override: no recipe edit, no override it asks for
\* now and no restart that overtakes another widens it. A row that records no
\* usable share is credited with what its recipe declares (deployments.ts,
\* authorisedGpuMem).
ReclaimEarned ==
  \A s \in Slots :
    (/\ task[s].at = "resend" /\ task[s].saved.runtime # "ollama"
     /\ IsUsableShare(task[s].saved.auth))
      => task[s].credit \in granted[task[s].dep]

\* The automatic choice of nodes and the role check that follows it agree: no
\* auto request is turned down for the role of a node it did not name
\* (deployments.ts, effectiveRuntimeForPick).
AutoPickAgrees == ~misled

=============================================================================
