-------------------------- MODULE Admission_proofs --------------------------
(***************************************************************************)
(* Machine-checked proofs about Admission, for any fleet, recipes, request *)
(* bodies and number of requests under way.                                *)
(***************************************************************************)
EXTENDS Admission, TLAPS

\* Requests that will write a new row, and restarts.
New == {"pick", "admit", "create"}
Again == {"readmit", "resend"}

\* The claim of a row is a share the deployment was granted.
Entitled(d, record) ==
  record.runtime # "ollama" /\ IsUsableShare(record.auth)
    => record.auth \in granted[d]

\* A request has a row from its creation on; the copy a restart works with is
\* as entitled as the row, and the credit is the claim in that copy.
TaskOK(t) ==
  /\ t.at \in New => row[t.dep].status = "none"
  /\ t.at \in {"reclaim", "send"} \cup Again => row[t.dep].status # "none"
  /\ t.at \in Again =>
       /\ t.saved.runtime = row[t.dep].runtime /\ Entitled(t.dep, t.saved)
       /\ (/\ t.at = "resend" /\ t.saved.runtime # "ollama"
           /\ IsUsableShare(t.saved.auth))
            => t.credit = t.saved.auth

\* A row that does not exist yet is being created by one request at most.
OneCreator ==
  \A s, t \in Slots :
    task[s].at \in New /\ task[t].at \in New /\ task[s].dep = task[t].dep
      => s = t

\* The inductive invariant behind ReclaimEarned.
ClaimInv ==
  /\ \A d \in Deps : Entitled(d, row[d])
  /\ \A d \in Deps : run[d].at # "down" => row[d].status # "none"
  /\ \A s \in Slots : TaskOK(task[s])
  /\ OneCreator

\* The inductive invariant behind AdmittedFits: no node uses, or reported, more
\* memory than it has.
Within ==
  \A n \in Nodes : inuse[n] <= Total[n] /\ reading[n] <= Total[n]

FitInv == Within /\ AdmittedFits

USE DEF fleet

-----------------------------------------------------------------------------
(* Types.                                                                  *)

\* The shape of a request at each of its places.
LEMMA TaskShape ==
  ASSUME TypeOK, NEW s \in Slots
  PROVE  /\ task[s].at = "pick" => task[s] \in PickTask
         /\ task[s].at \in {"admit", "create", "reclaim", "send"}
              => task[s] \in PostTask
         /\ task[s].at \in Again => task[s] \in RestartTask
         /\ task[s].at \in {"idle", "pick", "admit", "create", "reclaim", "send",
                            "readmit", "resend"}
<1>1. CASE task[s] = Idle
  BY <1>1 DEF Idle, Again
<1>2. CASE task[s] \in PickTask
  BY <1>2 DEF PickTask, Again
<1>3. CASE task[s] \in PostTask
  BY <1>3 DEF PostTask, Again
<1>4. CASE task[s] \in RestartTask
  BY <1>4 DEF RestartTask, Again
<1> QED BY <1>1, <1>2, <1>3, <1>4 DEF TypeOK

\* A request moves on, or ends.
LEMMA TaskType ==
  ASSUME task \in [Slots -> {Idle} \cup PickTask \cup PostTask \cup RestartTask],
         NEW s \in Slots,
         NEW t \in {Idle} \cup PickTask \cup PostTask \cup RestartTask,
         task' = [task EXCEPT ![s] = t]
  PROVE  /\ task' \in [Slots -> {Idle} \cup PickTask \cup PostTask \cup RestartTask]
         /\ task'[s] = t
         /\ \A r \in Slots : r # s => task'[r] = task[r]
OBVIOUS

\* A row, with a new status or a new configuration.
LEMMA RowStatusType ==
  ASSUME TypeOK, NEW d \in Deps, NEW x \in Statuses,
         row' = [row EXCEPT ![d].status = x]
  PROVE  /\ row' \in [Deps -> RowType]
         /\ row'[d].status = x /\ row'[d].runtime = row[d].runtime
         /\ row'[d].auth = row[d].auth /\ row'[d].nodes = row[d].nodes
         /\ \A e \in Deps : e # d => row'[e] = row[e]
<1>1. LET r == [row[d] EXCEPT !.status = x] IN
        /\ r \in RowType /\ r.status = x /\ r.runtime = row[d].runtime
        /\ r.auth = row[d].auth /\ r.nodes = row[d].nodes
  BY DEF TypeOK, RowType
<1> QED BY <1>1 DEF TypeOK

\* The blank row.
LEMMA NoRowType == NoRow \in RowType /\ NoRow.status = "none" /\ NoRow.auth = 0
BY DEF NoRow, RowType, Statuses, Names, Runtimes, NoShare

\* Shares of a node's memory are integers.
LEMMA ShareOfType ==
  ASSUME NEW n \in Nodes, NEW x \in Int
  PROVE  ShareOf(n, x) \in Int
<1>1. Total[n] \in Int BY AdmissionAssumption DEF AdmissionAssumption
<1>2. 2 * Total[n] * x + 20 \in Int BY <1>1
<1> QED BY <1>2 DEF ShareOf, Unit

\* The share of the recipe.
LEMMA CatalogType ==
  ASSUME catalog \in Shares
  PROVE  catalog \in Int /\ catalog \in 1 .. 20
BY AdmissionAssumption DEF AdmissionAssumption, Unit

\* A share that is picked from what there is.
LEMMA PickedShareType ==
  ASSUME catalog \in Shares, NEW a \in Int, NEW b \in Int
  PROVE  FirstUsableShare(a, b) \in Int /\ PostShare(a) \in Int
<1>1. catalog \in Int BY CatalogType
<1>2. FirstUsableShare(a, b) \in {a, b, catalog, 17}
  BY DEF FirstUsableShare, DefaultShare
<1>3. PostShare(a) \in {a, catalog} BY DEF PostShare
<1> QED BY <1>1, <1>2, <1>3

\* The memory of a deployment is released.
LEMMA ReleaseType ==
  ASSUME TypeOK, NEW d \in Deps, Release(d)
  PROVE  /\ held' \in [Deps -> [Nodes -> Nat]]
         /\ inuse' \in [Nodes -> Int]
         /\ \A n \in Nodes : inuse'[n] <= inuse[n]
<1>1. \A n \in Nodes : held[d][n] \in Nat /\ inuse[n] \in Int BY DEF TypeOK
<1>2. [n \in Nodes |-> 0] \in [Nodes -> Nat] OBVIOUS
<1>3. held' \in [Deps -> [Nodes -> Nat]] BY <1>2 DEF Release, TypeOK
<1> QED BY <1>1, <1>3 DEF Release

\* cmd:deploy: the row is the one given, with whatever status.
LEMMA DeployType ==
  ASSUME TypeOK, NEW d \in Deps, NEW x \in Int, NEW record \in RowType,
         Deploy(d, x, record)
  PROVE  /\ run' \in [Deps -> [at : {"down", "launching", "up", "stray"},
                               share : Int]]
         /\ held' \in [Deps -> [Nodes -> Nat]]
         /\ inuse' \in [Nodes -> Int]
         /\ \A n \in Nodes : inuse'[n] <= inuse[n]
         /\ row' \in [Deps -> RowType]
         /\ row'[d].runtime = record.runtime /\ row'[d].auth = record.auth
         /\ row'[d].status \in {"active", record.status}
         /\ \A e \in Deps : e # d => row'[e] = row[e] /\ run'[e] = run[e]
<1>1. CASE /\ Launch(d, x)
           /\ row' = [row EXCEPT ![d] = [record EXCEPT !.status = "active"]]
  <2>1. LET r == [record EXCEPT !.status = "active"] IN
          /\ r \in RowType /\ r.status = "active" /\ r.runtime = record.runtime
          /\ r.auth = record.auth
    BY DEF RowType, Statuses
  <2>2. /\ run' \in [Deps -> [at : {"down", "launching", "up", "stray"}, share : Int]]
        /\ \A e \in Deps : e # d => run'[e] = run[e]
    BY <1>1 DEF Launch, TypeOK
  <2>3. /\ held' \in [Deps -> [Nodes -> Nat]] /\ inuse' \in [Nodes -> Int]
        /\ \A n \in Nodes : inuse'[n] <= inuse[n]
    BY <1>1, ReleaseType DEF Launch, TypeOK
  <2>4. /\ row' \in [Deps -> RowType]
        /\ row'[d] = [record EXCEPT !.status = "active"]
        /\ \A e \in Deps : e # d => row'[e] = row[e]
    BY <1>1, <2>1 DEF TypeOK
  <2> QED BY <2>1, <2>2, <2>3, <2>4
<1>2. CASE /\ row' = [row EXCEPT ![d] = record]
           /\ UNCHANGED <<run, held, inuse>>
  <2>1. \A n \in Nodes : inuse[n] \in Int BY DEF TypeOK
  <2> QED BY <1>2, <2>1 DEF TypeOK
<1> QED BY <1>1, <1>2 DEF Deploy

-----------------------------------------------------------------------------
(* What each step of a request leaves it as.                               *)

\* After the choice of the nodes: refused, or with nodes of the fleet.
PickedTask(s, t) ==
  \/ t = Idle
  \/ /\ t \in PostTask /\ t.at \in {"admit", "create"}
     /\ t.dep = task[s].dep /\ t.excess = {}

\* Nodes the manager chooses itself have the role the runtime needs.
LEMMA TargetType ==
  ASSUME NEW p \in Posts, NEW online \in SUBSET Nodes
  PROVE  /\ Target(p, online) \in SUBSET Nodes
         /\ p.target \in {"auto", "cluster"}
              => \A n \in Target(p, online) : RuntimeAllowed(n, p.runtime)
<1>1. p.node \in Nodes BY AdmissionAssumption DEF AdmissionAssumption
<1>2. \A k : FirstOf(k, Candidates(online, p.runtime))
               \subseteq Candidates(online, p.runtime)
  BY DEF FirstOf
<1>3. /\ Candidates(online, p.runtime) \subseteq Nodes
      /\ \A n \in Candidates(online, p.runtime) : RuntimeAllowed(n, p.runtime)
  BY DEF Candidates, PickFilter
<1>4. CASE p.target \in {"auto", "cluster"}
  <2>1. Target(p, online) \subseteq Candidates(online, p.runtime)
    BY <1>2, <1>4 DEF Target
  <2> QED BY <1>3, <2>1
<1>5. CASE p.target \notin {"auto", "cluster"}
  BY <1>1, <1>5 DEF Target
<1> QED BY <1>4, <1>5

\* PostPick either ends the request or passes a well-formed task on.
LEMMA PickStep ==
  ASSUME TypeOK, NEW s \in Slots, PostPick(s)
  PROVE  /\ \E t : PickedTask(s, t) /\ task' = [task EXCEPT ![s] = t]
         /\ misled' = misled
<1>1. task[s] \in PickTask BY TaskShape DEF PostPick
<1> DEFINE p == task[s].post
<1>2. p \in Posts /\ task[s].dep \in Deps BY <1>1 DEF PickTask
<1>3. PICK online \in SUBSET Nodes :
        LET nodes == Target(p, online)
            barred == {n \in nodes : ~RuntimeAllowed(n, p.runtime)}
        IN  /\ misled' = (misled \/ (barred # {} /\ p.target \in {"auto", "cluster"}))
            /\ \/ Refuse(s)
               \/ task' = [task EXCEPT ![s] =
                   [at |-> IF p.runtime = "ollama" THEN "create" ELSE "admit",
                    dep |-> task[s].dep, post |-> p, nodes |-> nodes,
                    share |-> NoShare, excess |-> {}]]
  BY DEF PostPick
<1> DEFINE nodes == Target(p, online)
           barred == {n \in nodes : ~RuntimeAllowed(n, p.runtime)}
           t == [at |-> IF p.runtime = "ollama" THEN "create" ELSE "admit",
                 dep |-> task[s].dep, post |-> p, nodes |-> nodes,
                 share |-> NoShare, excess |-> {}]
<1>4. /\ nodes \in SUBSET Nodes
      /\ p.target \in {"auto", "cluster"} => barred = {}
  BY <1>2, TargetType
<1>5. misled' = misled BY <1>3, <1>4 DEF TypeOK
<1>6. PickedTask(s, t) BY <1>2, <1>4 DEF PickedTask, PostTask, NoShare
<1>7. PickedTask(s, Idle) BY DEF PickedTask
<1>8. task' = [task EXCEPT ![s] = Idle] \/ task' = [task EXCEPT ![s] = t]
  BY <1>3 DEF Refuse
<1> HIDE DEF t
<1> QED BY <1>5, <1>6, <1>7, <1>8

\* After the admission of a fresh deploy.
AdmittedTask(s, t) ==
  \/ t = Idle
  \/ /\ t \in PostTask /\ t.at = "create" /\ t.dep = task[s].dep
     /\ \E share \in Int :
          /\ t.excess = {Excess(n, t.dep, share, 0) : n \in t.nodes}
          /\ \A n \in t.nodes : ~Short(n, share, 0)

\* What the excess measures is an integer.
LEMMA ExcessType ==
  ASSUME TypeOK, NEW n \in Nodes, NEW d \in Deps, NEW x \in Int, NEW a \in Int
  PROVE  Excess(n, d, x, a) \in Int
<1>1. /\ inuse[n] \in Int /\ held[d][n] \in Int /\ reading[n] \in Int
  BY DEF TypeOK
<1>2. Total[n] \in Int BY AdmissionAssumption DEF AdmissionAssumption
<1>3. ShareOf(n, x) \in Int /\ ShareOf(n, a) \in Int /\ SafetyMargin(n) \in Int
  BY ShareOfType DEF SafetyMargin
<1> QED BY <1>1, <1>2, <1>3 DEF Excess, Greatest

\* PostAdmit either ends the request or hands on the share it admitted.
LEMMA AdmitStep ==
  ASSUME TypeOK, NEW s \in Slots, PostAdmit(s)
  PROVE  \E t : AdmittedTask(s, t) /\ task' = [task EXCEPT ![s] = t]
<1>1. task[s] \in PostTask BY TaskShape DEF PostAdmit
<1> DEFINE share == PostShare(task[s].post.ask)
           nodes == task[s].nodes
           x == {Excess(n, task[s].dep, share, 0) : n \in nodes}
           t == [task[s] EXCEPT !.at = "create", !.share = share, !.excess = x]
<1>2. /\ nodes \in SUBSET Nodes /\ task[s].dep \in Deps
      /\ task[s].post.ask \in Int
  BY <1>1, AdmissionAssumption DEF PostTask, AdmissionAssumption
<1>3. share \in Int BY <1>2, PickedShareType DEF TypeOK
<1>4. x \in SUBSET Int BY <1>2, <1>3, ExcessType
<1>5. CASE Shortfalls(nodes, share, [n \in nodes |-> 0]) # {}
  <2>1. task' = [task EXCEPT ![s] = Idle] BY <1>5 DEF PostAdmit, Refuse
  <2> QED BY <2>1 DEF AdmittedTask
<1>6. CASE Shortfalls(nodes, share, [n \in nodes |-> 0]) = {}
  <2>1. \A n \in nodes : ~Short(n, share, 0) BY <1>6 DEF Shortfalls
  <2>2. task' = [task EXCEPT ![s].at = "create", ![s].share = share, ![s].excess = x]
    BY <1>6 DEF PostAdmit
  <2> HIDE DEF share, x
  <2>3. task' = [task EXCEPT ![s] = t] BY <2>2 DEF TypeOK
  <2>4. /\ t \in PostTask /\ t.at = "create" /\ t.dep = task[s].dep
        /\ t.nodes = nodes /\ t.excess = x
    BY <1>1, <1>3, <1>4 DEF PostTask
  <2>5. AdmittedTask(s, t)
    BY <1>3, <2>1, <2>4 DEF AdmittedTask, x
  <2> QED BY <2>3, <2>5
<1> QED BY <1>5, <1>6

\* The row is written.
CreatedTask(s, t) ==
  t \in PostTask /\ t.at = "reclaim" /\ t.dep = task[s].dep /\ t.excess = task[s].excess

\* PostCreate writes the row of the task and hands the task on.
LEMMA CreateStep ==
  ASSUME TypeOK, NEW s \in Slots, PostCreate(s)
  PROVE  /\ \E t : CreatedTask(s, t) /\ task' = [task EXCEPT ![s] = t]
         /\ row' \in [Deps -> RowType] /\ granted' \in [Deps -> SUBSET Int]
         /\ task[s].dep \in Deps
         /\ row'[task[s].dep].status = "active"
         /\ row'[task[s].dep].auth \in granted'[task[s].dep]
         /\ \A e \in Deps : e # task[s].dep => row'[e] = row[e]
         /\ \A e \in Deps : granted[e] \subseteq granted'[e]
<1>1. task[s] \in PostTask BY TaskShape DEF PostCreate
<1> DEFINE t == [task[s] EXCEPT !.at = "reclaim"]
           p == task[s].post
           r == [status |-> "active", nodes |-> task[s].nodes,
                 runtime |-> p.runtime, name |-> p.name, gpuMem |-> p.ask,
                 auth |-> task[s].share]
<1>2. /\ p \in Posts /\ task[s].dep \in Deps /\ task[s].share \in Int
      /\ task[s].nodes \in SUBSET Nodes
  BY <1>1 DEF PostTask
<1>3. p.ask \in Int BY <1>2, AdmissionAssumption DEF AdmissionAssumption
<1>4. p.runtime \in Runtimes /\ p.name \in Names BY <1>2 DEF Runtimes, Names
<1>5. r \in RowType /\ r.status = "active" /\ r.auth = task[s].share
  BY <1>2, <1>3, <1>4 DEF RowType, Statuses
<1>6. CreatedTask(s, t) BY <1>1 DEF CreatedTask, PostTask
<1>7. /\ row' = [row EXCEPT ![task[s].dep] = r]
      /\ granted' = [granted EXCEPT ![task[s].dep] = @ \cup {task[s].share}]
      /\ task' = [task EXCEPT ![s].at = "reclaim"]
  BY DEF PostCreate
<1>8. task' = [task EXCEPT ![s] = t] BY <1>7 DEF TypeOK
<1> HIDE DEF t, r, p
<1>9. /\ row' \in [Deps -> RowType] /\ row'[task[s].dep] = r
      /\ \A e \in Deps : e # task[s].dep => row'[e] = row[e]
  BY <1>2, <1>5, <1>7 DEF TypeOK
<1>10. /\ granted' \in [Deps -> SUBSET Int]
       /\ task[s].share \in granted'[task[s].dep]
       /\ \A e \in Deps : granted[e] \subseteq granted'[e]
  BY <1>2, <1>7 DEF TypeOK
<1> QED BY <1>2, <1>5, <1>6, <1>8, <1>9, <1>10

\* Memory is freed on some of the nodes.
LEMMA ReclaimStep ==
  ASSUME TypeOK, NEW s \in Slots, PostReclaim(s)
  PROVE  /\ inuse' \in [Nodes -> Int] /\ foreign' \in [Nodes -> Nat]
         /\ \A n \in Nodes : inuse'[n] <= inuse[n]
<1>1. \A n \in Nodes : inuse[n] \in Int /\ foreign[n] \in Nat BY DEF TypeOK
<1>2. CASE UNCHANGED <<inuse, foreign>>
  BY <1>1, <1>2 DEF TypeOK
<1>3. ASSUME NEW reached \in SUBSET task[s].nodes, ReclaimMemory(reached)
      PROVE  /\ inuse' \in [Nodes -> Int] /\ foreign' \in [Nodes -> Nat]
             /\ \A n \in Nodes : inuse'[n] <= inuse[n]
  BY <1>1, <1>3 DEF ReclaimMemory
<1> QED BY <1>2, <1>3 DEF PostReclaim

\* A restart begins with a copy of the row.
BegunTask(d, t) ==
  /\ t \in RestartTask /\ t.dep = d /\ t.saved = row[d] /\ t.excess = {}
  /\ t.at = IF row[d].runtime = "ollama" THEN "resend" ELSE "readmit"

\* RestartBegin copies the row it will work with into its task.
LEMMA BeginStep ==
  ASSUME TypeOK, NEW s \in Slots, NEW d \in Deps, NEW b \in Restarts,
         RestartBegin(s, d, b)
  PROVE  \E t : BegunTask(d, t) /\ task' = [task EXCEPT ![s] = t]
<1> DEFINE merged == IF b.ask # NoShare THEN b.ask ELSE row[d].gpuMem
           name == IF b.name = "absent" THEN row[d].name ELSE b.name
           t == [at |-> IF row[d].runtime = "ollama" THEN "resend" ELSE "readmit",
                 dep |-> d, body |-> b, name |-> name, saved |-> row[d],
                 merged |-> merged, share |-> NoShare, credit |-> NoShare,
                 excess |-> {}]
<1>1. row[d] \in RowType BY DEF TypeOK
<1>2. row[d].gpuMem \in Int /\ row[d].name \in Names BY <1>1 DEF RowType
<1>3. merged \in Int
  BY <1>2, AdmissionAssumption DEF AdmissionAssumption
<1>4. name \in Names BY <1>2 DEF Names
<1> HIDE DEF merged, name
<1>5. BegunTask(d, t)
  BY <1>1, <1>3, <1>4 DEF BegunTask, RestartTask, NoShare
<1>6. task' = [task EXCEPT ![s] = t] BY DEF RestartBegin, merged, name
<1> QED BY <1>5, <1>6

\* After the admission of a restart.
ReadmittedTask(s, t) ==
  \/ t = Idle
  \/ /\ t \in RestartTask /\ t.at = "resend" /\ t.dep = task[s].dep
     /\ t.saved = task[s].saved
     /\ t.credit = AuthorisedShare(task[s]) /\ t.credit \in Int
     /\ \E share \in Int :
          /\ t.excess = {Excess(n, t.dep, share, t.credit) : n \in t.saved.nodes}
          /\ \A n \in t.saved.nodes : ~Short(n, share, Reclaim(n, t.credit))

\* RestartAdmit either ends the request or hands on the credit it used.
LEMMA ReadmitStep ==
  ASSUME TypeOK, NEW s \in Slots, RestartAdmit(s)
  PROVE  \E t : ReadmittedTask(s, t) /\ task' = [task EXCEPT ![s] = t]
<1>1. task[s] \in RestartTask BY TaskShape DEF RestartAdmit, Again
<1> DEFINE share == FirstUsableShare(task[s].merged, NoShare)
           auth == AuthorisedShare(task[s])
           nodes == task[s].saved.nodes
           credit == [n \in nodes |-> Reclaim(n, auth)]
           x == {Excess(n, task[s].dep, share, auth) : n \in nodes}
           t == [task[s] EXCEPT !.at = "resend", !.share = share, !.credit = auth,
                                !.excess = x]
<1>2. /\ nodes \in SUBSET Nodes /\ task[s].dep \in Deps /\ task[s].merged \in Int
      /\ task[s].saved.auth \in Int /\ task[s].saved.gpuMem \in Int
  BY <1>1 DEF RestartTask, RowType
<1>3. share \in Int
  <2>1. NoShare \in Int BY DEF NoShare
  <2> QED BY <1>2, <2>1, PickedShareType DEF TypeOK
<1>4. auth \in Int BY <1>2, PickedShareType DEF TypeOK, AuthorisedShare
<1>5. x \in SUBSET Int BY <1>2, <1>3, <1>4, ExcessType
<1>6. CASE Shortfalls(nodes, share, credit) # {}
  <2>1. task' = [task EXCEPT ![s] = Idle] BY <1>6 DEF RestartAdmit, Refuse
  <2> QED BY <2>1 DEF ReadmittedTask
<1>7. CASE Shortfalls(nodes, share, credit) = {}
  <2>1. \A n \in nodes : ~Short(n, share, Reclaim(n, auth))
    BY <1>7 DEF Shortfalls
  <2>2. task' = [task EXCEPT ![s].at = "resend", ![s].share = share,
                             ![s].credit = auth, ![s].excess = x]
    BY <1>7 DEF RestartAdmit
  <2> HIDE DEF share, x, auth
  <2>3. task' = [task EXCEPT ![s] = t] BY <2>2 DEF TypeOK
  <2>4. /\ t \in RestartTask /\ t.at = "resend" /\ t.dep = task[s].dep
        /\ t.saved = task[s].saved /\ t.credit = auth /\ t.excess = x
    BY <1>1, <1>3, <1>4, <1>5 DEF RestartTask
  <2>5. ReadmittedTask(s, t)
    BY <1>3, <1>4, <2>1, <2>4 DEF ReadmittedTask, x, auth
  <2> QED BY <2>3, <2>5
<1> QED BY <1>6, <1>7

\* The commands of a restart, with the record it writes.
Resent(s, record) ==
  LET t == task[s] IN
  /\ Deploy(t.dep, PostShare(t.merged), record)
  /\ record.status = "active" /\ record.runtime = row[t.dep].runtime
  /\ \/ record.auth = row[t.dep].auth
     \/ record.auth = t.saved.auth
     \/ record.auth = t.share /\ t.body.ask # NoShare
  /\ granted' = IF t.body.ask = NoShare \/ t.saved.runtime = "ollama"
                THEN granted
                ELSE [granted EXCEPT ![t.dep] = @ \cup {t.share}]

\* RestartSend writes a row that is as entitled as the copy it was made of.
LEMMA ResendStep ==
  ASSUME TypeOK, NEW s \in Slots, RestartSend(s)
  PROVE  \/ \E record \in RowType : Resent(s, record)
         \/ UNCHANGED <<row, run, held, inuse, granted>>
<1>1. task[s] \in RestartTask BY TaskShape DEF RestartSend, Again
<1> DEFINE t == task[s]
           d == t.dep
           now == [row[d] EXCEPT !.status = "active"]
           named == IF t.name # t.saved.name THEN [now EXCEPT !.name = t.name]
                    ELSE now
           record == IF ~Dirty(t) THEN named
                     ELSE [named EXCEPT !.gpuMem = t.merged, !.auth = Claim(t)]
<1>2. /\ d \in Deps /\ t.name \in Names /\ t.merged \in Int /\ t.share \in Int
      /\ t.saved \in RowType
  BY <1>1 DEF RestartTask
<1>3. t.saved.auth \in Int BY <1>2 DEF RowType
<1>4. row[d] \in RowType BY <1>2 DEF TypeOK
<1>5. /\ now \in RowType /\ now.status = "active"
      /\ now.runtime = row[d].runtime /\ now.auth = row[d].auth
  BY <1>4 DEF RowType, Statuses
<1>6. /\ named \in RowType /\ named.status = "active"
      /\ named.runtime = row[d].runtime /\ named.auth = row[d].auth
  <2> HIDE DEF now
  <2>1. LET m == [now EXCEPT !.name = t.name] IN
          /\ m \in RowType /\ m.status = now.status
          /\ m.runtime = now.runtime /\ m.auth = now.auth
    BY <1>2, <1>5 DEF RowType
  <2> QED BY <1>5, <2>1
<1>7. Claim(t) \in Int /\ (Claim(t) = t.saved.auth \/ (Claim(t) = t.share /\ t.body.ask # NoShare))
  BY <1>2, <1>3 DEF Claim
<1>8. /\ record \in RowType /\ record.status = "active"
      /\ record.runtime = row[d].runtime
      /\ record.auth \in {row[d].auth, Claim(t)}
  <2> HIDE DEF named
  <2>1. LET m == [named EXCEPT !.gpuMem = t.merged, !.auth = Claim(t)] IN
          /\ m \in RowType /\ m.status = named.status
          /\ m.runtime = named.runtime /\ m.auth = Claim(t)
    BY <1>2, <1>6, <1>7 DEF RowType
  <2> QED BY <1>6, <2>1
<1>9. \/ /\ Deploy(d, PostShare(t.merged), record)
         /\ granted' = IF t.body.ask = NoShare \/ t.saved.runtime = "ollama"
                       THEN granted
                       ELSE [granted EXCEPT ![d] = @ \cup {t.share}]
      \/ UNCHANGED <<row, run, held, inuse, granted>>
  BY DEF RestartSend
<1> HIDE DEF record
<1> QED BY <1>7, <1>8, <1>9 DEF Resent

\* A container comes up within the memory of its nodes.
LEMMA StartStep ==
  ASSUME TypeOK, NEW d \in Deps, Starts(d)
  PROVE  /\ held' \in [Deps -> [Nodes -> Nat]] /\ inuse' \in [Nodes -> Int]
         /\ \A n \in Nodes : inuse'[n] <= Total[n]
<1> DEFINE takes(some, n) == IF n \notin row[d].nodes THEN 0
                             ELSE IF some THEN 1 ELSE ShareOf(n, run[d].share)
<1>1. PICK some \in BOOLEAN :
        /\ \A n \in Nodes : /\ takes(some, n) >= 0
                           /\ inuse[n] - held[d][n] + takes(some, n) <= Total[n]
        /\ held' = [held EXCEPT ![d] = [n \in Nodes |-> takes(some, n)]]
        /\ inuse' = [n \in Nodes |-> inuse[n] - held[d][n] + takes(some, n)]
  BY DEF Starts
<1>2. run[d].share \in Int BY DEF TypeOK
<1>3. \A n \in Nodes : takes(some, n) \in Int BY <1>2, ShareOfType
<1> HIDE DEF takes
<1>4. \A n \in Nodes : takes(some, n) \in Nat BY <1>1, <1>3
<1>5. [n \in Nodes |-> takes(some, n)] \in [Nodes -> Nat] BY <1>4
<1>6. \A n \in Nodes : inuse[n] \in Int /\ held[d][n] \in Nat BY DEF TypeOK
<1> QED BY <1>1, <1>4, <1>5, <1>6 DEF TypeOK

\* What runs for a deployment keeps its type when its phase changes.
LEMMA RunType ==
  ASSUME TypeOK, NEW d \in Deps,
         \/ run' = [run EXCEPT ![d] = Down]
         \/ run' = [run EXCEPT ![d].at = "up"]
         \/ run' = [run EXCEPT ![d].at = "stray"]
  PROVE  run' \in [Deps -> [at : {"down", "launching", "up", "stray"}, share : Int]]
<1> DEFINE Phase == [at : {"down", "launching", "up", "stray"}, share : Int]
<1>1. /\ Down \in Phase
      /\ [run[d] EXCEPT !.at = "up"] \in Phase
      /\ [run[d] EXCEPT !.at = "stray"] \in Phase
  <2>1. run[d] \in Phase BY DEF TypeOK
  <2>2. Down \in Phase BY DEF Down, NoShare
  <2> QED BY <2>1, <2>2
<1>2. run \in [Deps -> Phase] BY DEF TypeOK
<1> HIDE DEF Phase
<1>3. run' \in [Deps -> Phase] BY <1>1, <1>2
<1> QED BY <1>3 DEF Phase

\* Spending from a budget keeps it a budget.
LEMMA BudgetType ==
  ASSUME budget \in [requests : Nat, events : Nat],
         \/ budget' = [budget EXCEPT !.requests = @ + 1]
         \/ budget' = [budget EXCEPT !.events = @ + 1]
  PROVE  budget' \in [requests : Nat, events : Nat]
OBVIOUS

\* The share of a deployment that is up at the beginning.
LEMMA HomeType ==
  ASSUME NEW n \in Nodes, NEW c \in 1 .. 20
  PROVE  (Total[n] * c) \div Unit \in Nat /\ (Total[n] * c) \div Unit <= Total[n]
<1>1. Total[n] \in Nat BY AdmissionAssumption DEF AdmissionAssumption
<1>2. Total[n] * c \in Nat /\ Total[n] * c <= 20 * Total[n]
  BY <1>1
<1> HIDE DEF Unit
<1> QED BY <1>1, <1>2 DEF Unit

\* The first states: every variable has its type, and no node uses more memory
\* than it has.
LEMMA InitType ==
  ASSUME Init
  PROVE  /\ TypeOK
         /\ \A n \in Nodes : inuse[n] <= Total[n] /\ reading[n] <= Total[n]
<1> DEFINE c == CHOOSE d \in Deps : TRUE
           takes(old, home, d, n) == IF d \in old /\ n = home
                                     THEN (Total[n] * catalog) \div Unit ELSE 0
<1>1. PICK old \in SUBSET {c}, home \in Nodes :
         /\ row = [d \in Deps |-> IF d \notin old THEN NoRow
                   ELSE [NoRow EXCEPT !.status = "active", !.nodes = {home}]]
         /\ run = [d \in Deps |-> IF d \in old
                   THEN [at |-> "up", share |-> catalog] ELSE Down]
         /\ held = [d \in Deps |-> [n \in Nodes |-> takes(old, home, d, n)]]
         /\ inuse = [n \in Nodes |-> takes(old, home, c, n)]
  BY DEF Init
<1>2. catalog \in 1 .. 20 /\ catalog \in Int BY CatalogType DEF Init
<1>3. \A d, n : n \in Nodes => /\ takes(old, home, d, n) \in Nat
                               /\ takes(old, home, d, n) <= Total[n]
  <2>1. \A n \in Nodes : Total[n] \in Nat
    BY AdmissionAssumption DEF AdmissionAssumption
  <2> QED BY <1>2, <2>1, HomeType
<1> HIDE DEF takes, c
<1>4. held \in [Deps -> [Nodes -> Nat]] /\ inuse \in [Nodes -> Int]
  BY <1>1, <1>3
<1>5. row \in [Deps -> RowType]
  <2>1. [NoRow EXCEPT !.status = "active", !.nodes = {home}] \in RowType
    BY NoRowType DEF RowType, Statuses
  <2> QED BY <1>1, <2>1, NoRowType
<1>6. run \in [Deps -> [at : {"down", "launching", "up", "stray"}, share : Int]]
  BY <1>1, <1>2 DEF Down, NoShare
<1>7. \A n \in Nodes : inuse[n] <= Total[n] /\ reading[n] <= Total[n]
  BY <1>1, <1>3, AdmissionAssumption DEF Init, AdmissionAssumption
<1>8. budget \in [requests : Nat, events : Nat]
  BY DEF Init
<1>9. /\ foreign \in [Nodes -> Nat] /\ reading \in [Nodes -> Int]
      /\ catalog \in Shares /\ misled \in BOOLEAN
      /\ granted \in [Deps -> SUBSET Int]
  <2>1. misled = FALSE /\ granted = [d \in Deps |-> {}] /\ catalog \in Shares
    BY DEF Init
  <2>2. foreign = [n \in Nodes |-> 0] /\ reading = [n \in Nodes |-> 0]
    BY DEF Init
  <2>3. misled \in BOOLEAN BY <2>1
  <2>4. granted \in [Deps -> SUBSET Int] BY <2>1
  <2> QED BY <2>1, <2>2, <2>3, <2>4
<1>10. task \in [Slots -> {Idle} \cup PickTask \cup PostTask \cup RestartTask]
  BY DEF Init
<1> QED BY <1>4, <1>5, <1>6, <1>7, <1>8, <1>9, <1>10 DEF TypeOK

\* Every variable keeps its type.
THEOREM TypeCorrect == Spec => []TypeOK
<1>1. Init => TypeOK
  BY InitType
<1>2. TypeOK /\ [Next]_vars => TypeOK'
  <2> SUFFICES ASSUME TypeOK, [Next]_vars PROVE TypeOK'
    OBVIOUS
  <2>1. ASSUME NEW s \in Slots, NEW d \in Deps, NEW p \in Posts, PostBegin(s, d, p)
        PROVE  TypeOK'
    <3>1. [at |-> "pick", dep |-> d, post |-> p] \in PickTask
      BY DEF PickTask
    <3>2. task' \in [Slots -> {Idle} \cup PickTask \cup PostTask \cup RestartTask]
      BY <2>1, <3>1, TaskType DEF PostBegin, TypeOK
    <3>3. budget' \in [requests : Nat, events : Nat]
      BY <2>1, BudgetType DEF PostBegin, MayBegin, TypeOK
    <3> QED BY <2>1, <3>2, <3>3 DEF PostBegin, TypeOK
  <2>2. ASSUME NEW s \in Slots, PostPick(s) PROVE TypeOK'
    <3>1. PICK t : PickedTask(s, t) /\ task' = [task EXCEPT ![s] = t]
      BY <2>2, PickStep
    <3>2. task' \in [Slots -> {Idle} \cup PickTask \cup PostTask \cup RestartTask]
      BY <3>1, TaskType DEF PickedTask, TypeOK
    <3>3. misled' \in BOOLEAN BY <2>2, PickStep DEF TypeOK
    <3> QED BY <2>2, <3>2, <3>3 DEF PostPick, TypeOK
  <2>3. ASSUME NEW s \in Slots, PostAdmit(s) PROVE TypeOK'
    <3>1. PICK t : AdmittedTask(s, t) /\ task' = [task EXCEPT ![s] = t]
      BY <2>3, AdmitStep
    <3>2. task' \in [Slots -> {Idle} \cup PickTask \cup PostTask \cup RestartTask]
      BY <3>1, TaskType DEF AdmittedTask, TypeOK
    <3> QED BY <2>3, <3>2 DEF PostAdmit, TypeOK
  <2>4. ASSUME NEW s \in Slots, PostCreate(s) PROVE TypeOK'
    <3>1. PICK t : CreatedTask(s, t) /\ task' = [task EXCEPT ![s] = t]
      BY <2>4, CreateStep
    <3>2. task' \in [Slots -> {Idle} \cup PickTask \cup PostTask \cup RestartTask]
      BY <3>1, TaskType DEF CreatedTask, TypeOK
    <3>3. row' \in [Deps -> RowType] /\ granted' \in [Deps -> SUBSET Int]
      BY <2>4, CreateStep
    <3> QED BY <2>4, <3>2, <3>3 DEF PostCreate, TypeOK
  <2>5. ASSUME NEW s \in Slots, PostReclaim(s) PROVE TypeOK'
    <3>1. [task[s] EXCEPT !.at = "send"] \in PostTask
      BY <2>5, TaskShape DEF PostReclaim, PostTask
    <3>2. task' \in [Slots -> {Idle} \cup PickTask \cup PostTask \cup RestartTask]
      BY <2>5, <3>1, TaskType DEF PostReclaim, TypeOK
    <3>3. inuse' \in [Nodes -> Int] /\ foreign' \in [Nodes -> Nat]
      BY <2>5, ReclaimStep
    <3> QED BY <2>5, <3>2, <3>3 DEF PostReclaim, TypeOK
  <2>6. ASSUME NEW s \in Slots, PostSend(s) PROVE TypeOK'
    <3>1. task' \in [Slots -> {Idle} \cup PickTask \cup PostTask \cup RestartTask]
      BY <2>6, TaskType DEF PostSend, TypeOK
    <3>2. /\ task[s].dep \in Deps /\ task[s].post.ask \in Int
      BY <2>6, TaskShape, AdmissionAssumption DEF PostSend, PostTask,
         AdmissionAssumption
    <3>3. PostShare(task[s].post.ask) \in Int
      BY <3>2, PickedShareType DEF TypeOK
    <3>4. row[task[s].dep] \in RowType BY <3>2 DEF TypeOK
    <3>5. Deploy(task[s].dep, PostShare(task[s].post.ask), row[task[s].dep])
      BY <2>6 DEF PostSend
    <3> QED BY <2>6, <3>1, <3>2, <3>3, <3>4, <3>5, DeployType
      DEF PostSend, TypeOK
  <2>7. ASSUME NEW s \in Slots, NEW d \in Deps, NEW b \in Restarts, RestartBegin(s, d, b)
        PROVE  TypeOK'
    <3>1. PICK t : BegunTask(d, t) /\ task' = [task EXCEPT ![s] = t]
      BY <2>7, BeginStep
    <3>2. task' \in [Slots -> {Idle} \cup PickTask \cup PostTask \cup RestartTask]
      BY <3>1, TaskType DEF BegunTask, TypeOK
    <3>3. budget' \in [requests : Nat, events : Nat]
      BY <2>7, BudgetType DEF RestartBegin, MayBegin, TypeOK
    <3> QED BY <2>7, <3>2, <3>3 DEF RestartBegin, TypeOK
  <2>8. ASSUME NEW s \in Slots, RestartAdmit(s) PROVE TypeOK'
    <3>1. PICK t : ReadmittedTask(s, t) /\ task' = [task EXCEPT ![s] = t]
      BY <2>8, ReadmitStep
    <3>2. task' \in [Slots -> {Idle} \cup PickTask \cup PostTask \cup RestartTask]
      BY <3>1, TaskType DEF ReadmittedTask, TypeOK
    <3> QED BY <2>8, <3>2 DEF RestartAdmit, TypeOK
  <2>9. ASSUME NEW s \in Slots, RestartSend(s) PROVE TypeOK'
    <3>1. task' \in [Slots -> {Idle} \cup PickTask \cup PostTask \cup RestartTask]
      BY <2>9, TaskType DEF RestartSend, TypeOK
    <3>2. \/ \E record \in RowType : Resent(s, record)
          \/ UNCHANGED <<row, run, held, inuse, granted>>
      BY <2>9, ResendStep
    <3>3. CASE UNCHANGED <<row, run, held, inuse, granted>>
      BY <2>9, <3>1, <3>3 DEF RestartSend, TypeOK
    <3>4. ASSUME NEW record \in RowType, Resent(s, record) PROVE TypeOK'
      <4>1. task[s] \in RestartTask
        BY <2>9, TaskShape DEF RestartSend, Again
      <4>2. task[s].dep \in Deps /\ task[s].merged \in Int /\ task[s].share \in Int
        BY <4>1 DEF RestartTask
      <4>3. PostShare(task[s].merged) \in Int
        BY <4>2, PickedShareType DEF TypeOK
      <4>4. granted' \in [Deps -> SUBSET Int]
        BY <3>4, <4>2 DEF Resent, TypeOK
      <4>5. Deploy(task[s].dep, PostShare(task[s].merged), record)
        BY <3>4 DEF Resent
      <4> QED BY <2>9, <3>1, <4>2, <4>3, <4>4, <4>5, DeployType
        DEF RestartSend, TypeOK
    <3> QED BY <3>2, <3>3, <3>4
  <2>10. ASSUME NEW d \in Deps, Starts(d) PROVE TypeOK'
    <3>1. /\ held' \in [Deps -> [Nodes -> Nat]] /\ inuse' \in [Nodes -> Int]
      BY <2>10, StartStep
    <3>2. row' \in [Deps -> RowType]
      BY <2>10, RowStatusType DEF Starts, Statuses
    <3>3. run' \in [Deps -> [at : {"down", "launching", "up", "stray"}, share : Int]]
      BY <2>10, RunType DEF Starts
    <3> QED BY <2>10, <3>1, <3>2, <3>3 DEF Starts, TypeOK
  <2>11. ASSUME NEW d \in Deps, LaunchFails(d) PROVE TypeOK'
    <3>1. row' \in [Deps -> RowType]
      BY <2>11, RowStatusType DEF LaunchFails, Statuses
    <3>2. run' \in [Deps -> [at : {"down", "launching", "up", "stray"}, share : Int]]
      BY <2>11, RunType DEF LaunchFails, StopRun
    <3>3. held' \in [Deps -> [Nodes -> Nat]] /\ inuse' \in [Nodes -> Int]
      BY <2>11, ReleaseType DEF LaunchFails, StopRun, TypeOK
    <3> QED BY <2>11, <3>1, <3>2, <3>3 DEF LaunchFails, TypeOK
  <2>12. ASSUME NEW d \in Deps, ContainerDies(d) PROVE TypeOK'
    <3>1. row' \in [Deps -> RowType]
      BY <2>12, RowStatusType DEF ContainerDies, Statuses
    <3>2. run' \in [Deps -> [at : {"down", "launching", "up", "stray"}, share : Int]]
      BY <2>12, RunType DEF ContainerDies, StopRun
    <3>3. held' \in [Deps -> [Nodes -> Nat]] /\ inuse' \in [Nodes -> Int]
      BY <2>12, ReleaseType DEF ContainerDies, StopRun
    <3> QED BY <2>12, <3>1, <3>2, <3>3 DEF ContainerDies, TypeOK
  <2>13. ASSUME NEW d \in Deps, HealthTick(d) PROVE TypeOK'
    <3>1. row' \in [Deps -> RowType]
      BY <2>13, RowStatusType DEF HealthTick, Statuses
    <3> QED BY <2>13, <3>1 DEF HealthTick, TypeOK
  <2>14. ASSUME NEW d \in Deps, Reconcile(d) PROVE TypeOK'
    <3>1. row' \in [Deps -> RowType]
      BY <2>14, RowStatusType DEF Reconcile, Statuses, ReconcileDeployStatus
    <3> QED BY <2>14, <3>1 DEF Reconcile, TypeOK
  <2>15. ASSUME NEW d \in Deps, Stop(d) PROVE TypeOK'
    <3>1. row' \in [Deps -> RowType]
      BY <2>15, RowStatusType DEF Stop, Statuses
    <3>2. run' \in [Deps -> [at : {"down", "launching", "up", "stray"}, share : Int]]
      BY <2>15, RunType DEF Stop, StopRun, TypeOK
    <3>3. held' \in [Deps -> [Nodes -> Nat]] /\ inuse' \in [Nodes -> Int]
      BY <2>15, ReleaseType DEF Stop, StopRun, TypeOK
    <3> QED BY <2>15, <3>1, <3>2, <3>3 DEF Stop, TypeOK
  <2>16. ASSUME NEW n \in Nodes, Metric(n) PROVE TypeOK'
    BY <2>16 DEF Metric, TypeOK
  <2>17. ASSUME NEW f \in Foreigners, Foreign(f[1], f[2]) PROVE TypeOK'
    <3>1. f[1] \in Nodes /\ f[2] \in Nat
      BY AdmissionAssumption DEF AdmissionAssumption
    <3>2. inuse' \in [Nodes -> Int] /\ foreign' \in [Nodes -> Nat]
      BY <2>17, <3>1 DEF Foreign, TypeOK
    <3>3. budget' \in [requests : Nat, events : Nat]
      BY <2>17 DEF Foreign, Event, TypeOK
    <3> QED BY <2>17, <3>2, <3>3 DEF Foreign, TypeOK
  <2>18. ASSUME NEW share \in Shares, RecipeEdited(share) PROVE TypeOK'
    <3>1. budget' \in [requests : Nat, events : Nat]
      BY <2>18 DEF RecipeEdited, Event, TypeOK
    <3> QED BY <2>18, <3>1 DEF RecipeEdited, TypeOK
  <2>19. ASSUME UNCHANGED vars PROVE TypeOK'
    BY <2>19 DEF vars, TypeOK
  <2> QED
    BY <2>1, <2>2, <2>3, <2>4, <2>5, <2>6, <2>7, <2>8, <2>9, <2>10, <2>11,
       <2>12, <2>13, <2>14, <2>15, <2>16, <2>17, <2>18, <2>19 DEF Next, Request
<1> QED BY <1>1, <1>2, PTL DEF Spec

-----------------------------------------------------------------------------
(* The choice of nodes.                                                    *)

\* No auto request is turned down for the role of a node it did not name.
THEOREM AutoPickAgreesCorrect == Spec => []AutoPickAgrees
<1>1. Init => AutoPickAgrees
  BY DEF Init, AutoPickAgrees
<1>2. TypeOK /\ AutoPickAgrees /\ [Next]_vars => AutoPickAgrees'
  <2> SUFFICES ASSUME TypeOK, AutoPickAgrees, [Next]_vars PROVE AutoPickAgrees'
    OBVIOUS
  <2> USE DEF AutoPickAgrees
  <2>1. ASSUME NEW s \in Slots, NEW d \in Deps, NEW p \in Posts, PostBegin(s, d, p)
        PROVE  AutoPickAgrees'
    BY <2>1 DEF PostBegin
  <2>2. ASSUME NEW s \in Slots, PostPick(s) PROVE AutoPickAgrees'
    BY <2>2, PickStep
  <2>3. ASSUME NEW s \in Slots, PostAdmit(s) PROVE AutoPickAgrees'
    BY <2>3 DEF PostAdmit
  <2>4. ASSUME NEW s \in Slots, PostCreate(s) PROVE AutoPickAgrees'
    BY <2>4 DEF PostCreate
  <2>5. ASSUME NEW s \in Slots, PostReclaim(s) PROVE AutoPickAgrees'
    BY <2>5 DEF PostReclaim
  <2>6. ASSUME NEW s \in Slots, PostSend(s) PROVE AutoPickAgrees'
    BY <2>6 DEF PostSend
  <2>7. ASSUME NEW s \in Slots, NEW d \in Deps, NEW b \in Restarts, RestartBegin(s, d, b)
        PROVE  AutoPickAgrees'
    BY <2>7 DEF RestartBegin
  <2>8. ASSUME NEW s \in Slots, RestartAdmit(s) PROVE AutoPickAgrees'
    BY <2>8 DEF RestartAdmit
  <2>9. ASSUME NEW s \in Slots, RestartSend(s) PROVE AutoPickAgrees'
    BY <2>9 DEF RestartSend
  <2>10. ASSUME NEW d \in Deps, Starts(d) PROVE AutoPickAgrees'
    BY <2>10 DEF Starts
  <2>11. ASSUME NEW d \in Deps, LaunchFails(d) PROVE AutoPickAgrees'
    BY <2>11 DEF LaunchFails
  <2>12. ASSUME NEW d \in Deps, ContainerDies(d) PROVE AutoPickAgrees'
    BY <2>12 DEF ContainerDies
  <2>13. ASSUME NEW d \in Deps, HealthTick(d) PROVE AutoPickAgrees'
    BY <2>13 DEF HealthTick
  <2>14. ASSUME NEW d \in Deps, Reconcile(d) PROVE AutoPickAgrees'
    BY <2>14 DEF Reconcile
  <2>15. ASSUME NEW d \in Deps, Stop(d) PROVE AutoPickAgrees'
    BY <2>15 DEF Stop
  <2>16. ASSUME NEW n \in Nodes, Metric(n) PROVE AutoPickAgrees'
    BY <2>16 DEF Metric
  <2>17. ASSUME NEW f \in Foreigners, Foreign(f[1], f[2]) PROVE AutoPickAgrees'
    BY <2>17 DEF Foreign
  <2>18. ASSUME NEW share \in Shares, RecipeEdited(share) PROVE AutoPickAgrees'
    BY <2>18 DEF RecipeEdited
  <2>19. ASSUME UNCHANGED vars PROVE AutoPickAgrees'
    BY <2>19 DEF vars
  <2> QED
    BY <2>1, <2>2, <2>3, <2>4, <2>5, <2>6, <2>7, <2>8, <2>9, <2>10, <2>11,
       <2>12, <2>13, <2>14, <2>15, <2>16, <2>17, <2>18, <2>19 DEF Next, Request
<1> QED BY <1>1, <1>2, TypeCorrect, PTL DEF Spec

-----------------------------------------------------------------------------
(* What a restart is credited with.                                        *)

\* A request under way is about a deployment.
LEMMA TaskDep ==
  ASSUME TypeOK, NEW s \in Slots, task[s].at # "idle"
  PROVE  task[s].dep \in Deps
<1>1. task[s] \in PickTask \cup PostTask \cup RestartTask
  BY DEF TypeOK, Idle
<1> QED BY <1>1 DEF PickTask, PostTask, RestartTask

\* A request that a step leaves alone, with its row.
LEMMA TaskKept ==
  ASSUME NEW r \in Slots, TaskOK(task[r]), task'[r] = task[r],
         (row'[task[r].dep].status = "none") <=> (row[task[r].dep].status = "none"),
         row'[task[r].dep].runtime = row[task[r].dep].runtime,
         granted[task[r].dep] \subseteq granted'[task[r].dep]
  PROVE  TaskOK(task[r])'
BY DEF TaskOK, Entitled

\* A step of one request that touches neither rows nor grants.
LEMMA ClaimTask ==
  ASSUME TypeOK, ClaimInv, NEW s \in Slots, NEW t, TaskOK(t),
         task' = [task EXCEPT ![s] = t], UNCHANGED <<row, run, granted>>,
         t.at \in New => \A r \in Slots : task[r].at \in New /\ r # s
                                          => task[r].dep # t.dep
  PROVE  ClaimInv'
<1>1. task'[s] = t /\ \A r \in Slots : r # s => task'[r] = task[r]
  BY DEF TypeOK
<1>2. ASSUME NEW r \in Slots PROVE TaskOK(task[r])'
  BY <1>1 DEF ClaimInv, TaskOK, Entitled
<1>3. OneCreator' BY <1>1 DEF ClaimInv, OneCreator
<1>4. /\ \A d \in Deps : Entitled(d, row[d])'
      /\ \A d \in Deps : run'[d].at # "down" => row'[d].status # "none"
  BY DEF ClaimInv, Entitled
<1> QED BY <1>2, <1>3, <1>4 DEF ClaimInv

\* The status of a row that exists.
LEMMA ClaimRow ==
  ASSUME TypeOK, ClaimInv, NEW d \in Deps, row[d].status # "none",
         NEW x \in {"active", "ended"}, row' = [row EXCEPT ![d].status = x],
         UNCHANGED <<task, granted>>,
         \A e \in Deps : run'[e].at # "down" => run[e].at # "down"
  PROVE  ClaimInv'
<1>1. /\ row'[d].status = x /\ row'[d].runtime = row[d].runtime
      /\ row'[d].auth = row[d].auth
      /\ \A e \in Deps : e # d => row'[e] = row[e]
  BY RowStatusType DEF Statuses
<1>2. \A e \in Deps : Entitled(e, row[e])' BY <1>1 DEF ClaimInv, Entitled
<1>3. \A e \in Deps : run'[e].at # "down" => row'[e].status # "none"
  BY <1>1 DEF ClaimInv
<1>4. ASSUME NEW r \in Slots PROVE TaskOK(task[r])'
  <2>1. CASE task[r].at = "idle" BY <2>1 DEF TaskOK, New, Again
  <2>2. CASE task[r].at # "idle"
    <3>1. task[r].dep \in Deps BY <2>2, TaskDep
    <3>2. TaskOK(task[r]) BY DEF ClaimInv
    <3> QED BY <1>1, <3>1, <3>2, TaskKept
  <2> QED BY <2>1, <2>2
<1>5. OneCreator' BY DEF ClaimInv, OneCreator
<1> QED BY <1>2, <1>3, <1>4, <1>5 DEF ClaimInv

\* A request ends with its commands.
LEMMA ClaimSent ==
  ASSUME TypeOK, ClaimInv, NEW s \in Slots, NEW d \in Deps,
         row[d].status # "none", row'[d].status # "none",
         row'[d].runtime = row[d].runtime, Entitled(d, row[d])',
         \A e \in Deps : e # d => row'[e] = row[e] /\ run'[e] = run[e],
         \A e \in Deps : granted[e] \subseteq granted'[e],
         task' = [task EXCEPT ![s] = Idle]
  PROVE  ClaimInv'
<1>1. task'[s] = Idle /\ \A r \in Slots : r # s => task'[r] = task[r]
  BY DEF TypeOK
<1>2. \A e \in Deps : Entitled(e, row[e])' BY DEF ClaimInv, Entitled
<1>3. \A e \in Deps : run'[e].at # "down" => row'[e].status # "none"
  BY DEF ClaimInv
<1>4. ASSUME NEW r \in Slots PROVE TaskOK(task[r])'
  <2>1. CASE r = s BY <1>1, <2>1 DEF TaskOK, Idle, New, Again
  <2>2. CASE r # s /\ task[r].at = "idle"
    BY <1>1, <2>2 DEF TaskOK, New, Again
  <2>3. CASE r # s /\ task[r].at # "idle"
    <3>1. task[r].dep \in Deps BY <2>3, TaskDep
    <3>2. TaskOK(task[r]) BY DEF ClaimInv
    <3>3. /\ (row'[task[r].dep].status = "none") <=> (row[task[r].dep].status = "none")
          /\ row'[task[r].dep].runtime = row[task[r].dep].runtime
      BY <3>1
    <3> QED BY <1>1, <2>3, <3>1, <3>2, <3>3, TaskKept
  <2> QED BY <2>1, <2>2, <2>3
<1>5. OneCreator' BY <1>1 DEF ClaimInv, OneCreator, Idle, New
<1> QED BY <1>2, <1>3, <1>4, <1>5 DEF ClaimInv

\* A restart is credited with a share its deployment was itself admitted to: no
\* recipe edit, no override it asks for and no overtaking restart widens it.
THEOREM ReclaimEarnedCorrect == Spec => []ReclaimEarned
<1>1. Init => ClaimInv
  <2> SUFFICES ASSUME Init PROVE ClaimInv
    OBVIOUS
  <2>1. \A s \in Slots : task[s].at = "idle" BY DEF Init, Idle
  <2>2. \A d \in Deps : row[d].auth = 0 /\ (run[d].at # "down" => row[d].status # "none")
    <3> DEFINE c == CHOOSE d \in Deps : TRUE
               base(home) == [NoRow EXCEPT !.status = "active", !.nodes = {home}]
    <3>1. PICK old \in SUBSET {c}, home \in Nodes :
            /\ row = [d \in Deps |-> IF d \notin old THEN NoRow ELSE base(home)]
            /\ run = [d \in Deps |-> IF d \in old
                      THEN [at |-> "up", share |-> catalog] ELSE Down]
      BY DEF Init
    <3>2. base(home).auth = 0 /\ base(home).status = "active" /\ NoRow.auth = 0
      BY DEF NoRow, NoShare
    <3> HIDE DEF base, c
    <3> QED BY <3>1, <3>2 DEF Down
  <2> QED BY <2>1, <2>2 DEF ClaimInv, TaskOK, OneCreator, Entitled,
             IsUsableShare, New, Again
<1>2. TypeOK /\ ClaimInv /\ [Next]_vars => ClaimInv'
  <2> SUFFICES ASSUME TypeOK, ClaimInv, [Next]_vars PROVE ClaimInv'
    OBVIOUS
  <2>1. ASSUME NEW s \in Slots, NEW d \in Deps, NEW p \in Posts, PostBegin(s, d, p)
        PROVE  ClaimInv'
    <3> DEFINE t == [at |-> "pick", dep |-> d, post |-> p]
    <3>1. task' = [task EXCEPT ![s] = t] /\ UNCHANGED <<row, run, granted>>
      BY <2>1 DEF PostBegin
    <3>2. t.at = "pick" /\ t.dep = d OBVIOUS
    <3>3. row[d].status = "none" /\ ~Creating(d) BY <2>1 DEF PostBegin
    <3> HIDE DEF t
    <3>4. TaskOK(t) BY <3>2, <3>3 DEF TaskOK, New, Again
    <3>5. \A r \in Slots : task[r].at \in New => task[r].dep # t.dep
      BY <3>2, <3>3 DEF Creating, New
    <3> QED BY <3>1, <3>4, <3>5, ClaimTask
  <2>2. ASSUME NEW s \in Slots, PostPick(s) PROVE ClaimInv'
    <3>1. PICK t : PickedTask(s, t) /\ task' = [task EXCEPT ![s] = t]
      BY <2>2, PickStep
    <3>2. UNCHANGED <<row, run, granted>> /\ task[s].at \in New
      BY <2>2 DEF PostPick, New
    <3>3. \/ t.at = "idle"
          \/ t.at \in {"admit", "create"} /\ t.dep = task[s].dep
      BY <3>1 DEF PickedTask, Idle
    <3>4. TaskOK(task[s]) BY DEF ClaimInv
    <3>5. TaskOK(t) BY <3>2, <3>3, <3>4 DEF TaskOK, New, Again
    <3>6. t.at \in New => \A r \in Slots : task[r].at \in New /\ r # s
                                           => task[r].dep # t.dep
      BY <3>2, <3>3 DEF ClaimInv, OneCreator, New
    <3> QED BY <3>1, <3>2, <3>5, <3>6, ClaimTask
  <2>3. ASSUME NEW s \in Slots, PostAdmit(s) PROVE ClaimInv'
    <3>1. PICK t : AdmittedTask(s, t) /\ task' = [task EXCEPT ![s] = t]
      BY <2>3, AdmitStep
    <3>2. UNCHANGED <<row, run, granted>> /\ task[s].at \in New
      BY <2>3 DEF PostAdmit, New
    <3>3. \/ t.at = "idle"
          \/ t.at \in {"admit", "create"} /\ t.dep = task[s].dep
      BY <3>1 DEF AdmittedTask, Idle
    <3>4. TaskOK(task[s]) BY DEF ClaimInv
    <3>5. TaskOK(t) BY <3>2, <3>3, <3>4 DEF TaskOK, New, Again
    <3>6. t.at \in New => \A r \in Slots : task[r].at \in New /\ r # s
                                           => task[r].dep # t.dep
      BY <3>2, <3>3 DEF ClaimInv, OneCreator, New
    <3> QED BY <3>1, <3>2, <3>5, <3>6, ClaimTask
  <2>4. ASSUME NEW s \in Slots, PostCreate(s) PROVE ClaimInv'
    <3> DEFINE d == task[s].dep
    <3>1. PICK t : CreatedTask(s, t) /\ task' = [task EXCEPT ![s] = t]
      BY <2>4, CreateStep
    <3>2. /\ d \in Deps /\ row'[d].status = "active" /\ row'[d].auth \in granted'[d]
          /\ \A e \in Deps : e # d => row'[e] = row[e]
          /\ \A e \in Deps : granted[e] \subseteq granted'[e]
      BY <2>4, CreateStep
    <3>3. run' = run /\ task[s].at = "create" BY <2>4 DEF PostCreate
    <3>4. task'[s] = t /\ \A r \in Slots : r # s => task'[r] = task[r]
      BY <3>1 DEF TypeOK
    <3>5. t.at = "reclaim" /\ t.dep = d BY <3>1 DEF CreatedTask
    <3>6. row[d].status = "none" BY <3>3 DEF ClaimInv, TaskOK, New
    <3>7. \A e \in Deps : Entitled(e, row[e])' BY <3>2 DEF ClaimInv, Entitled
    <3>8. \A e \in Deps : run'[e].at # "down" => row'[e].status # "none"
      BY <3>2, <3>3 DEF ClaimInv
    <3>9. ASSUME NEW r \in Slots PROVE TaskOK(task[r])'
      <4>1. CASE r = s
        BY <3>2, <3>4, <3>5, <4>1 DEF TaskOK, New, Again
      <4>2. CASE r # s /\ task[r].at = "idle"
        BY <3>4, <4>2 DEF TaskOK, New, Again
      <4>3. CASE r # s /\ task[r].at # "idle"
        <5>1. TaskOK(task[r]) BY DEF ClaimInv
        <5>2. task[r].dep \in Deps BY <4>3, TaskShape, TaskDep
        <5>3. task[r].dep # d
          <6>1. task[r].at \in New => task[r].dep # d
            BY <3>3, <4>3 DEF ClaimInv, OneCreator, New
          <6>2. task[r].at \in New \cup {"reclaim", "send"} \cup Again
            BY <4>3, TaskShape DEF New, Again
          <6> QED BY <3>6, <5>1, <6>1, <6>2 DEF TaskOK
        <5>4. /\ task'[r] = task[r] /\ row'[task[r].dep] = row[task[r].dep]
              /\ granted[task[r].dep] \subseteq granted'[task[r].dep]
          BY <3>2, <3>4, <4>3, <5>2, <5>3
        <5> QED BY <5>1, <5>4, TaskKept
      <4> QED BY <4>1, <4>2, <4>3
    <3>10. OneCreator'
      BY <3>3, <3>4, <3>5 DEF ClaimInv, OneCreator, New
    <3> QED BY <3>7, <3>8, <3>9, <3>10 DEF ClaimInv
  <2>5. ASSUME NEW s \in Slots, PostReclaim(s) PROVE ClaimInv'
    <3> DEFINE t == [task[s] EXCEPT !.at = "send"]
    <3>1. task[s] \in PostTask /\ task[s].at = "reclaim"
      BY <2>5, TaskShape DEF PostReclaim
    <3>2. t.at = "send" /\ t.dep = task[s].dep BY <3>1 DEF PostTask
    <3>3. task' = [task EXCEPT ![s] = t] /\ UNCHANGED <<row, run, granted>>
      BY <2>5 DEF PostReclaim, TypeOK
    <3> HIDE DEF t
    <3>4. TaskOK(task[s]) BY DEF ClaimInv
    <3>5. TaskOK(t) BY <3>1, <3>2, <3>4 DEF TaskOK, New, Again
    <3>6. t.at \notin New BY <3>2 DEF New
    <3> QED BY <3>3, <3>5, <3>6, ClaimTask
  <2>6. ASSUME NEW s \in Slots, PostSend(s) PROVE ClaimInv'
    <3>1. task[s] \in PostTask /\ task[s].at = "send"
      BY <2>6, TaskShape DEF PostSend
    <3>2. PICK d \in Deps : d = task[s].dep /\ task[s].post.ask \in Int
      BY <3>1, AdmissionAssumption DEF PostTask, AdmissionAssumption
    <3>3. PostShare(task[s].post.ask) \in Int /\ row[d] \in RowType
      BY <3>2, PickedShareType DEF TypeOK
    <3>4. row[d].status # "none" BY <3>1, <3>2 DEF ClaimInv, TaskOK
    <3>5. Deploy(d, PostShare(task[s].post.ask), row[d])
      BY <2>6, <3>2 DEF PostSend
    <3>6. /\ row'[d].runtime = row[d].runtime /\ row'[d].auth = row[d].auth
          /\ row'[d].status # "none"
          /\ \A e \in Deps : e # d => row'[e] = row[e] /\ run'[e] = run[e]
      BY <3>2, <3>3, <3>4, <3>5, DeployType
    <3>7. granted' = granted /\ task' = [task EXCEPT ![s] = Idle]
      BY <2>6 DEF PostSend
    <3>8. Entitled(d, row[d])' BY <3>2, <3>6, <3>7 DEF ClaimInv, Entitled
    <3> QED BY <3>2, <3>4, <3>6, <3>7, <3>8, ClaimSent
  <2>7. ASSUME NEW s \in Slots, NEW d \in Deps, NEW b \in Restarts, RestartBegin(s, d, b)
        PROVE  ClaimInv'
    <3>1. PICK t : BegunTask(d, t) /\ task' = [task EXCEPT ![s] = t]
      BY <2>7, BeginStep
    <3>2. UNCHANGED <<row, run, granted>> /\ row[d].status # "none"
      BY <2>7 DEF RestartBegin
    <3>3. Entitled(d, row[d]) BY DEF ClaimInv
    <3>4. /\ t.dep = d /\ t.saved = row[d]
          /\ t.at = "readmit" \/ (t.at = "resend" /\ row[d].runtime = "ollama")
      BY <3>1 DEF BegunTask
    <3>5. TaskOK(t) BY <3>2, <3>3, <3>4 DEF TaskOK, New, Again
    <3>6. t.at \notin New BY <3>4 DEF New
    <3> QED BY <3>1, <3>2, <3>5, <3>6, ClaimTask
  <2>8. ASSUME NEW s \in Slots, RestartAdmit(s) PROVE ClaimInv'
    <3>1. PICK t : ReadmittedTask(s, t) /\ task' = [task EXCEPT ![s] = t]
      BY <2>8, ReadmitStep
    <3>2. UNCHANGED <<row, run, granted>> /\ task[s].at = "readmit"
      BY <2>8 DEF RestartAdmit
    <3>3. TaskOK(task[s]) BY DEF ClaimInv
    <3>4. CASE t = Idle
      BY <3>1, <3>2, <3>4, ClaimTask DEF TaskOK, Idle, New, Again
    <3>5. CASE t # Idle
      <4>1. /\ t.at = "resend" /\ t.dep = task[s].dep /\ t.saved = task[s].saved
            /\ t.credit = AuthorisedShare(task[s])
        BY <3>1, <3>5 DEF ReadmittedTask
      <4>2. IsUsableShare(t.saved.auth) => t.credit = t.saved.auth
        BY <4>1 DEF AuthorisedShare, FirstUsableShare
      <4>3. TaskOK(t) /\ t.at \notin New
        BY <3>2, <3>3, <4>1, <4>2 DEF TaskOK, New, Again
      <4> QED BY <3>1, <3>2, <4>3, ClaimTask
    <3> QED BY <3>4, <3>5
  <2>9. ASSUME NEW s \in Slots, RestartSend(s) PROVE ClaimInv'
    <3>1. task[s] \in RestartTask /\ task[s].at = "resend"
      BY <2>9, TaskShape DEF RestartSend, Again
    <3>2. PICK d \in Deps : /\ d = task[s].dep /\ task[s].merged \in Int
                            /\ task[s].share \in Int
      BY <3>1 DEF RestartTask
    <3>3. task' = [task EXCEPT ![s] = Idle] BY <2>9 DEF RestartSend
    <3>4. TaskOK(task[s]) BY DEF ClaimInv
    <3>5. row[d].status # "none" BY <3>1, <3>2, <3>4 DEF TaskOK, Again
    <3>6. CASE UNCHANGED <<row, run, held, inuse, granted>>
      BY <3>3, <3>6, ClaimTask DEF TaskOK, Idle, New, Again
    <3>7. ASSUME NEW record \in RowType, Resent(s, record) PROVE ClaimInv'
      <4>1. PostShare(task[s].merged) \in Int
        BY <3>2, PickedShareType DEF TypeOK
      <4>2. /\ Deploy(d, PostShare(task[s].merged), record)
            /\ record.status = "active" /\ record.runtime = row[d].runtime
        BY <3>2, <3>7 DEF Resent
      <4>3. /\ row'[d].runtime = row[d].runtime /\ row'[d].auth = record.auth
            /\ row'[d].status # "none"
            /\ \A e \in Deps : e # d => row'[e] = row[e] /\ run'[e] = run[e]
        BY <3>2, <4>1, <4>2, DeployType
      <4>4. \A e \in Deps : granted[e] \subseteq granted'[e]
        BY <3>2, <3>7 DEF Resent, TypeOK
      <4>5. Entitled(d, row[d])'
        <5> SUFFICES ASSUME row[d].runtime # "ollama", IsUsableShare(record.auth)
                     PROVE  record.auth \in granted'[d]
          BY <4>3 DEF Entitled
        <5>1. task[s].saved.runtime = row[d].runtime /\ Entitled(d, task[s].saved)
          BY <3>1, <3>2, <3>4 DEF TaskOK, Again
        <5>2. CASE record.auth = row[d].auth
          BY <3>2, <4>4, <5>2 DEF ClaimInv, Entitled
        <5>3. CASE record.auth = task[s].saved.auth
          BY <3>2, <4>4, <5>1, <5>3 DEF Entitled
        <5>4. CASE record.auth = task[s].share /\ task[s].body.ask # NoShare
          BY <3>2, <3>7, <5>1, <5>4 DEF Resent, TypeOK
        <5> QED BY <3>2, <3>7, <5>2, <5>3, <5>4 DEF Resent
      <4> QED BY <3>2, <3>3, <3>5, <4>3, <4>4, <4>5, ClaimSent
    <3> QED BY <2>9, <3>6, <3>7, ResendStep
  <2>10. ASSUME NEW d \in Deps, Starts(d) PROVE ClaimInv'
    <3>1. /\ row' = [row EXCEPT ![d].status = "active"] /\ UNCHANGED <<task, granted>>
          /\ row[d].status # "none"
      BY <2>10 DEF Starts, ClaimInv
    <3>2. \A e \in Deps : run'[e].at # "down" => run[e].at # "down"
      BY <2>10 DEF Starts, TypeOK
    <3> QED BY <3>1, <3>2, ClaimRow
  <2>11. ASSUME NEW d \in Deps, LaunchFails(d) PROVE ClaimInv'
    <3>1. /\ row' = [row EXCEPT ![d].status = "ended"] /\ UNCHANGED <<task, granted>>
          /\ row[d].status # "none"
      BY <2>11 DEF LaunchFails, StopRun, Down, ClaimInv
    <3>2. \A e \in Deps : run'[e].at # "down" => run[e].at # "down"
      BY <2>11 DEF LaunchFails, StopRun, Down, TypeOK
    <3> QED BY <3>1, <3>2, ClaimRow
  <2>12. ASSUME NEW d \in Deps, ContainerDies(d) PROVE ClaimInv'
    <3>1. /\ row' = [row EXCEPT ![d].status = "ended"] /\ UNCHANGED <<task, granted>>
          /\ row[d].status # "none"
      BY <2>12 DEF ContainerDies, FoundDead, Listed, StopRun, Down, ClaimInv
    <3>2. \A e \in Deps : run'[e].at # "down" => run[e].at # "down"
      BY <2>12 DEF ContainerDies, FoundDead, Listed, StopRun, Down, TypeOK
    <3> QED BY <3>1, <3>2, ClaimRow
  <2>13. ASSUME NEW d \in Deps, HealthTick(d) PROVE ClaimInv'
    <3>1. /\ row' = [row EXCEPT ![d].status = "active"] /\ UNCHANGED <<task, granted>>
          /\ row[d].status # "none"
      BY <2>13 DEF HealthTick, Listed, ClaimInv
    <3>2. \A e \in Deps : run'[e].at # "down" => run[e].at # "down"
      BY <2>13 DEF HealthTick, Listed, TypeOK
    <3> QED BY <3>1, <3>2, ClaimRow
  <2>14. ASSUME NEW d \in Deps, Reconcile(d) PROVE ClaimInv'
    <3>1. PICK x \in {"active", "ended"} : row' = [row EXCEPT ![d].status = x]
      BY <2>14 DEF Reconcile, ReconcileDeployStatus
    <3>2. UNCHANGED <<run, task, granted>> /\ row[d].status # "none"
      BY <2>14 DEF Reconcile, ClaimInv
    <3> QED BY <3>1, <3>2, ClaimRow
  <2>15. ASSUME NEW d \in Deps, Stop(d) PROVE ClaimInv'
    <3>1. /\ row' = [row EXCEPT ![d].status = "ended"] /\ UNCHANGED <<task, granted>>
          /\ row[d].status # "none"
      BY <2>15 DEF Stop, StopRun, Down, Listed, ClaimInv
    <3>2. \A e \in Deps : run'[e].at # "down" => run[e].at # "down"
      <4>1. Listed(d) => run[d].at # "down" BY DEF Listed
      <4> HIDE DEF Listed
      <4> QED BY <2>15, <4>1 DEF Stop, StopRun, Down, TypeOK
    <3> QED BY <3>1, <3>2, ClaimRow
  <2>16. ASSUME NEW n \in Nodes, Metric(n) PROVE ClaimInv'
    <3>1. UNCHANGED <<row, run, task, granted>>
      BY <2>16 DEF Metric
    <3> QED BY <3>1 DEF ClaimInv, TaskOK, OneCreator, Entitled
  <2>17. ASSUME NEW f \in Foreigners, Foreign(f[1], f[2]) PROVE ClaimInv'
    <3>1. UNCHANGED <<row, run, task, granted>>
      BY <2>17 DEF Foreign
    <3> QED BY <3>1 DEF ClaimInv, TaskOK, OneCreator, Entitled
  <2>18. ASSUME NEW share \in Shares, RecipeEdited(share) PROVE ClaimInv'
    <3>1. UNCHANGED <<row, run, task, granted>>
      BY <2>18 DEF RecipeEdited
    <3> QED BY <3>1 DEF ClaimInv, TaskOK, OneCreator, Entitled
  <2>19. ASSUME UNCHANGED vars PROVE ClaimInv'
    BY <2>19 DEF vars, ClaimInv, TaskOK, OneCreator, Entitled
  <2> QED
    BY <2>1, <2>2, <2>3, <2>4, <2>5, <2>6, <2>7, <2>8, <2>9, <2>10, <2>11,
       <2>12, <2>13, <2>14, <2>15, <2>16, <2>17, <2>18, <2>19 DEF Next, Request
<1>3. ClaimInv => ReclaimEarned
  BY DEF ClaimInv, TaskOK, Entitled, ReclaimEarned, Again
<1> QED BY <1>1, <1>2, <1>3, TypeCorrect, PTL DEF Spec


-----------------------------------------------------------------------------
(* What was admitted fits.                                                 *)

\* The integers admission reckons with.
LEMMA Reckoning ==
  ASSUME TypeOK, NEW n \in Nodes, NEW d \in Deps, NEW x \in Int, NEW a \in Int
  PROVE  /\ inuse[n] \in Int /\ reading[n] \in Int
         /\ held[d][n] \in Int /\ held[d][n] >= 0
         /\ Total[n] \in Int /\ Total[n] >= 0
         /\ ShareOf(n, x) \in Int /\ ShareOf(n, a) \in Int
         /\ SafetyMargin(n) \in Int
<1>1. /\ inuse[n] \in Int /\ reading[n] \in Int /\ held[d][n] \in Nat
  BY DEF TypeOK
<1>2. Total[n] \in Nat BY AdmissionAssumption DEF AdmissionAssumption
<1>3. ShareOf(n, x) \in Int /\ ShareOf(n, a) \in Int /\ SafetyMargin(n) \in Int
  BY ShareOfType DEF SafetyMargin
<1> QED BY <1>1, <1>2, <1>3

\* No share of a node is no memory.
LEMMA ShareOfNothing ==
  ASSUME NEW n \in Nodes
  PROVE  ShareOf(n, 0) = 0
<1>1. Total[n] \in Int BY AdmissionAssumption DEF AdmissionAssumption
<1>2. 2 * Total[n] * 0 + 20 = 20 BY <1>1
<1> QED BY <1>2 DEF ShareOf, Unit

\* computeVramShortfall without a reclaim: what it lets pass has room.
LEMMA FreshFits ==
  ASSUME TypeOK, NEW n \in Nodes, NEW d \in Deps, NEW x \in Int,
         reading[n] <= Total[n], ~Short(n, x, 0)
  PROVE  Excess(n, d, x, 0) <= 0
<1>1. /\ inuse[n] \in Int /\ reading[n] \in Int
      /\ held[d][n] \in Int /\ held[d][n] >= 0
      /\ Total[n] \in Int /\ Total[n] >= 0
      /\ ShareOf(n, x) \in Int /\ SafetyMargin(n) \in Int
  BY Reckoning
<1> QED BY <1>1, ShareOfNothing DEF Short, Excess, Greatest

\* computeVramShortfall with reclaimForRestart.
LEMMA RestartFits ==
  ASSUME TypeOK, NEW n \in Nodes, NEW d \in Deps, NEW x \in Int, NEW a \in Int,
         reading[n] <= Total[n], ~Short(n, x, Reclaim(n, a))
  PROVE  Excess(n, d, x, a) <= 0
<1>1. /\ inuse[n] \in Int /\ reading[n] \in Int
      /\ held[d][n] \in Int /\ held[d][n] >= 0
      /\ Total[n] \in Int /\ Total[n] >= 0
      /\ ShareOf(n, x) \in Int /\ ShareOf(n, a) \in Int
      /\ SafetyMargin(n) \in Int
  BY Reckoning
<1> QED BY <1>1 DEF Short, Excess, Reclaim, Greatest, Least

\* A request that moves on with an excess that fits, and the others as they were.
LEMMA FitTask ==
  ASSUME TypeOK, AdmittedFits, NEW s \in Slots, NEW t,
         task' = [task EXCEPT ![s] = t],
         t.at \in {"create", "reclaim", "send", "resend"}
           => \A e \in t.excess : e <= 0
  PROVE  AdmittedFits'
<1>1. task'[s] = t /\ \A r \in Slots : r # s => task'[r] = task[r]
  BY DEF TypeOK
<1> QED BY <1>1 DEF AdmittedFits

\* A node that uses no more than before is still within its total.
LEMMA WithinLess ==
  ASSUME TypeOK, Within, reading' = reading, inuse' \in [Nodes -> Int],
         \A n \in Nodes : inuse'[n] <= inuse[n]
  PROVE  Within'
<1>1. \A n \in Nodes : inuse[n] \in Int /\ inuse'[n] \in Int /\ Total[n] \in Int
  BY AdmissionAssumption DEF TypeOK, AdmissionAssumption
<1> QED BY <1>1 DEF Within

\* Whatever a request was admitted to, the node really has room for it, but for
\* what the reading was out of date and what the deployment holds less than it
\* may: memory the manager has no record of counts against a restart.
THEOREM AdmittedFitsCorrect == Spec => []AdmittedFits
<1> USE DEF FitInv
<1>1. Init => FitInv
  <2> SUFFICES ASSUME Init PROVE FitInv
    OBVIOUS
  <2>1. \A s \in Slots : task[s].at = "idle" BY DEF Init, Idle
  <2> QED BY <2>1, InitType DEF Within, AdmittedFits
<1>2. TypeOK /\ FitInv /\ [Next]_vars => FitInv'
  <2> SUFFICES ASSUME TypeOK, FitInv, [Next]_vars PROVE FitInv'
    OBVIOUS
  <2>1. ASSUME NEW s \in Slots, NEW d \in Deps, NEW p \in Posts, PostBegin(s, d, p)
        PROVE  FitInv'
    <3> DEFINE t == [at |-> "pick", dep |-> d, post |-> p]
    <3>1. task' = [task EXCEPT ![s] = t] /\ UNCHANGED <<inuse, reading>>
      BY <2>1 DEF PostBegin
    <3>2. t.at = "pick" OBVIOUS
    <3> HIDE DEF t
    <3>3. AdmittedFits' BY <3>1, <3>2, FitTask
    <3> QED BY <3>1, <3>3 DEF Within
  <2>2. ASSUME NEW s \in Slots, PostPick(s) PROVE FitInv'
    <3>1. PICK t : PickedTask(s, t) /\ task' = [task EXCEPT ![s] = t]
      BY <2>2, PickStep
    <3>2. UNCHANGED <<inuse, reading>> BY <2>2 DEF PostPick
    <3>3. t.at \in {"create", "reclaim", "send", "resend"}
            => \A e \in t.excess : e <= 0
      BY <3>1 DEF PickedTask, Idle
    <3>4. AdmittedFits' BY <3>1, <3>3, FitTask
    <3> QED BY <3>2, <3>4 DEF Within
  <2>3. ASSUME NEW s \in Slots, PostAdmit(s) PROVE FitInv'
    <3>1. PICK t : AdmittedTask(s, t) /\ task' = [task EXCEPT ![s] = t]
      BY <2>3, AdmitStep
    <3>2. UNCHANGED <<inuse, reading>> BY <2>3 DEF PostAdmit
    <3>3. t.at \in {"create", "reclaim", "send", "resend"}
            => \A e \in t.excess : e <= 0
      <4>1. CASE t = Idle BY <4>1 DEF Idle
      <4>2. CASE t # Idle
        <5>1. PICK share \in Int :
                /\ t.excess = {Excess(n, t.dep, share, 0) : n \in t.nodes}
                /\ \A n \in t.nodes : ~Short(n, share, 0)
          BY <3>1, <4>2 DEF AdmittedTask
        <5>2. t.dep \in Deps /\ t.nodes \subseteq Nodes
          BY <3>1, <4>2 DEF AdmittedTask, PostTask
        <5>3. \A n \in t.nodes : Excess(n, t.dep, share, 0) <= 0
          BY <5>1, <5>2, FreshFits DEF Within
        <5> QED BY <5>1, <5>3
      <4> QED BY <4>1, <4>2
    <3>4. AdmittedFits' BY <3>1, <3>3, FitTask
    <3> QED BY <3>2, <3>4 DEF Within
  <2>4. ASSUME NEW s \in Slots, PostCreate(s) PROVE FitInv'
    <3>1. PICK t : CreatedTask(s, t) /\ task' = [task EXCEPT ![s] = t]
      BY <2>4, CreateStep
    <3>2. UNCHANGED <<inuse, reading>> BY <2>4 DEF PostCreate
    <3>3. t.at \in {"create", "reclaim", "send", "resend"}
            => \A e \in t.excess : e <= 0
      <4>1. task[s].at = "create" BY <2>4 DEF PostCreate
      <4> QED BY <3>1, <4>1 DEF CreatedTask, AdmittedFits
    <3>4. AdmittedFits' BY <3>1, <3>3, FitTask
    <3> QED BY <3>2, <3>4 DEF Within
  <2>5. ASSUME NEW s \in Slots, PostReclaim(s) PROVE FitInv'
    <3> DEFINE t == [task[s] EXCEPT !.at = "send"]
    <3>1. task[s] \in PostTask /\ task[s].at = "reclaim"
      BY <2>5, TaskShape DEF PostReclaim
    <3>2. t.at = "send" /\ t.excess = task[s].excess BY <3>1 DEF PostTask
    <3>3. task' = [task EXCEPT ![s] = t] /\ reading' = reading
      BY <2>5 DEF PostReclaim, TypeOK
    <3> HIDE DEF t
    <3>4. \A e \in t.excess : e <= 0 BY <3>1, <3>2 DEF AdmittedFits
    <3>5. AdmittedFits' BY <3>3, <3>4, FitTask
    <3>6. Within' BY <2>5, <3>3, ReclaimStep, WithinLess
    <3> QED BY <3>5, <3>6
  <2>6. ASSUME NEW s \in Slots, PostSend(s) PROVE FitInv'
    <3>1. task[s] \in PostTask BY <2>6, TaskShape DEF PostSend
    <3>2. task[s].dep \in Deps /\ task[s].post.ask \in Int
      BY <3>1, AdmissionAssumption DEF PostTask, AdmissionAssumption
    <3>3. PostShare(task[s].post.ask) \in Int /\ row[task[s].dep] \in RowType
      BY <3>2, PickedShareType DEF TypeOK
    <3>4. /\ Deploy(task[s].dep, PostShare(task[s].post.ask), row[task[s].dep])
          /\ task' = [task EXCEPT ![s] = Idle] /\ reading' = reading
      BY <2>6 DEF PostSend
    <3>5. inuse' \in [Nodes -> Int] /\ \A n \in Nodes : inuse'[n] <= inuse[n]
      BY <3>2, <3>3, <3>4, DeployType
    <3>6. Within' BY <3>4, <3>5, WithinLess
    <3>7. AdmittedFits' BY <3>4, FitTask DEF Idle
    <3> QED BY <3>6, <3>7
  <2>7. ASSUME NEW s \in Slots, NEW d \in Deps, NEW b \in Restarts, RestartBegin(s, d, b)
        PROVE  FitInv'
    <3>1. PICK t : BegunTask(d, t) /\ task' = [task EXCEPT ![s] = t]
      BY <2>7, BeginStep
    <3>2. UNCHANGED <<inuse, reading>> BY <2>7 DEF RestartBegin
    <3>3. t.at \in {"create", "reclaim", "send", "resend"}
            => \A e \in t.excess : e <= 0
      BY <3>1 DEF BegunTask
    <3>4. AdmittedFits' BY <3>1, <3>3, FitTask
    <3> QED BY <3>2, <3>4 DEF Within
  <2>8. ASSUME NEW s \in Slots, RestartAdmit(s) PROVE FitInv'
    <3>1. PICK t : ReadmittedTask(s, t) /\ task' = [task EXCEPT ![s] = t]
      BY <2>8, ReadmitStep
    <3>2. UNCHANGED <<inuse, reading>> BY <2>8 DEF RestartAdmit
    <3>3. t.at \in {"create", "reclaim", "send", "resend"}
            => \A e \in t.excess : e <= 0
      <4>1. CASE t = Idle BY <4>1 DEF Idle
      <4>2. CASE t # Idle
        <5>1. PICK share \in Int :
                /\ t.excess = {Excess(n, t.dep, share, t.credit)
                                : n \in t.saved.nodes}
                /\ \A n \in t.saved.nodes : ~Short(n, share, Reclaim(n, t.credit))
          BY <3>1, <4>2 DEF ReadmittedTask
        <5>2. /\ t.dep \in Deps /\ t.saved.nodes \subseteq Nodes
              /\ t.credit \in Int
          BY <3>1, <4>2 DEF ReadmittedTask, RestartTask, RowType
        <5>3. \A n \in t.saved.nodes : Excess(n, t.dep, share, t.credit) <= 0
          BY <5>1, <5>2, RestartFits DEF Within
        <5> QED BY <5>1, <5>3
      <4> QED BY <4>1, <4>2
    <3>4. AdmittedFits' BY <3>1, <3>3, FitTask
    <3> QED BY <3>2, <3>4 DEF Within
  <2>9. ASSUME NEW s \in Slots, RestartSend(s) PROVE FitInv'
    <3>1. task[s] \in RestartTask BY <2>9, TaskShape DEF RestartSend, Again
    <3>2. task[s].dep \in Deps /\ task[s].merged \in Int BY <3>1 DEF RestartTask
    <3>3. PostShare(task[s].merged) \in Int BY <3>2, PickedShareType DEF TypeOK
    <3>4. task' = [task EXCEPT ![s] = Idle] /\ reading' = reading
      BY <2>9 DEF RestartSend
    <3>5. AdmittedFits' BY <3>4, FitTask DEF Idle
    <3>6. CASE UNCHANGED <<row, run, held, inuse, granted>>
      BY <3>4, <3>5, <3>6 DEF Within
    <3>7. ASSUME NEW record \in RowType, Resent(s, record) PROVE FitInv'
      <4>1. Deploy(task[s].dep, PostShare(task[s].merged), record)
        BY <3>7 DEF Resent
      <4>2. inuse' \in [Nodes -> Int] /\ \A n \in Nodes : inuse'[n] <= inuse[n]
        BY <3>2, <3>3, <4>1, DeployType
      <4>3. Within' BY <3>4, <4>2, WithinLess
      <4> QED BY <3>5, <4>3
    <3> QED BY <2>9, <3>6, <3>7, ResendStep
  <2>10. ASSUME NEW d \in Deps, Starts(d) PROVE FitInv'
    <3>1. UNCHANGED <<task, reading>> BY <2>10 DEF Starts
    <3>2. \A n \in Nodes : inuse'[n] <= Total[n] BY <2>10, StartStep
    <3> QED BY <3>1, <3>2 DEF Within, AdmittedFits
  <2>11. ASSUME NEW d \in Deps, LaunchFails(d) PROVE FitInv'
    <3>1. UNCHANGED <<task, reading>> /\ (Release(d) \/ inuse' = inuse)
      BY <2>11 DEF LaunchFails, StopRun
    <3>2. Within' BY <3>1, ReleaseType, WithinLess DEF Within
    <3> QED BY <3>1, <3>2 DEF AdmittedFits
  <2>12. ASSUME NEW d \in Deps, ContainerDies(d) PROVE FitInv'
    <3>1. UNCHANGED <<task, reading>> /\ Release(d)
      BY <2>12 DEF ContainerDies, StopRun
    <3>2. Within' BY <3>1, ReleaseType, WithinLess
    <3> QED BY <3>1, <3>2 DEF AdmittedFits
  <2>13. ASSUME NEW d \in Deps, HealthTick(d) PROVE FitInv'
    BY <2>13 DEF HealthTick, Within, AdmittedFits
  <2>14. ASSUME NEW d \in Deps, Reconcile(d) PROVE FitInv'
    BY <2>14 DEF Reconcile, Within, AdmittedFits
  <2>15. ASSUME NEW d \in Deps, Stop(d) PROVE FitInv'
    <3>1. UNCHANGED <<task, reading>> /\ (Release(d) \/ inuse' = inuse)
      BY <2>15 DEF Stop, StopRun
    <3>2. CASE Release(d)
      <4>1. Within' BY <3>1, <3>2, ReleaseType, WithinLess
      <4> QED BY <3>1, <4>1 DEF AdmittedFits
    <3>3. CASE inuse' = inuse BY <3>1, <3>3 DEF Within, AdmittedFits
    <3> QED BY <3>1, <3>2, <3>3
  <2>16. ASSUME NEW n \in Nodes, Metric(n) PROVE FitInv'
    <3>1. task' = task /\ inuse' = inuse /\ reading' = [reading EXCEPT ![n] = inuse[n]]
      BY <2>16 DEF Metric
    <3> QED BY <3>1 DEF TypeOK, Within, AdmittedFits
  <2>17. ASSUME NEW f \in Foreigners, Foreign(f[1], f[2]) PROVE FitInv'
    <3>1. f[1] \in Nodes /\ f[2] \in Nat
      BY AdmissionAssumption DEF AdmissionAssumption
    <3>2. /\ UNCHANGED <<task, reading>> /\ inuse[f[1]] + f[2] <= Total[f[1]]
          /\ inuse' = [inuse EXCEPT ![f[1]] = @ + f[2]]
      BY <2>17 DEF Foreign
    <3> QED BY <3>1, <3>2 DEF TypeOK, Within, AdmittedFits
  <2>18. ASSUME NEW share \in Shares, RecipeEdited(share) PROVE FitInv'
    BY <2>18 DEF RecipeEdited, Within, AdmittedFits
  <2>19. ASSUME UNCHANGED vars PROVE FitInv'
    BY <2>19 DEF vars, Within, AdmittedFits
  <2> QED
    BY <2>1, <2>2, <2>3, <2>4, <2>5, <2>6, <2>7, <2>8, <2>9, <2>10, <2>11,
       <2>12, <2>13, <2>14, <2>15, <2>16, <2>17, <2>18, <2>19 DEF Next, Request
<1>3. FitInv => AdmittedFits OBVIOUS
<1> HIDE DEF FitInv
<1> QED BY <1>1, <1>2, <1>3, TypeCorrect, PTL DEF Spec

=============================================================================
