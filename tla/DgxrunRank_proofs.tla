------------------------- MODULE DgxrunRank_proofs -------------------------
(***************************************************************************)
(* Machine-checked proofs about DgxrunRank, for any number of deploy and   *)
(* undeploy messages, reconnects and agent restarts.                       *)
(***************************************************************************)
EXTENDS DgxrunRank, TLAPS

(***************************************************************************)
(* The inductive invariant, in named parts.                                *)
(***************************************************************************)

\* A patient operator never has two launches under way.
OneLaunch ==
  \A d, e \in Deploys : InFlight(d) /\ InFlight(e) => d = e

\* After a stop, a launch that has yet to meet its exit will find the cancel.
CancelPending ==
  lastCmd = "undeploy" =>
    \A d \in Deploys :
      InFlight(d) /\ launch[d] \notin {"reap", "reapDone"} => cancel

\* After a stop, a running container is still ahead of a docker command.
Doomed ==
  lastCmd = "undeploy" /\ container = "running" =>
    \/ \E u \in Undeploys : stop[u] = "docker"
    \/ \E d \in Deploys : launch[d] \in {"exit0", "reap"}

\* After a stop, a store entry is still ahead of a removal.
EntryDoomed ==
  lastCmd = "undeploy" /\ store.tracked => LaunchInFlight \/ StopInFlight

\* Kept evidence is an exited container that no launch and no removal is after.
EvidenceSafe ==
  evidence =>
    /\ container = "exited"
    /\ \A d \in Deploys : ~InFlight(d)
    /\ \A u \in Undeploys : stop[u] = "docker" => preserve[u]

-----------------------------------------------------------------------------

\* The entry of a deployment that is not stored is an entry.
LEMMA EntryType == NoEntry \in Entries
BY DEF NoEntry, Entries

\* Every variable keeps its type, the absent counter its bound.
THEOREM TypeCorrect == Spec => []TypeOK
<1> USE RankAssumption DEF RankAssumption
<1>1. Init => TypeOK
  <2> SUFFICES ASSUME Init PROVE TypeOK
    OBVIOUS
  <2>1. store \in Entries /\ seen \in [Timers -> Entries]
    BY EntryType DEF Init
  <2>2. report \in Reports
    BY DEF Init, Reports, NoReport
  <2>3. /\ nReconnects \in 0..MaxReconnects
        /\ nCrashes \in 0..MaxAgentCrashes
        /\ absentTicks \in 0..1
    BY DEF Init
  <2> QED BY <2>1, <2>2, <2>3 DEF Init, TypeOK, ContainerStates,
             LaunchPhases, StopPhases, TickPhases
<1>2. TypeOK /\ [Next]_vars => TypeOK'
  <2> SUFFICES ASSUME TypeOK, [Next]_vars PROVE TypeOK'
    OBVIOUS
  <2> USE DEF TypeOK, NoEntry, Entries, ContainerStates, LaunchPhases,
          StopPhases, TickPhases, Timers, Reports, NoReport, Send, Silent
  <2>1. ASSUME NEW d \in Deploys, Deploy(d) PROVE TypeOK'
    <3>1. hit' \in BOOLEAN BY <2>1, Zenon DEF Deploy, VerdictInFlight
    <3>2. report' \in Reports BY <2>1 DEF Deploy
    <3>3. launch' \in [Deploys -> LaunchPhases] BY <2>1 DEF Deploy
    <3> QED BY <2>1, <3>1, <3>2, <3>3 DEF Deploy
  <2>2. ASSUME NEW d \in Deploys, LaunchStep(d) PROVE TypeOK'
    <3>1. CASE LaunchRefused(d) BY <3>1 DEF LaunchRefused
    <3>2. CASE LaunchClear(d) BY <3>2 DEF LaunchClear
    <3>3. CASE LaunchRm(d) BY <3>3 DEF LaunchRm, Docker, VerdictInFlight
    <3>4. CASE LaunchPersist(d) BY <3>4 DEF LaunchPersist, LaunchedEntry
    <3>5. CASE LaunchSpawn(d) BY <3>5 DEF LaunchSpawn
    <3>6. CASE DockerCreate(d) BY <3>6 DEF DockerCreate
    <3>7. CASE DockerStart(d) BY <3>7 DEF DockerStart
    <3>8. CASE LaunchExit(d)
      <4>1. store' \in Entries BY <3>8 DEF LaunchExit, ClearStarting
      <4>2. launch' \in [Deploys -> LaunchPhases] BY <3>8 DEF LaunchExit
      <4>3. report' \in Reports BY <3>8 DEF LaunchExit
      <4> QED BY <3>8, <4>1, <4>2, <4>3 DEF LaunchExit
    <3>9. CASE LaunchReap(d) BY <3>9 DEF LaunchReap, Docker, AfterDocker
    <3>10. CASE LaunchReaped(d)
      BY <3>10 DEF LaunchReaped, RemoveDeployment
    <3> QED BY <2>2, <3>1, <3>2, <3>3, <3>4, <3>5, <3>6, <3>7, <3>8, <3>9,
               <3>10 DEF LaunchStep
  <2>3. ASSUME NEW u \in Undeploys, NEW keep \in BOOLEAN, Undeploy(u, keep)
        PROVE TypeOK'
    BY <2>3 DEF Undeploy, RequestCancel
  <2>4. ASSUME NEW u \in Undeploys, StopStep(u) PROVE TypeOK'
    <3>1. CASE StopDocker(u) BY <3>1 DEF StopDocker, Docker, AfterDocker
    <3>2. CASE StopDone(u) BY <3>2 DEF StopDone, RemoveDeployment
    <3> QED BY <2>4, <3>1, <3>2 DEF StopStep
  <2>5. ASSUME NEW t \in Timers, TickStep(t) PROVE TypeOK'
    <3>1. CASE TickStart(t) BY <3>1 DEF TickStart
    <3>2. CASE InspectUnknown(t) BY <3>2 DEF InspectUnknown, Forget
    <3>3. CASE InspectAbsent(t)
      <4>1. hit' \in BOOLEAN
        BY <3>3, Zenon DEF InspectAbsent, Verdict, LaunchInFlight
      <4>2. tick' \in [Timers -> TickPhases]
        BY <3>3 DEF InspectAbsent, Verdict
      <4>3. absentTicks' \in 0..1
        BY <3>3 DEF InspectAbsent, AbsentTicksToFail
      <4> QED BY <3>3, <4>1, <4>2, <4>3 DEF InspectAbsent, Forget
    <3>4. CASE InspectFound(t)
      <4>1. hit' \in BOOLEAN
        BY <3>4, Zenon DEF InspectFound, Verdict, LaunchInFlight
      <4>2. tick' \in [Timers -> TickPhases]
        BY <3>4 DEF InspectFound, Verdict
      <4> QED BY <3>4, <4>1, <4>2 DEF InspectFound, Forget
    <3>5. CASE Capture(t)
      BY <3>5 DEF Capture, Verdict, LaunchInFlight, Docker, AfterDocker
    <3>6. CASE HealthStep
      <4>1. CASE TickAlive BY <4>1 DEF TickAlive
      <4>2. CASE TickDead
        <5>1. evidence' \in BOOLEAN BY <4>2, Zenon DEF TickDead
        <5> QED BY <4>2, <5>1 DEF TickDead
      <4>3. CASE TickStop BY <4>3 DEF TickStop, Docker, AfterDocker
      <4>4. CASE TickStopDone BY <4>4 DEF TickStopDone, RemoveDeployment
      <4> QED BY <3>6, <4>1, <4>2, <4>3, <4>4 DEF HealthStep
    <3> QED BY <2>5, <3>1, <3>2, <3>3, <3>4, <3>5, <3>6
            DEF TickStep, InspectStep
  <2>6. CASE Reconnect BY <2>6 DEF Reconnect
  <2>7. CASE Reconcile BY <2>7 DEF Reconcile
  <2>8. CASE ContainerDies \/ ContainerVanishes
    BY <2>8 DEF ContainerDies, ContainerVanishes
  <2>9. CASE AgentCrash
    <3>1. hit' \in BOOLEAN BY <2>9, Zenon DEF AgentCrash, LaunchInFlight
    <3>2. launch' \in [Deploys -> LaunchPhases] BY <2>9 DEF AgentCrash
    <3>3. stop' \in [Undeploys -> StopPhases] BY <2>9 DEF AgentCrash
    <3>4. container' \in ContainerStates BY <2>9 DEF AgentCrash
    <3>5. seen' \in [Timers -> Entries]
      <4> HIDE DEF Entries, NoEntry, Timers
      <4> QED BY <2>9, EntryType DEF AgentCrash
    <3>6. /\ tick' \in [Timers -> TickPhases]
          /\ preserve' \in [Undeploys -> BOOLEAN]
          /\ recon' \in {"idle", "inspect"}
          /\ nCrashes' \in 0..MaxAgentCrashes
      BY <2>9 DEF AgentCrash
    <3>7. /\ absentTicks' \in 0..1
          /\ report' \in Reports
          /\ lastCmd' \in {"none", "deploy", "undeploy"}
          /\ nReconnects' \in 0..MaxReconnects
      BY <2>9 DEF AgentCrash
    <3>8. store' \in Entries /\ cancel' \in BOOLEAN /\ evidence' \in BOOLEAN
      BY <2>9, Zenon DEF AgentCrash
    <3> QED BY <3>1, <3>2, <3>3, <3>4, <3>5, <3>6, <3>7, <3>8, Zenon
  <2>10. CASE UNCHANGED vars BY <2>10 DEF vars
  <2> QED BY <2>1, <2>2, <2>3, <2>4, <2>5, <2>6, <2>7, <2>8, <2>9, <2>10
          DEF Next
<1> QED BY <1>1, <1>2, PTL DEF Spec

(***************************************************************************)
(* Steps that neither command, launch nor stop.                            *)
(***************************************************************************)

\* Timers, reconnects and the environment leave the commands alone; they may
\* take a container or an entry away but never bring one back.
SoftStep ==
  /\ UNCHANGED <<launch, stop, cancel, lastCmd>>
  /\ container' = "running" => container = "running"
  /\ store'.tracked => store.tracked

\* The timers, the reconnect and the environment are soft steps.
LEMMA SoftSteps ==
  ASSUME TypeOK,
         \/ \E t \in Timers : TickStep(t)
         \/ Reconnect \/ Reconcile
         \/ ContainerDies \/ ContainerVanishes
         \/ UNCHANGED vars
  PROVE  SoftStep
<1> USE DEF SoftStep
<1>1. ASSUME NEW t \in Timers, TickStep(t) PROVE SoftStep
  <2>1. CASE TickStart(t) BY <2>1 DEF TickStart
  <2>2. CASE InspectStep(t)
    BY <2>2 DEF InspectStep, InspectUnknown, InspectAbsent, InspectFound
  <2>3. CASE Capture(t) BY <2>3 DEF Capture, Docker, AfterDocker
  <2>4. CASE HealthStep
    BY <2>4 DEF HealthStep, TickAlive, TickDead, TickStop, TickStopDone,
                Docker, AfterDocker, RemoveDeployment, NoEntry
  <2> QED BY <1>1, <2>1, <2>2, <2>3, <2>4 DEF TickStep
<1>2. CASE Reconnect BY <1>2 DEF Reconnect
<1>3. CASE Reconcile BY <1>3 DEF Reconcile
<1>4. CASE ContainerDies BY <1>4 DEF ContainerDies
<1>5. CASE ContainerVanishes BY <1>5 DEF ContainerVanishes
<1>6. CASE UNCHANGED vars BY <1>6 DEF vars
<1> QED BY <1>1, <1>2, <1>3, <1>4, <1>5, <1>6

\* Every step is a command, a launch or stop step, a restart or a soft step.
LEMMA StepKinds ==
  ASSUME TypeOK, [Next]_vars
  PROVE  \/ \E d \in Deploys : Deploy(d) \/ LaunchStep(d)
         \/ \E u \in Undeploys :
              (\E keep \in BOOLEAN : Undeploy(u, keep)) \/ StopStep(u)
         \/ AgentCrash
         \/ SoftStep
BY SoftSteps DEF Next

\* What a launch step changes: its own phase, and a launch that is over is over.
LEMMA LaunchFrame ==
  ASSUME TypeOK, NEW d \in Deploys, LaunchStep(d)
  PROVE  /\ UNCHANGED <<stop, preserve, lastCmd, evidence>>
         /\ \A e \in Deploys \ {d} : launch'[e] = launch[e]
         /\ InFlight(d)
<1> USE DEF TypeOK, InFlight, LaunchPhases
<1>1. CASE LaunchRefused(d) BY <1>1 DEF LaunchRefused
<1>2. CASE LaunchClear(d) BY <1>2 DEF LaunchClear
<1>3. CASE LaunchRm(d) BY <1>3 DEF LaunchRm
<1>4. CASE LaunchPersist(d) BY <1>4 DEF LaunchPersist
<1>5. CASE LaunchSpawn(d) BY <1>5 DEF LaunchSpawn
<1>6. CASE DockerCreate(d) BY <1>6 DEF DockerCreate
<1>7. CASE DockerStart(d) BY <1>7 DEF DockerStart
<1>8. CASE LaunchExit(d) BY <1>8 DEF LaunchExit
<1>9. CASE LaunchReap(d) BY <1>9 DEF LaunchReap
<1>10. CASE LaunchReaped(d) BY <1>10 DEF LaunchReaped
<1> QED BY <1>1, <1>2, <1>3, <1>4, <1>5, <1>6, <1>7, <1>8, <1>9, <1>10
        DEF LaunchStep

\* The operator's patience is kept: no two launches are ever under way.
LEMMA OneLaunchStep ==
  ASSUME ~Overlap, TypeOK, OneLaunch, [Next]_vars
  PROVE  OneLaunch'
<1> USE DEF OneLaunch
<1>1. ASSUME NEW d \in Deploys, Deploy(d) PROVE OneLaunch'
  BY <1>1 DEF Deploy, LaunchInFlight, InFlight, TypeOK
<1>2. ASSUME NEW d \in Deploys, LaunchStep(d) PROVE OneLaunch'
  BY <1>2, LaunchFrame DEF InFlight
<1>3. ASSUME NEW u \in Undeploys, NEW keep \in BOOLEAN, Undeploy(u, keep)
      PROVE OneLaunch'
  BY <1>3 DEF Undeploy, InFlight
<1>4. ASSUME NEW u \in Undeploys, StopStep(u) PROVE OneLaunch'
  BY <1>4 DEF StopStep, StopDocker, StopDone, InFlight
<1>5. CASE AgentCrash BY <1>5 DEF AgentCrash, InFlight
<1>6. CASE SoftStep BY <1>6 DEF SoftStep, InFlight
<1> QED BY <1>1, <1>2, <1>3, <1>4, <1>5, <1>6, StepKinds

\* A launch that a stop has overtaken keeps its cancel until it is reaped.
LEMMA CancelPendingStep ==
  ASSUME ~Overlap, TypeOK, OneLaunch, CancelPending, [Next]_vars
  PROVE  CancelPending'
<1> USE DEF CancelPending
<1>1. ASSUME NEW d \in Deploys, Deploy(d) PROVE CancelPending'
  BY <1>1 DEF Deploy
<1>2. ASSUME NEW d \in Deploys, LaunchStep(d) PROVE CancelPending'
  <2>1. CASE LaunchReaped(d)
    <3>1. \A e \in Deploys \ {d} : ~InFlight(e)'
      BY <1>2, LaunchFrame DEF OneLaunch, InFlight
    <3>2. launch'[d] = "over" BY <2>1 DEF LaunchReaped, TypeOK
    <3> QED BY <3>1, <3>2 DEF InFlight
  <2>2. CASE ~LaunchReaped(d)
    <3>1. cancel' = cancel
      BY <1>2, <2>2 DEF LaunchStep, LaunchRefused, LaunchClear, LaunchRm,
         LaunchPersist, LaunchSpawn, DockerCreate, DockerStart, LaunchExit,
         LaunchReap
    <3>2. launch[d] = "reap" => launch'[d] = "reapDone"
      BY <1>2, <2>2 DEF LaunchStep, LaunchRefused, LaunchClear, LaunchRm,
         LaunchPersist, LaunchSpawn, DockerCreate, DockerStart, LaunchExit,
         LaunchReap, TypeOK
    <3>3. launch[d] # "reapDone"
      BY <1>2, <2>2 DEF LaunchStep, LaunchRefused, LaunchClear, LaunchRm,
         LaunchPersist, LaunchSpawn, DockerCreate, DockerStart, LaunchExit,
         LaunchReap
    <3> QED BY <1>2, <3>1, <3>2, <3>3, LaunchFrame DEF InFlight
  <2> QED BY <2>1, <2>2
<1>3. ASSUME NEW u \in Undeploys, NEW keep \in BOOLEAN, Undeploy(u, keep)
      PROVE CancelPending'
  BY <1>3 DEF Undeploy, RequestCancel
<1>4. ASSUME NEW u \in Undeploys, StopStep(u) PROVE CancelPending'
  BY <1>4 DEF StopStep, StopDocker, StopDone, InFlight
<1>5. CASE AgentCrash BY <1>5 DEF AgentCrash
<1>6. CASE SoftStep BY <1>6 DEF SoftStep, InFlight
<1> QED BY <1>1, <1>2, <1>3, <1>4, <1>5, <1>6, StepKinds

\* What a launch that was overtaken by a stop leaves in the store is removed.
LEMMA EntryDoomedStep ==
  ASSUME ~Overlap, TypeOK, CancelPending, EntryDoomed, [Next]_vars
  PROVE  EntryDoomed'
<1> USE DEF EntryDoomed
<1>1. ASSUME NEW d \in Deploys, Deploy(d) PROVE EntryDoomed'
  BY <1>1 DEF Deploy
<1>2. ASSUME NEW d \in Deploys, LaunchStep(d), lastCmd = "undeploy"
      PROVE EntryDoomed'
  <2>1. CASE LaunchReaped(d)
    BY <2>1 DEF LaunchReaped, RemoveDeployment, NoEntry
  <2>2. CASE ~LaunchReaped(d)
    <3>1. launch[d] \notin {"reap", "reapDone"} => cancel
      BY <1>2, LaunchFrame DEF CancelPending
    <3>2. launch'[d] \notin {"idle", "over"}
      BY <1>2, <2>2, <3>1 DEF LaunchStep, LaunchRefused, LaunchClear,
         LaunchRm, LaunchPersist, LaunchSpawn, DockerCreate, DockerStart,
         LaunchExit, LaunchExitAction, LaunchReap, TypeOK
    <3> QED BY <3>2 DEF LaunchInFlight, InFlight
  <2> QED BY <2>1, <2>2
<1>3. ASSUME NEW d \in Deploys, LaunchStep(d), lastCmd # "undeploy"
      PROVE EntryDoomed'
  BY <1>3, LaunchFrame
<1>4. ASSUME NEW u \in Undeploys, NEW keep \in BOOLEAN, Undeploy(u, keep)
      PROVE EntryDoomed'
  BY <1>4 DEF Undeploy, StopInFlight, TypeOK
<1>5. ASSUME NEW u \in Undeploys, StopStep(u) PROVE EntryDoomed'
  <2>1. CASE StopDocker(u) BY <2>1 DEF StopDocker, StopInFlight, TypeOK
  <2>2. CASE StopDone(u)
    BY <2>2 DEF StopDone, RemoveDeployment, NoEntry
  <2> QED BY <1>5, <2>1, <2>2 DEF StopStep
<1>6. CASE AgentCrash BY <1>6 DEF AgentCrash
<1>7. CASE SoftStep
  BY <1>7 DEF SoftStep, LaunchInFlight, InFlight, StopInFlight
<1> QED BY <1>1, <1>2, <1>3, <1>4, <1>5, <1>6, <1>7, StepKinds

\* A container that outlives a stop has a docker command still coming for it.
LEMMA DoomedStep ==
  ASSUME ~Overlap, ~DockerFails, TypeOK, CancelPending, Doomed, [Next]_vars
  PROVE  Doomed'
<1> USE DEF Doomed
<1>1. ASSUME NEW d \in Deploys, Deploy(d) PROVE Doomed'
  BY <1>1 DEF Deploy
<1>2. ASSUME NEW d \in Deploys, LaunchStep(d) PROVE Doomed'
  <2>1. CASE \/ LaunchRefused(d) \/ LaunchClear(d) \/ LaunchSpawn(d)
             \/ LaunchPersist(d) \/ LaunchReaped(d)
    BY <2>1 DEF LaunchRefused, LaunchClear, LaunchSpawn, LaunchPersist,
                LaunchReaped, TypeOK
  <2>2. CASE LaunchRm(d) BY <2>2 DEF LaunchRm, Docker
  <2>3. CASE DockerCreate(d) BY <2>3 DEF DockerCreate, TypeOK
  <2>4. CASE DockerStart(d) BY <2>4 DEF DockerStart, TypeOK
  <2>5. CASE LaunchExit(d)
    BY <2>5 DEF LaunchExit, LaunchExitAction, CancelPending, InFlight, TypeOK
  <2>6. CASE LaunchReap(d) BY <2>6 DEF LaunchReap, Docker, AfterDocker
  <2> QED BY <1>2, <2>1, <2>2, <2>3, <2>4, <2>5, <2>6 DEF LaunchStep
<1>3. ASSUME NEW u \in Undeploys, NEW keep \in BOOLEAN, Undeploy(u, keep)
      PROVE Doomed'
  BY <1>3 DEF Undeploy, TypeOK
<1>4. ASSUME NEW u \in Undeploys, StopStep(u) PROVE Doomed'
  <2>1. CASE StopDocker(u) BY <2>1 DEF StopDocker, Docker, AfterDocker
  <2>2. CASE StopDone(u) BY <2>2 DEF StopDone, TypeOK
  <2> QED BY <1>4, <2>1, <2>2 DEF StopStep
<1>5. CASE AgentCrash BY <1>5 DEF AgentCrash
<1>6. CASE SoftStep BY <1>6 DEF SoftStep
<1> QED BY <1>1, <1>2, <1>3, <1>4, <1>5, <1>6, StepKinds

\* A patient operator's stop always ends with the rank out of the deployment
\* store, even when every docker command fails (stopDgxrun's `finally`).
THEOREM StopForgetsCorrect ==
  ASSUME ~Overlap PROVE Spec => []StopForgets
<1> DEFINE Inv == OneLaunch /\ CancelPending /\ EntryDoomed
<1>1. Init => Inv
  BY DEF Init, OneLaunch, CancelPending, EntryDoomed, InFlight
<1>2. TypeOK /\ Inv /\ [Next]_vars => Inv'
  BY OneLaunchStep, CancelPendingStep, EntryDoomedStep
<1>3. Inv => StopForgets
  BY DEF EntryDoomed, StopForgets, Quiescent
<1> QED BY <1>1, <1>2, <1>3, TypeCorrect, PTL DEF Spec

\* A patient operator's stop always ends with nothing running, however it raced
\* the launch (deploy-cancel.ts), when docker does what it is told.
THEOREM StopWinsCorrect ==
  ASSUME ~Overlap, ~DockerFails PROVE Spec => []StopWins
<1> DEFINE Inv == OneLaunch /\ CancelPending /\ Doomed
<1>1. Init => Inv
  BY DEF Init, OneLaunch, CancelPending, Doomed, InFlight
<1>2. TypeOK /\ Inv /\ [Next]_vars => Inv'
  BY OneLaunchStep, CancelPendingStep, DoomedStep
<1>3. Inv => StopWins
  BY DEF Doomed, StopWins, Quiescent, LaunchInFlight, InFlight, StopInFlight
<1> QED BY <1>1, <1>2, <1>3, TypeCorrect, PTL DEF Spec

\* The container a failure teardown kept for the post-mortem survives every
\* later preserving undeploy (#94), with impatient operators and failing docker
\* commands too.
THEOREM EvidenceKeptCorrect == Spec => []EvidenceKept
<1>1. Init => EvidenceSafe
  BY DEF Init, EvidenceSafe
<1>2. TypeOK /\ EvidenceSafe /\ [Next]_vars => EvidenceSafe'
  <2> SUFFICES ASSUME TypeOK, EvidenceSafe, [Next]_vars PROVE EvidenceSafe'
    OBVIOUS
  <2> USE DEF EvidenceSafe
  <2>1. ASSUME NEW d \in Deploys, Deploy(d) PROVE EvidenceSafe'
    BY <2>1 DEF Deploy
  <2>2. ASSUME NEW d \in Deploys, LaunchStep(d) PROVE EvidenceSafe'
    BY <2>2, LaunchFrame
  <2>3. ASSUME NEW u \in Undeploys, NEW keep \in BOOLEAN, Undeploy(u, keep)
        PROVE EvidenceSafe'
    BY <2>3 DEF Undeploy, InFlight, TypeOK
  <2>4. ASSUME NEW u \in Undeploys, StopStep(u) PROVE EvidenceSafe'
    <3>1. CASE StopDocker(u)
      BY <3>1 DEF StopDocker, Docker, AfterDocker, InFlight, TypeOK
    <3>2. CASE StopDone(u) BY <3>2 DEF StopDone, InFlight, TypeOK
    <3> QED BY <2>4, <3>1, <3>2 DEF StopStep
  <2>5. ASSUME NEW t \in Timers, TickStep(t) PROVE EvidenceSafe'
    <3>1. CASE TickStart(t) BY <3>1 DEF TickStart, InFlight
    <3>2. CASE InspectStep(t)
      BY <3>2 DEF InspectStep, InspectUnknown, InspectAbsent, InspectFound,
                  InFlight
    <3>3. CASE Capture(t) BY <3>3 DEF Capture, Docker, AfterDocker, InFlight
    <3>4. CASE TickAlive BY <3>4 DEF TickAlive, InFlight
    <3>5. CASE TickDead BY <3>5 DEF TickDead, LaunchInFlight, InFlight
    <3>6. CASE TickStop BY <3>6 DEF TickStop, Docker, AfterDocker, InFlight
    <3>7. CASE TickStopDone BY <3>7 DEF TickStopDone, InFlight
    <3> QED BY <2>5, <3>1, <3>2, <3>3, <3>4, <3>5, <3>6, <3>7
            DEF TickStep, HealthStep
  <2>6. CASE Reconnect BY <2>6 DEF Reconnect, InFlight
  <2>7. CASE Reconcile BY <2>7 DEF Reconcile, InFlight
  <2>8. CASE ContainerDies BY <2>8 DEF ContainerDies, InFlight
  <2>9. CASE ContainerVanishes BY <2>9 DEF ContainerVanishes, InFlight
  <2>10. CASE AgentCrash
    BY <2>10 DEF AgentCrash, InFlight, TypeOK, StopPhases
  <2>11. CASE UNCHANGED vars BY <2>11 DEF vars, InFlight
  <2> QED BY <2>1, <2>2, <2>3, <2>4, <2>5, <2>6, <2>7, <2>8, <2>9, <2>10,
             <2>11 DEF Next
<1>3. EvidenceSafe => EvidenceKept
  BY DEF EvidenceSafe, EvidenceKept
<1> QED BY <1>1, <1>2, <1>3, TypeCorrect, PTL DEF Spec

(***************************************************************************)
(* No live container is lost from the store.                               *)
(***************************************************************************)

\* Unless a stop was asked for, none is under way and no launch is cancelled.
NothingStops ==
  lastCmd # "undeploy" =>
    /\ ~StopInFlight /\ ~cancel
    /\ \A d \in Deploys : launch[d] \notin {"reap", "reapDone"}

\* A launch that no verdict has hit goes from its docker rm to its docker run
\* without a verdict under way, and its entry stays in the store.
Unhit ==
  lastCmd # "undeploy" /\ ~hit =>
    \A d \in Deploys :
      launch[d] \in {"rmDone", "drop", "run", "created"} =>
        /\ ~VerdictInFlight /\ container \in {"absent", "created"}
        /\ launch[d] # "rmDone" => store.tracked

\* What is said of running containers excludes a launch that will be reaped.
Kept == lastCmd # "undeploy" \/ ~LaunchInFlight

\* A verdict that hit no launch is about a container that is not running.
VerdictTrue ==
  VerdictInFlight /\ ~hit /\ Kept => container # "running"

RunningTracked ==
  container = "running" /\ ~hit /\ Kept => store.tracked

\* What docker was told to take down is down.
DoneMeansDown ==
  /\ \A u \in Undeploys :
       stop[u] = "dockerDone" /\ ~LaunchInFlight => container # "running"
  /\ \A d \in Deploys : launch[d] = "reapDone" => container # "running"

OrphanInv ==
  NothingStops /\ Unhit /\ VerdictTrue /\ RunningTracked /\ DoneMeansDown

\* What a soft step does to verdicts, and to the entry.
SoftVerdict ==
  /\ hit => hit'
  /\ container \in {"absent", "created"} => container' \in {"absent", "created"}
  /\ VerdictInFlight' => VerdictInFlight \/ container # "running"
  /\ VerdictInFlight' /\ ~VerdictInFlight /\ LaunchInFlight
       => hit' \/ container = "exited"
  /\ store' = store \/ VerdictInFlight

\* A verdict is the health timer's, and hits a launch under way.
LEMMA VerdictStep ==
  ASSUME TypeOK, NEW t \in Timers, NEW phase \in {"alive", "dead"},
         Verdict(t, phase)
  PROVE  /\ hit => hit'
         /\ VerdictInFlight' => VerdictInFlight \/ phase = "dead"
         /\ VerdictInFlight' /\ ~VerdictInFlight /\ LaunchInFlight => hit'
<1>1. hit' = (hit \/ (t = "health" /\ phase = "dead" /\ LaunchInFlight))
  BY DEF Verdict
<1>2. /\ VerdictInFlight' => VerdictInFlight \/ phase = "dead"
      /\ VerdictInFlight' /\ ~VerdictInFlight => t = "health"
  BY DEF Verdict, VerdictInFlight, TypeOK, Timers
<1> QED BY <1>1, <1>2, Zenon

\* The steps of the timers and of the environment are soft on verdicts.
LEMMA SoftVerdicts ==
  ASSUME TypeOK,
         \/ \E t \in Timers : TickStep(t)
         \/ Reconnect \/ Reconcile
         \/ ContainerDies \/ ContainerVanishes
         \/ UNCHANGED vars
  PROVE  SoftVerdict
<1> USE DEF SoftVerdict
<1>1. ASSUME NEW t \in Timers, TickStep(t) PROVE SoftVerdict
  <2> USE DEF TypeOK, Timers, VerdictInFlight
  <2>1. CASE TickStart(t) BY <2>1 DEF TickStart
  <2>2. CASE InspectUnknown(t) BY <2>2 DEF InspectUnknown
  <2>3. CASE InspectAbsent(t)
    <3>1. UNCHANGED <<container, store>> /\ container = "absent"
      BY <2>3 DEF InspectAbsent
    <3>2. \/ tick' = [tick EXCEPT ![t] = "idle"] /\ hit' = hit
          \/ Verdict(t, "dead")
      BY <2>3 DEF InspectAbsent
    <3> QED BY <3>1, <3>2, VerdictStep
  <2>4. CASE InspectFound(t)
    <3>1. UNCHANGED <<container, store>> /\ container # "absent"
      BY <2>4 DEF InspectFound
    <3>2. CASE tick' = [tick EXCEPT ![t] = "idle"] /\ hit' = hit
      BY <3>1, <3>2
    <3>3. CASE /\ container = "exited" /\ hit' = hit
               /\ tick' = [tick EXCEPT ![t] = "capture"]
      BY <3>1, <3>3
    <3>4. CASE container = "created" /\ Verdict(t, "dead")
      BY <3>1, <3>4, VerdictStep
    <3>5. CASE container = "running" /\ Verdict(t, "alive")
      BY <3>1, <3>5, VerdictStep
    <3> QED BY <2>4, <3>2, <3>3, <3>4, <3>5 DEF InspectFound
  <2>5. CASE Capture(t) BY <2>5 DEF Capture, Verdict, Docker, AfterDocker
  <2>6. CASE TickAlive BY <2>6 DEF TickAlive
  <2>7. CASE TickDead BY <2>7 DEF TickDead
  <2>8. CASE TickStop BY <2>8 DEF TickStop, Docker, AfterDocker
  <2>9. CASE TickStopDone BY <2>9 DEF TickStopDone
  <2> QED BY <1>1, <2>1, <2>2, <2>3, <2>4, <2>5, <2>6, <2>7, <2>8, <2>9
          DEF TickStep, InspectStep, HealthStep
<1>2. CASE Reconnect BY <1>2 DEF Reconnect, VerdictInFlight
<1>3. CASE Reconcile BY <1>3 DEF Reconcile, VerdictInFlight
<1>4. CASE ContainerDies BY <1>4 DEF ContainerDies, VerdictInFlight
<1>5. CASE ContainerVanishes BY <1>5 DEF ContainerVanishes, VerdictInFlight
<1>6. CASE UNCHANGED vars BY <1>6 DEF vars, VerdictInFlight
<1> QED BY <1>1, <1>2, <1>3, <1>4, <1>5, <1>6

\* Every step is one of a launch, of a stop, a restart, or soft.
LEMMA OrphanKinds ==
  ASSUME TypeOK, [Next]_vars
  PROVE  \/ \E d \in Deploys : Deploy(d) \/ LaunchStep(d)
         \/ \E u \in Undeploys :
              (\E keep \in BOOLEAN : Undeploy(u, keep)) \/ StopStep(u)
         \/ AgentCrash
         \/ SoftStep /\ SoftVerdict
BY SoftSteps, SoftVerdicts DEF Next

\* The steps of the timers and of the environment.
LEMMA OrphanSoft ==
  ASSUME TypeOK, OrphanInv, SoftStep, SoftVerdict
  PROVE  OrphanInv'
<1>1. /\ LaunchInFlight' = LaunchInFlight /\ StopInFlight' = StopInFlight
      /\ Kept' = Kept
  BY DEF SoftStep, LaunchInFlight, InFlight, StopInFlight, Kept
<1>2. NothingStops' BY <1>1 DEF OrphanInv, NothingStops, SoftStep
<1>3. Unhit'
  <2> SUFFICES ASSUME lastCmd # "undeploy", ~hit', NEW d \in Deploys,
                      launch[d] \in {"rmDone", "drop", "run", "created"}
               PROVE  /\ ~VerdictInFlight' /\ container' \in {"absent", "created"}
                      /\ launch[d] # "rmDone" => store'.tracked
    BY DEF Unhit, SoftStep
  <2>1. ~hit /\ LaunchInFlight
    BY DEF SoftVerdict, LaunchInFlight, InFlight
  <2>2. /\ ~VerdictInFlight /\ container \in {"absent", "created"}
        /\ launch[d] # "rmDone" => store.tracked
    BY <2>1 DEF OrphanInv, Unhit
  <2> QED BY <2>1, <2>2 DEF SoftVerdict
<1>4. VerdictTrue'
  BY <1>1 DEF OrphanInv, VerdictTrue, SoftStep, SoftVerdict
<1>5. RunningTracked'
  BY <1>1 DEF OrphanInv, VerdictTrue, RunningTracked, SoftStep, SoftVerdict
<1>6. DoneMeansDown'
  BY <1>1 DEF OrphanInv, DoneMeansDown, SoftStep
<1> QED BY <1>2, <1>3, <1>4, <1>5, <1>6 DEF OrphanInv

\* The steps of a launch.
LEMMA OrphanLaunch ==
  ASSUME ~Overlap, ~DockerFails, TypeOK, OneLaunch, CancelPending, OrphanInv,
         NEW d \in Deploys, LaunchStep(d)
  PROVE  OrphanInv'
<1>1. /\ UNCHANGED <<stop, lastCmd>> /\ InFlight(d)
      /\ \A e \in Deploys \ {d} : launch'[e] = launch[e]
  BY LaunchFrame
<1>2. \A e \in Deploys \ {d} : ~InFlight(e) /\ launch'[e] \in {"idle", "over"}
  BY <1>1 DEF OneLaunch, InFlight
<1>3. StopInFlight' = StopInFlight /\ LaunchInFlight
  BY <1>1 DEF StopInFlight, LaunchInFlight
<1>4. lastCmd = "undeploy" =>
        \/ LaunchReaped(d)
        \/ launch'[d] \notin {"idle", "over"}
  BY <1>1 DEF CancelPending, LaunchStep, LaunchRefused, LaunchClear, LaunchRm,
     LaunchPersist, LaunchSpawn, DockerCreate, DockerStart, LaunchExit,
     LaunchReap, LaunchReaped, LaunchExitAction, TypeOK
<1>5. LaunchInFlight' <=> launch'[d] \notin {"idle", "over"}
  BY <1>2 DEF LaunchInFlight, InFlight
<1>6. UNCHANGED tick
  BY DEF LaunchStep, LaunchRefused, LaunchClear, LaunchRm, LaunchPersist,
     LaunchSpawn, DockerCreate, DockerStart, LaunchExit, LaunchReap,
     LaunchReaped
<1>7. VerdictInFlight' = VerdictInFlight BY <1>6 DEF VerdictInFlight
<1>8. NothingStops'
  <2> SUFFICES ASSUME lastCmd # "undeploy"
               PROVE  ~cancel' /\ launch'[d] \notin {"reap", "reapDone"}
    BY <1>1, <1>2, <1>3 DEF OrphanInv, NothingStops
  <2>1. ~cancel /\ launch[d] \notin {"reap", "reapDone"}
    BY DEF OrphanInv, NothingStops
  <2>2. CASE LaunchExit(d)
    BY <2>1, <2>2 DEF LaunchExit, LaunchExitAction, TypeOK
  <2>3. CASE ~LaunchExit(d)
    <3>1. cancel' = cancel
      BY <2>1, <2>3 DEF LaunchStep, LaunchRefused, LaunchClear, LaunchRm,
         LaunchPersist, LaunchSpawn, DockerCreate, DockerStart, LaunchExit,
         LaunchReap, LaunchReaped
    <3>2. launch'[d] \notin {"reap", "reapDone"}
      BY <2>1, <2>3 DEF LaunchStep, LaunchRefused, LaunchClear, LaunchRm,
         LaunchPersist, LaunchSpawn, DockerCreate, DockerStart, LaunchExit,
         LaunchReap, LaunchReaped, TypeOK
    <3> QED BY <2>1, <3>1, <3>2
  <2> QED BY <2>2, <2>3
<1>9. DoneMeansDown'
  <2>1. LaunchReaped(d) => launch[d] = "reapDone" /\ container' = container
    BY DEF LaunchReaped
  <2>2. launch'[d] = "reapDone" => container' # "running"
    BY DEF LaunchStep, LaunchRefused, LaunchClear, LaunchRm, LaunchPersist,
       LaunchSpawn, DockerCreate, DockerStart, LaunchExit, LaunchReap,
       LaunchReaped, Docker, AfterDocker, TypeOK
  <2>3. ~LaunchInFlight' /\ lastCmd = "undeploy" => container' # "running"
    BY <1>4, <1>5, <2>1 DEF OrphanInv, DoneMeansDown
  <2>4. lastCmd # "undeploy" => \A u \in Undeploys : stop[u] # "dockerDone"
    BY DEF OrphanInv, NothingStops, StopInFlight
  <2> QED BY <1>1, <1>2, <2>2, <2>3, <2>4 DEF DoneMeansDown
<1>10. CASE lastCmd = "undeploy"
  <2>1. Kept' => LaunchReaped(d) BY <1>1, <1>4, <1>5, <1>10 DEF Kept
  <2>2. Kept' => container' # "running"
    BY <2>1 DEF LaunchReaped, OrphanInv, DoneMeansDown
  <2> QED BY <1>1, <1>8, <1>9, <1>10, <2>2
          DEF OrphanInv, Unhit, VerdictTrue, RunningTracked
<1>11. CASE lastCmd # "undeploy"
  <2>1. Kept /\ Kept' BY <1>1, <1>11 DEF Kept
  <2>2. ~cancel /\ launch[d] \notin {"reap", "reapDone"}
    BY <1>11 DEF OrphanInv, NothingStops
  <2>3. CASE LaunchRm(d)
    <3>1. container' = "absent" /\ hit' = VerdictInFlight /\ launch'[d] = "rmDone"
      BY <2>3 DEF LaunchRm, Docker, TypeOK
    <3> QED BY <1>1, <1>2, <1>7, <1>8, <1>9, <3>1
            DEF OrphanInv, Unhit, VerdictTrue, RunningTracked
  <2>4. CASE LaunchPersist(d)
    <3>1. /\ launch[d] = "rmDone" /\ launch'[d] = "drop" /\ store'.tracked
          /\ UNCHANGED <<container, hit>>
      BY <2>4 DEF LaunchPersist, LaunchedEntry, TypeOK
    <3> QED BY <1>1, <1>2, <1>7, <1>8, <1>9, <2>1, <3>1
            DEF OrphanInv, Unhit, VerdictTrue, RunningTracked
  <2>5. CASE LaunchSpawn(d)
    <3>1. /\ launch[d] = "drop" /\ launch'[d] = "run"
          /\ UNCHANGED <<store, container, hit>>
      BY <2>5 DEF LaunchSpawn, TypeOK
    <3> QED BY <1>1, <1>2, <1>7, <1>8, <1>9, <2>1, <3>1
            DEF OrphanInv, Unhit, VerdictTrue, RunningTracked
  <2>6. CASE DockerCreate(d)
    <3>1. /\ launch[d] = "run" /\ launch'[d] \in {"created", "exit1"}
          /\ container' \in {container, "created"}
          /\ UNCHANGED <<store, hit>>
      BY <2>6 DEF DockerCreate, TypeOK
    <3> QED BY <1>1, <1>2, <1>7, <1>8, <1>9, <2>1, <3>1
            DEF OrphanInv, Unhit, VerdictTrue, RunningTracked
  <2>7. CASE DockerStart(d)
    <3>1. /\ launch[d] = "created" /\ launch'[d] \in {"exit0", "exit1"}
          /\ UNCHANGED <<store, hit>>
      BY <2>7 DEF DockerStart, TypeOK
    <3>2. ~hit => ~VerdictInFlight /\ store.tracked
      BY <1>11, <3>1 DEF OrphanInv, Unhit
    <3> QED BY <1>1, <1>2, <1>7, <1>8, <1>9, <3>1, <3>2
            DEF OrphanInv, Unhit, VerdictTrue, RunningTracked
  <2>8. CASE LaunchRefused(d) \/ LaunchClear(d) \/ LaunchExit(d)
    <3>1. /\ launch'[d] \in {"rm", "exit1", "over"}
          /\ store'.tracked = store.tracked /\ UNCHANGED <<container, hit>>
      BY <2>2, <2>8 DEF LaunchRefused, LaunchClear, LaunchExit,
         LaunchExitAction, ClearStarting, TypeOK, Entries
    <3> QED BY <1>1, <1>2, <1>7, <1>8, <1>9, <2>1, <3>1
            DEF OrphanInv, Unhit, VerdictTrue, RunningTracked
  <2> QED BY <2>2, <2>3, <2>4, <2>5, <2>6, <2>7, <2>8
          DEF LaunchStep, LaunchReap, LaunchReaped
<1> QED BY <1>10, <1>11

\* Every step keeps the invariant.
LEMMA OrphanStep ==
  ASSUME ~Overlap, ~DockerFails, TypeOK, OneLaunch, CancelPending, OrphanInv,
         [Next]_vars
  PROVE  OrphanInv'
<1>1. ASSUME NEW d \in Deploys, Deploy(d) PROVE OrphanInv'
  <2>1. /\ ~LaunchInFlight /\ ~StopInFlight /\ ~cancel' /\ lastCmd' = "deploy"
        /\ hit' = (hit \/ VerdictInFlight)
        /\ UNCHANGED <<stop, tick, container, store>>
    BY <1>1 DEF Deploy
  <2>2. launch'[d] = "image" /\ \A e \in Deploys \ {d} : launch'[e] = launch[e]
    BY <1>1 DEF Deploy, TypeOK
  <2>3. \A e \in Deploys : launch'[e] \in {"idle", "over", "image"}
    BY <2>1, <2>2 DEF LaunchInFlight, InFlight
  <2>4. VerdictInFlight' = VerdictInFlight BY <2>1 DEF VerdictInFlight
  <2>5. ~StopInFlight' BY <2>1 DEF StopInFlight
  <2>6. NothingStops' BY <2>1, <2>3, <2>5 DEF NothingStops
  <2>7. Unhit' BY <2>3 DEF Unhit
  <2>8. Kept /\ (hit => hit') /\ (~hit' => ~VerdictInFlight)
    BY <2>1 DEF Kept
  <2>9. VerdictTrue' BY <2>4, <2>8 DEF VerdictTrue
  <2>10. RunningTracked' BY <2>1, <2>8 DEF OrphanInv, RunningTracked
  <2>11. DoneMeansDown' BY <2>1, <2>3 DEF StopInFlight, DoneMeansDown
  <2> QED BY <2>6, <2>7, <2>9, <2>10, <2>11 DEF OrphanInv
<1>2. ASSUME NEW d \in Deploys, LaunchStep(d) PROVE OrphanInv'
  BY <1>2, OrphanLaunch
<1>3. ASSUME NEW u \in Undeploys, NEW keep \in BOOLEAN, Undeploy(u, keep)
      PROVE OrphanInv'
  <2>1. /\ lastCmd' = "undeploy" /\ UNCHANGED <<container, launch, tick, hit>>
        /\ store'.tracked = store.tracked
        /\ \A w \in Undeploys : stop'[w] = "dockerDone" => stop[w] = "dockerDone"
    BY <1>3 DEF Undeploy, TypeOK, Entries
  <2>2. LaunchInFlight' = LaunchInFlight /\ VerdictInFlight' = VerdictInFlight
    BY <2>1 DEF LaunchInFlight, InFlight, VerdictInFlight
  <2>3. Kept' => Kept BY <2>1, <2>2 DEF Kept
  <2> QED BY <2>1, <2>2, <2>3 DEF OrphanInv, NothingStops, Unhit, VerdictTrue,
             RunningTracked, DoneMeansDown
<1>4. ASSUME NEW u \in Undeploys, StopStep(u) PROVE OrphanInv'
  <2>1. /\ UNCHANGED <<launch, tick, lastCmd>> /\ stop[u] \in {"docker", "dockerDone"}
    BY <1>4 DEF StopStep, StopDocker, StopDone
  <2>2. lastCmd = "undeploy" /\ lastCmd' = "undeploy"
    BY <2>1 DEF OrphanInv, NothingStops, StopInFlight
  <2>3. /\ LaunchInFlight' = LaunchInFlight /\ VerdictInFlight' = VerdictInFlight
        /\ Kept' = Kept
    BY <2>1 DEF LaunchInFlight, InFlight, VerdictInFlight, Kept
  <2>4. CASE StopDocker(u)
    <3>1. container' # "running" BY <2>4 DEF StopDocker, Docker, AfterDocker
    <3> QED BY <2>2, <3>1 DEF OrphanInv, NothingStops, Unhit, VerdictTrue,
               RunningTracked, DoneMeansDown
  <2>5. CASE StopDone(u)
    <3>1. /\ stop[u] = "dockerDone" /\ UNCHANGED <<container, hit>>
          /\ \A w \in Undeploys : stop'[w] = "dockerDone" => stop[w] = "dockerDone"
      BY <2>5 DEF StopDone, TypeOK
    <3>2. Kept => container # "running"
      BY <2>2, <3>1 DEF OrphanInv, DoneMeansDown, Kept
    <3> QED BY <2>1, <2>2, <2>3, <3>1, <3>2 DEF OrphanInv, NothingStops, Unhit,
               VerdictTrue, RunningTracked, DoneMeansDown
  <2> QED BY <1>4, <2>4, <2>5 DEF StopStep
<1>5. CASE AgentCrash
  <2>1. /\ hit' = (hit \/ LaunchInFlight) /\ lastCmd' = "none" /\ ~cancel'
        /\ store' = store /\ tick'["health"] = "idle"
        /\ \A d \in Deploys : launch'[d] \in {"idle", "over"}
        /\ \A u \in Undeploys : stop'[u] \in {"idle", "over"}
    BY <1>5 DEF AgentCrash, InFlight, TypeOK, Timers
  <2>2. ~LaunchInFlight => container' = container
    BY <1>5 DEF AgentCrash, LaunchInFlight, InFlight
  <2>3. ~VerdictInFlight' BY <2>1 DEF VerdictInFlight
  <2>4. ~StopInFlight' BY <2>1 DEF StopInFlight
  <2>5. ~hit' => ~hit /\ ~LaunchInFlight BY <2>1
  <2>6. RunningTracked'
    BY <2>1, <2>2, <2>5 DEF OrphanInv, RunningTracked, Kept
  <2> QED BY <2>1, <2>3, <2>4, <2>6 DEF OrphanInv, NothingStops, Unhit,
             VerdictTrue, DoneMeansDown
<1>6. CASE SoftStep /\ SoftVerdict BY <1>6, OrphanSoft
<1> QED BY <1>1, <1>2, <1>3, <1>4, <1>5, <1>6, OrphanKinds

\* Once everything has settled a live container is in the store, except after a
\* failure verdict or an agent restart that overlapped the launch: no reconnect,
\* stop or health tick in any order loses one.
THEOREM NoOrphanCorrect ==
  ASSUME ~Overlap, ~DockerFails PROVE Spec => []NoOrphan
<1> DEFINE Inv == OneLaunch /\ CancelPending /\ OrphanInv
<1>1. Init => Inv
  BY DEF Init, OneLaunch, CancelPending, InFlight, LaunchInFlight, StopInFlight,
         OrphanInv, NothingStops, Unhit, VerdictTrue, RunningTracked,
         DoneMeansDown
<1>2. TypeOK /\ Inv /\ [Next]_vars => Inv'
  BY OneLaunchStep, CancelPendingStep, OrphanStep
<1>3. Inv => NoOrphan
  BY DEF OrphanInv, RunningTracked, Kept, NoOrphan, Quiescent
<1> QED BY <1>1, <1>2, <1>3, TypeCorrect, PTL DEF Spec

(***************************************************************************)
(* Refinement: the agent, await by await, implements RankPromise.          *)
(***************************************************************************)
Busy == LaunchInFlight \/ StopInFlight

\* Every step of the agent is a step of the promise or leaves it as it is.
LEMMA PromiseStep ==
  ASSUME ~Overlap, ~DockerFails, TypeOK, CancelPending, Doomed, Doomed',
         [Next]_vars
  PROVE  [Promise!Next]_<<container = "running", lastCmd, Busy>>
<1> USE DEF Busy, Promise!Next, Promise!Command, Promise!Work,
        Promise!Settle, Promise!Lost, Promise!Restarted
<1>1. ASSUME NEW d \in Deploys, Deploy(d)
      PROVE  Promise!Command("deploy")
  BY <1>1 DEF Deploy, LaunchInFlight, InFlight, TypeOK
<1>2. ASSUME NEW d \in Deploys, LaunchStep(d)
      PROVE  Promise!Work \/ Promise!Settle
  <2>1. lastCmd' = lastCmd /\ Busy
    BY <1>2, LaunchFrame DEF LaunchInFlight
  <2>2. CASE Busy' BY <2>1, <2>2
  <2>3. CASE ~Busy'
    <3>1. launch'[d] = "over"
      BY <2>3, <1>2 DEF LaunchInFlight, InFlight, LaunchStep, LaunchRefused,
         LaunchClear, LaunchRm, LaunchPersist, LaunchSpawn, DockerCreate,
         DockerStart, LaunchExit, LaunchReap, LaunchReaped, TypeOK
    <3>2. container' = container
      BY <3>1, <1>2 DEF LaunchStep, LaunchRefused, LaunchClear, LaunchRm,
         LaunchPersist, LaunchSpawn, DockerCreate, DockerStart, LaunchExit,
         LaunchReap, LaunchReaped, TypeOK
    <3>3. lastCmd = "undeploy" => container # "running"
      BY <2>1, <2>3, <3>2 DEF Doomed, LaunchInFlight, InFlight, StopInFlight
    <3> QED BY <2>1, <2>3, <3>2, <3>3
  <2> QED BY <2>2, <2>3
<1>3. ASSUME NEW u \in Undeploys, NEW keep \in BOOLEAN, Undeploy(u, keep)
      PROVE  Promise!Command("undeploy")
  BY <1>3 DEF Undeploy, StopInFlight, TypeOK
<1>4. ASSUME NEW u \in Undeploys, StopStep(u)
      PROVE  Promise!Work \/ Promise!Settle
  <2>1. lastCmd' = lastCmd /\ Busy
    BY <1>4 DEF StopStep, StopDocker, StopDone, StopInFlight
  <2>2. CASE StopDocker(u)
    <3>1. StopInFlight' BY <2>2 DEF StopDocker, StopInFlight, TypeOK
    <3> QED BY <2>1, <3>1
  <2>3. CASE StopDone(u)
    <3>1. container' = container BY <2>3 DEF StopDone
    <3>2. CASE Busy' BY <2>1, <3>1, <3>2
    <3>3. CASE ~Busy'
      <4>1. lastCmd = "undeploy" => container # "running"
        BY <2>1, <3>1, <3>3 DEF Doomed, LaunchInFlight, InFlight,
           StopInFlight
      <4> QED BY <2>1, <3>1, <3>3, <4>1
    <3> QED BY <3>2, <3>3
  <2> QED BY <1>4, <2>2, <2>3 DEF StopStep
<1>5. CASE AgentCrash
  <2>1. ~Busy' /\ lastCmd' = "none"
    BY <1>5 DEF AgentCrash, LaunchInFlight, InFlight, StopInFlight
  <2>2. Busy \/ container' = container
    BY <1>5 DEF AgentCrash, LaunchInFlight, InFlight
  <2> QED BY <2>1, <2>2
<1>6. CASE SoftStep
  <2>1. Busy' = Busy /\ lastCmd' = lastCmd
    BY <1>6 DEF SoftStep, LaunchInFlight, InFlight, StopInFlight
  <2>2. container' = "running" => container = "running"
    BY <1>6 DEF SoftStep
  <2> QED BY <2>1, <2>2
<1> QED BY <1>1, <1>2, <1>3, <1>4, <1>5, <1>6, StepKinds

\* The agent keeps the promise: a rank that has settled after a stop is down,
\* and stays down until the next command.
THEOREM PromiseKeptCorrect ==
  ASSUME ~Overlap, ~DockerFails PROVE Spec => PromiseKept
<1> DEFINE Inv == OneLaunch /\ CancelPending /\ Doomed
<1>1. Init => Inv /\ Promise!Init
  BY DEF Init, OneLaunch, CancelPending, Doomed, InFlight, LaunchInFlight,
         StopInFlight, Promise!Init
<1>2. TypeOK /\ Inv /\ [Next]_vars => Inv'
  BY OneLaunchStep, CancelPendingStep, DoomedStep
<1>3. TypeOK /\ Inv /\ Inv' /\ [Next]_vars
        => [Promise!Next]_<<container = "running", lastCmd,
                            LaunchInFlight \/ StopInFlight>>
  BY PromiseStep DEF Busy
<1> QED BY <1>1, <1>2, <1>3, TypeCorrect, PTL
        DEF Spec, PromiseKept, Promise!Spec
=============================================================================
