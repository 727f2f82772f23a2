---------------------------- MODULE Nodes_proofs ----------------------------
(***************************************************************************)
(* Machine-checked proofs about Nodes, for any number of rows of the       *)
(* machine, of jobs under way, of requests and of faults.                  *)
(***************************************************************************)
EXTENDS Nodes, TLAPS

ProvStates == {"pending", "audited", "unreachable", "provisioning",
               "provisioned", "failed", "agent-deployed"}

PowerStates == {"on", "rebooting", "asleep", "off", "waking"}

NodeRow == [st : {"unborn", "live", "gone"}, prov : ProvStates,
            log : {"none", "text", "report"}, power : PowerStates,
            mac : BOOLEAN, ip : BOOLEAN]

JobRecord == [row : Rows \cup {NoRow}, kind : {"none", "audit", "prov"},
              at : {"idle", "audit", "write", "writeDown", "install", "ollama",
                    "fail"},
              todo : SUBSET Prereqs]

AgentRecord == [on : BOOLEAN, id : Rows \cup {NoRow}, link : Rows \cup {NoRow},
                due : BOOLEAN, old : BOOLEAN, bye : {"no", "told", "begun"}]

ScriptStates == {"off", "probe", "fetch", "touch", "own", "adopt", "ok", "err"}

OllamaRecord == [unit : {"none", "manager", "theirs"}, mark : BOOLEAN,
                 conf : SUBSET Lines, mnt : BOOLEAN]

\* Every variable has its shape.
TypeOK ==
  /\ row \in [Rows -> NodeRow]
  /\ token \in {"fresh", "used", "dead"}
  /\ joining \in {"none", "open", "lost"}
  /\ seen \in Rows \cup {NoRow} /\ closing \in Rows \cup {NoRow}
  /\ host \in {"up", "reboot", "off", "asleep"}
  /\ agent \in AgentRecord
  /\ cmd \in Actions \cup {"none"} /\ doom \in Actions \cup {"none"}
  /\ ack \in {"none", "ok", "err"}
  /\ job \in [Jobs -> JobRecord]
  /\ bye \in [Rows -> {"off", "wait", "delete"}]
  /\ oll \in OllamaRecord
  /\ script \in [Scripts -> ScriptStates]
  /\ excused \subseteq Rows /\ stuck \subseteq Rows
  /\ mixed \in BOOLEAN
  /\ requests \in Nat /\ faults \in Nat

USE DEF dbVars, hubVars, hostVars, wireVars, ollVars, histVars, bounds,
        ProvStates, PowerStates

-----------------------------------------------------------------------------
\* A row as it is created, whoever creates it.
LEMMA NewRowType ==
  ASSUME NEW p \in {"pending", "agent-deployed"}, NEW ip \in BOOLEAN
  PROVE  [Unborn EXCEPT !.st = "live", !.prov = p, !.ip = ip] \in NodeRow
BY DEF Unborn, NodeRow

\* A job as it is begun, and the record it leaves.
LEMMA JobType ==
  /\ Idle \in JobRecord
  /\ \A r \in Rows, t \in SUBSET Prereqs :
       [Idle EXCEPT !.row = r, !.kind = "prov", !.at = "install", !.todo = t]
         \in JobRecord
  /\ \A r \in Rows :
       [Idle EXCEPT !.row = r, !.kind = "audit", !.at = "audit"] \in JobRecord
BY DEF Idle, JobRecord

\* A row with one column written.
LEMMA ColumnType ==
  ASSUME NEW f \in [Rows -> NodeRow], NEW r \in Rows
  PROVE  /\ \A x \in ProvStates : [f EXCEPT ![r].prov = x] \in [Rows -> NodeRow]
         /\ \A x \in PowerStates : [f EXCEPT ![r].power = x] \in [Rows -> NodeRow]
         /\ \A x \in {"none", "text", "report"} :
              [f EXCEPT ![r].log = x] \in [Rows -> NodeRow]
         /\ \A x \in BOOLEAN : [f EXCEPT ![r].mac = x] \in [Rows -> NodeRow]
         /\ \A x \in BOOLEAN : [f EXCEPT ![r].ip = x] \in [Rows -> NodeRow]
<1>1. f[r] \in NodeRow
  OBVIOUS
<1>2. \A x \in ProvStates : [f[r] EXCEPT !.prov = x] \in NodeRow
  BY <1>1 DEF NodeRow
<1>3. \A x \in PowerStates : [f[r] EXCEPT !.power = x] \in NodeRow
  BY <1>1 DEF NodeRow
<1>4. \A x \in {"none", "text", "report"} : [f[r] EXCEPT !.log = x] \in NodeRow
  BY <1>1 DEF NodeRow
<1>5. \A x \in BOOLEAN : /\ [f[r] EXCEPT !.mac = x] \in NodeRow
                        /\ [f[r] EXCEPT !.ip = x] \in NodeRow
  BY <1>1 DEF NodeRow
<1> QED BY <1>2, <1>3, <1>4, <1>5

\* A row with a new status and log.
LEMMA WrittenType ==
  ASSUME row \in [Rows -> NodeRow], NEW r \in Rows, NEW p \in ProvStates,
         NEW l \in {"text", "report"}
  PROVE  Written(r, p, l) \in [Rows -> NodeRow]
<1> DEFINE one == [row EXCEPT ![r].prov = p]
<1>1. one \in [Rows -> NodeRow]
  BY ColumnType
<1> HIDE DEF one
<1>2. [one EXCEPT ![r].log = l] \in [Rows -> NodeRow]
  BY <1>1, ColumnType
<1> QED BY <1>2 DEF Written, one

\* Every variable keeps its type.
THEOREM TypeCorrect == Spec => []TypeOK
<1>1. Init => TypeOK
  <2> SUFFICES ASSUME Init PROVE TypeOK
    OBVIOUS
  <2>1. Unborn \in NodeRow /\ NoAgent \in AgentRecord
    BY DEF Unborn, NodeRow, NoAgent, AgentRecord
  <2>2. oll \in OllamaRecord
    <3> USE NodesAssumption DEF NodesAssumption, OllamaRecord, Lines, Ours
    <3>1. CASE oll = [unit |-> "none", mark |-> FALSE, conf |-> {}, mnt |-> TRUE]
      BY <3>1
    <3>2. CASE oll = [unit |-> "manager", mark |-> FALSE,
                      conf |-> {"user", "models"}, mnt |-> TRUE]
      BY <3>2
    <3>3. CASE oll \in [unit : {"theirs"}, mark : {FALSE}, conf : Overrides,
                         mnt : {TRUE}]
      BY <3>3
    <3> QED BY <3>1, <3>2, <3>3 DEF Init, OllamaFound
  <2> QED BY <2>1, <2>2, JobType DEF Init, TypeOK, ScriptStates
<1>2. TypeOK /\ [Next]_vars => TypeOK'
  <2> SUFFICES ASSUME TypeOK, [Next]_vars PROVE TypeOK'
    OBVIOUS
  <2> USE DEF TypeOK
  <2>1. ASSUME NEW r \in Rows, PostNode(r) PROVE TypeOK'
    <3>1. row' \in [Rows -> NodeRow]
      <4>1. PICK ip \in BOOLEAN :
              row' = [row EXCEPT ![r] = [Unborn EXCEPT !.st = "live", !.ip = ip]]
        BY <2>1 DEF PostNode
      <4>2. [Unborn EXCEPT !.st = "live", !.ip = ip] \in NodeRow
        BY DEF Unborn, NodeRow
      <4> QED BY <4>1, <4>2
    <3>2. job' \in [Jobs -> JobRecord]
      BY <2>1, JobType DEF PostNode
    <3> QED BY <2>1, <3>1, <3>2 DEF PostNode
  <2>2. ASSUME NEW r \in Rows, ManualAgent(r) PROVE TypeOK'
    <3>1. agent' \in AgentRecord
      BY <2>2 DEF ManualAgent, AgentRecord, NoAgent
    <3> QED BY <2>2, <3>1 DEF ManualAgent
  <2>3. ASSUME NEW r \in Rows, Provision(r) PROVE TypeOK'
    <3>1. row' \in [Rows -> NodeRow]
      <4>1. row' = [row EXCEPT ![r].prov = "provisioning"]
        BY <2>3 DEF Provision
      <4> QED BY <4>1 DEF NodeRow
    <3>2. job' \in [Jobs -> JobRecord]
      <4>1. CASE UNCHANGED job
        BY <4>1
      <4>2. ASSUME NEW j \in Jobs, NEW yellow \in SUBSET Prereqs,
                   job' = [job EXCEPT ![j] =
                     [Idle EXCEPT !.row = r, !.kind = "prov", !.at = "install",
                                  !.todo = yellow]]
            PROVE job' \in [Jobs -> JobRecord]
        BY <4>2, JobType
      <4> QED BY <2>3, <4>1, <4>2 DEF Provision, Yellow
    <3>3. stuck' \subseteq Rows
      BY <2>3 DEF Provision
    <3>4. /\ UNCHANGED <<token, joining, seen, closing, bye, host, agent, doom,
                         cmd, ack, oll, script, mixed, excused, faults>>
          /\ requests' = requests + 1
      BY <2>3 DEF Provision, Requested
    <3> QED BY <3>1, <3>2, <3>3, <3>4
  <2>4. ASSUME NEW r \in Rows, JoinNode(r) PROVE TypeOK'
    <3>1. row' \in [Rows -> NodeRow]
      <4>1. PICK ip \in BOOLEAN :
              row' = [row EXCEPT ![r] = [Unborn EXCEPT
                        !.st = "live", !.prov = "agent-deployed", !.ip = ip]]
        BY <2>4 DEF JoinNode, ResolveNodeIp
      <4> QED BY <4>1, NewRowType
    <3>2. agent' \in AgentRecord
      BY <2>4 DEF JoinNode, AgentRecord
    <3> QED BY <2>4, <3>1, <3>2 DEF JoinNode
  <2>5. ASSUME NEW r \in Rows, Wake(r) PROVE TypeOK'
    <3>1. row' \in [Rows -> NodeRow]
      BY <2>5 DEF Wake, NodeRow
    <3> QED BY <2>5, <3>1 DEF Wake, Requested
  <2>6. ASSUME NEW r \in Rows, DeleteNode(r) PROVE TypeOK'
    <3>1. agent' \in AgentRecord
      BY <2>6 DEF DeleteNode, AgentRecord
    <3> QED BY <2>6, <3>1 DEF DeleteNode, Requested
  <2>7. ASSUME NEW r \in Rows, DeleteWait(r) PROVE TypeOK'
    BY <2>7 DEF DeleteWait
  <2>8. ASSUME NEW r \in Rows, DeleteNodeRecords(r) PROVE TypeOK'
    <3>1. row' \in [Rows -> NodeRow]
      BY <2>8 DEF DeleteNodeRecords, NodeRow, Unborn
    <3> QED BY <2>8, <3>1 DEF DeleteNodeRecords
  <2>9. ASSUME NEW r \in Rows, NEW a \in Actions, PowerWs(r, a) PROVE TypeOK'
    <3>1. row' \in [Rows -> NodeRow]
      BY <2>9 DEF PowerWs, NodeRow, Actions, PowerState
    <3> QED BY <2>9, <3>1 DEF PowerWs, Requested
  <2>10. ASSUME NEW r \in Rows, NEW a \in Actions, PowerSsh(r, a) PROVE TypeOK'
    <3>1. CASE \E mac \in MacAfter(r, a) :
                 row' = [row EXCEPT ![r].power = PowerState(a), ![r].mac = mac]
      <4>1. PICK mac \in MacAfter(r, a) :
              row' = [row EXCEPT ![r].power = PowerState(a), ![r].mac = mac]
        BY <3>1
      <4>2. mac \in BOOLEAN
        BY DEF MacAfter, NodeRow
      <4>3. PowerState(a) \in {"rebooting", "asleep", "off"}
        BY DEF Actions, PowerState
      <4> DEFINE one == [row EXCEPT ![r].power = PowerState(a)]
      <4>4. one \in [Rows -> NodeRow]
        BY <4>3, ColumnType
      <4>5. row' = [one EXCEPT ![r].mac = mac]
        BY <4>1
      <4> HIDE DEF one
      <4>6. row' \in [Rows -> NodeRow]
        BY <4>2, <4>4, <4>5, ColumnType
      <4> QED BY <2>10, <4>6 DEF PowerSsh, Requested
    <3>2. CASE UNCHANGED <<row, excused>>
      BY <2>10, <3>2 DEF PowerSsh, Requested
    <3> QED BY <2>10, <3>1, <3>2 DEF PowerSsh
  <2>11. ASSUME NEW j \in Jobs, AuditNode(j) PROVE TypeOK'
    <3>1. row' \in [Rows -> NodeRow]
      <4>1. \/ row' = row
            \/ /\ job[j].row \in Rows
               /\ row' = [row EXCEPT ![job[j].row].mac = TRUE]
        BY <2>11 DEF AuditNode, Live
      <4>2. ASSUME job[j].row \in Rows
            PROVE [row EXCEPT ![job[j].row].mac = TRUE] \in [Rows -> NodeRow]
        BY <4>2, ColumnType
      <4> QED BY <4>1, <4>2
    <3>2. job' \in [Jobs -> JobRecord]
      BY <2>11 DEF AuditNode, JobRecord
    <3> QED BY <2>11, <3>1, <3>2 DEF AuditNode
  <2>12. ASSUME NEW j \in Jobs, AuditWrite(j) PROVE TypeOK'
    <3>1. row' \in [Rows -> NodeRow]
      BY <2>12, WrittenType DEF AuditWrite, Live
    <3>2. job' \in [Jobs -> JobRecord]
      BY <2>12, JobType DEF AuditWrite
    <3> QED BY <2>12, <3>1, <3>2 DEF AuditWrite
  <2>13. ASSUME NEW j \in Jobs, InstallItem(j) PROVE TypeOK'
    <3>1. job' \in [Jobs -> JobRecord]
      BY <2>13 DEF InstallItem, JobRecord, SshRejects, Prereqs
    <3>2. script' \in [Scripts -> ScriptStates]
      BY <2>13 DEF InstallItem, ScriptStates, Scripts
    <3> QED BY <2>13, <3>1, <3>2 DEF InstallItem
  <2>14. ASSUME NEW j \in Jobs, OllamaDone(j) PROVE TypeOK'
    <3>1. job' \in [Jobs -> JobRecord]
      BY <2>14 DEF OllamaDone, JobRecord, SshRejects
    <3>2. script' \in [Scripts -> ScriptStates]
      BY <2>14 DEF OllamaDone, ScriptStates, Scripts
    <3> QED BY <2>14, <3>1, <3>2 DEF OllamaDone
  <2>15. ASSUME NEW j \in Jobs, ProvisionWrite(j) PROVE TypeOK'
    <3>1. row' \in [Rows -> NodeRow]
      BY <2>15, WrittenType DEF ProvisionWrite, Live
    <3>2. job' \in [Jobs -> JobRecord]
      BY <2>15 DEF ProvisionWrite, JobRecord, Idle
    <3> QED BY <2>15, <3>1, <3>2 DEF ProvisionWrite
  <2>16. ASSUME NEW j \in Jobs, ProvisionFails(j) PROVE TypeOK'
    <3>1. row' \in [Rows -> NodeRow]
      BY <2>16, WrittenType DEF ProvisionFails, Live, CatchWrites
    <3>2. job' \in [Jobs -> JobRecord]
      BY <2>16 DEF ProvisionFails, JobRecord, ManagerEnds, Idle
    <3>3. agent' \in AgentRecord
      BY <2>16 DEF ProvisionFails, AgentRecord, ManagerEnds, Unlinked
    <3>4. script' \in [Scripts -> ScriptStates]
      BY <2>16 DEF ProvisionFails, ScriptStates, ManagerEnds, Scripts
    <3> QED BY <2>16, <3>1, <3>2, <3>3, <3>4 DEF ProvisionFails, ManagerEnds
  <2>17. ASSUME NEW s \in Scripts, Probe(s) PROVE TypeOK'
    <3>1. oll' \in OllamaRecord
      BY <2>17 DEF Probe, ProbeMark, Claimed, OllamaRecord
    <3>2. script' \in [Scripts -> ScriptStates]
      BY <2>17 DEF Probe, ScriptStates, Rendered
    <3> QED BY <2>17, <3>1, <3>2 DEF Probe
  <2>18. ASSUME NEW s \in Scripts, Fetch(s) PROVE TypeOK'
    <3>1. oll' \in OllamaRecord
      BY <2>18 DEF Fetch, OllamaRecord
    <3>2. script' \in [Scripts -> ScriptStates]
      BY <2>18 DEF Fetch, ScriptStates, Ends
    <3> QED BY <2>18, <3>1, <3>2 DEF Fetch
  <2>19. ASSUME NEW s \in Scripts, Touch(s) PROVE TypeOK'
    <3>1. oll' \in OllamaRecord
      BY <2>19 DEF Touch, OllamaRecord
    <3>2. script' \in [Scripts -> ScriptStates]
      BY <2>19 DEF Touch, ScriptStates, Rendered, Ends
    <3> QED BY <2>19, <3>1, <3>2 DEF Touch
  <2>20. ASSUME NEW s \in Scripts, WriteDropIn(s) PROVE TypeOK'
    <3>1. oll' \in OllamaRecord
      BY <2>20 DEF WriteDropIn, DropInBody, OllamaRecord, Lines, Ours
    <3>2. script' \in [Scripts -> ScriptStates]
      BY <2>20 DEF WriteDropIn, ScriptStates, Ends
    <3> QED BY <2>20, <3>1, <3>2 DEF WriteDropIn
  <2>21. ASSUME InstallSh PROVE TypeOK'
    <3>1. script' \in [Scripts -> ScriptStates]
      BY <2>21 DEF InstallSh, ScriptStates, Scripts
    <3> QED BY <2>21, <3>1 DEF InstallSh, Requested
  <2>22. ASSUME InstallAgent PROVE TypeOK'
    <3>1. agent' \in AgentRecord
      BY <2>22 DEF InstallAgent, AgentRecord
    <3>2. script' \in [Scripts -> ScriptStates]
      BY <2>22 DEF InstallAgent, ScriptStates, Scripts
    <3> QED BY <2>22, <3>1, <3>2 DEF InstallAgent
  <2>22a. ASSUME StorageChanges PROVE TypeOK'
    <3>1. oll' \in OllamaRecord
      <4>1. (~oll.mnt) \in BOOLEAN OBVIOUS
      <4> QED BY <2>22a, <4>1 DEF StorageChanges, OllamaRecord
    <3> QED BY <2>22a, <3>1 DEF StorageChanges
  <2>23. ASSUME CreateToken PROVE TypeOK'
    BY <2>23 DEF CreateToken, Requested
  <2>24. ASSUME TokenDies PROVE TypeOK'
    BY <2>24 DEF TokenDies
  <2>25. ASSUME ValidateToken PROVE TypeOK'
    BY <2>25 DEF ValidateToken
  <2>26. ASSUME Register PROVE TypeOK'
    <3>1. row' \in [Rows -> NodeRow]
      BY <2>26 DEF Register, NodeRow, Live, Registered, ResolveNodeIp
    <3>2. agent' \in AgentRecord
      BY <2>26 DEF Register, AgentRecord
    <3>3. seen' \in Rows \cup {NoRow}
      BY <2>26 DEF Register, AgentRecord
    <3> QED BY <2>26, <3>1, <3>2, <3>3 DEF Register
  <2>27. ASSUME SelfAudit PROVE TypeOK'
    <3>1. row' \in [Rows -> NodeRow]
      BY <2>27, WrittenType DEF SelfAudit, Live
    <3>2. agent' \in AgentRecord
      BY <2>27 DEF SelfAudit, AgentRecord
    <3> QED BY <2>27, <3>1, <3>2 DEF SelfAudit
  <2>28. ASSUME Drop PROVE TypeOK'
    <3>1. agent' \in AgentRecord
      BY <2>28 DEF Drop, AgentRecord, Unlinked
    <3>2. closing' \in Rows \cup {NoRow}
      BY <2>28 DEF Drop, AgentRecord, LinkLost
    <3> QED BY <2>28, <3>1, <3>2 DEF Drop, LinkLost
  <2>29. ASSUME HubClose PROVE TypeOK'
    BY <2>29 DEF HubClose
  <2>30. ASSUME Metrics PROVE TypeOK'
    <3>1. seen' \in Rows \cup {NoRow}
      BY <2>30 DEF Metrics, AgentRecord
    <3> QED BY <2>30, <3>1 DEF Metrics
  <2>31. ASSUME ManagerRestart PROVE TypeOK'
    <3>1. job' \in [Jobs -> JobRecord]
      BY <2>31 DEF ManagerRestart, JobRecord, ManagerEnds, Idle
    <3>2. agent' \in AgentRecord
      BY <2>31 DEF ManagerRestart, AgentRecord, ManagerEnds, Unlinked
    <3>3. script' \in [Scripts -> ScriptStates]
      BY <2>31 DEF ManagerRestart, ScriptStates, ManagerEnds, Scripts
    <3> QED BY <2>31, <3>1, <3>2, <3>3 DEF ManagerRestart, ManagerEnds
  <2>32. ASSUME CmdPower PROVE TypeOK'
    BY <2>32 DEF CmdPower
  <2>33. ASSUME PowerAck PROVE TypeOK'
    <3>1. row' \in [Rows -> NodeRow]
      <4>1. \/ row' = row
            \/ /\ agent.id \in Rows
               /\ \/ row' = [row EXCEPT ![agent.id].mac = TRUE]
                  \/ row' = [row EXCEPT ![agent.id].power = "on"]
        BY <2>33 DEF PowerAck, Live, UndoPower
      <4>2. ASSUME agent.id \in Rows
            PROVE /\ [row EXCEPT ![agent.id].mac = TRUE] \in [Rows -> NodeRow]
                  /\ [row EXCEPT ![agent.id].power = "on"] \in [Rows -> NodeRow]
        BY <4>2, ColumnType
      <4> QED BY <4>1, <4>2
    <3> QED BY <2>33, <3>1 DEF PowerAck
  <2>33a. ASSUME PowerFails PROVE TypeOK'
    BY <2>33a DEF PowerFails
  <2>34. ASSUME PowerDown PROVE TypeOK'
    <3>1. agent' \in AgentRecord
      BY <2>34 DEF PowerDown, AgentRecord, Unlinked
    <3>2. script' \in [Scripts -> ScriptStates]
      BY <2>34 DEF PowerDown, ScriptStates, Ends
    <3>3. closing' \in Rows \cup {NoRow}
      BY <2>34 DEF PowerDown, AgentRecord, LinkLost
    <3> QED BY <2>34, <3>1, <3>2, <3>3 DEF PowerDown, LinkLost, Actions
  <2>35. ASSUME PowerUp PROVE TypeOK'
    BY <2>35 DEF PowerUp
  <2>36. ASSUME CmdDeprovision PROVE TypeOK'
    <3>1. agent' \in AgentRecord
      BY <2>36 DEF CmdDeprovision, AgentRecord, Unlinked
    <3>2. closing' \in Rows \cup {NoRow}
      BY <2>36 DEF CmdDeprovision, AgentRecord, LinkLost
    <3> QED BY <2>36, <3>1, <3>2 DEF CmdDeprovision, LinkLost
  <2>37. ASSUME AgentLeaves PROVE TypeOK'
    <3>1. agent' \in AgentRecord
      BY <2>37 DEF AgentLeaves, AgentRecord, NoAgent
    <3>2. closing' \in Rows \cup {NoRow}
      BY <2>37 DEF AgentLeaves, AgentRecord, LinkLost
    <3> QED BY <2>37, <3>1, <3>2 DEF AgentLeaves, LinkLost
  <2>38. ASSUME UNCHANGED vars PROVE TypeOK'
    BY <2>38 DEF vars
  <2> QED
    BY <2>1, <2>2, <2>3, <2>4, <2>5, <2>6, <2>7, <2>8, <2>9, <2>10, <2>11,
       <2>12, <2>13, <2>14, <2>15, <2>16, <2>17, <2>18, <2>19, <2>20, <2>21,
       <2>22, <2>22a, <2>23, <2>24, <2>25, <2>26, <2>27, <2>28, <2>29, <2>30, <2>31,
       <2>32, <2>33, <2>33a, <2>34, <2>35, <2>36, <2>37, <2>38 DEF Next
<1> QED BY <1>1, <1>2, PTL DEF Spec

-----------------------------------------------------------------------------
\* A step that leaves every job its row and kind, and every row its status.
LEMMA JobsGoOn ==
  ASSUME ProvisioningIsLive,
         \A j \in Jobs : job'[j].row = job[j].row /\ job'[j].kind = job[j].kind,
         \A r \in Rows : row'[r].st = row[r].st /\ row'[r].prov = row[r].prov,
         UNCHANGED stuck
  PROVE  ProvisioningIsLive'
BY DEF ProvisioningIsLive, Live

\* A row says "provisioning" only while a job of it is still going to write, but
\* for the rows in stuck: the routes/nodes.ts status is never left behind.
THEOREM ProvisioningIsLiveCorrect == Spec => []ProvisioningIsLive
<1>1. Init => ProvisioningIsLive
  BY NodesAssumption DEF Init, ProvisioningIsLive, Live, Unborn, NoAgent,
     NodesAssumption
<1>2. TypeOK /\ ProvisioningIsLive /\ [Next]_vars => ProvisioningIsLive'
  <2> SUFFICES ASSUME TypeOK, ProvisioningIsLive, [Next]_vars
               PROVE  ProvisioningIsLive'
    OBVIOUS
  <2>1. ASSUME NEW r \in Rows, PostNode(r) PROVE ProvisioningIsLive'
    BY <2>1 DEF PostNode, Unborn, Idle, ProvisioningIsLive, Live, TypeOK,
       NodeRow, JobRecord
  <2>2. ASSUME NEW r \in Rows, ManualAgent(r) PROVE ProvisioningIsLive'
    BY <2>2 DEF ManualAgent, ProvisioningIsLive, Live
  <2>3. ASSUME NEW r \in Rows, Provision(r) PROVE ProvisioningIsLive'
    <3>1. ASSUME NEW q \in Rows, q # r PROVE row'[q] = row[q]
      BY <2>3, <3>1 DEF Provision, TypeOK
    <3>2. CASE ~row[r].ip
      <4>1. UNCHANGED job /\ stuck' = stuck \cup {r}
        BY <2>3, <3>2 DEF Provision
      <4> QED BY <3>1, <4>1 DEF ProvisioningIsLive, Live
    <3>3. ASSUME NEW j \in Jobs, NEW yellow \in Yellow, job[j] = Idle,
                 job' = [job EXCEPT ![j] =
                   [Idle EXCEPT !.row = r, !.kind = "prov", !.at = "install",
                                !.todo = yellow]],
                 stuck' = stuck \ {r}
          PROVE ProvisioningIsLive'
      <4>1. job'[j].row = r /\ job'[j].kind = "prov"
        BY <3>3 DEF TypeOK, Idle
      <4>2. job[j].kind = "none"
        BY <3>3 DEF Idle
      <4>3. \A i \in Jobs : i # j => job'[i] = job[i]
        BY <3>3 DEF TypeOK
      <4> QED BY <3>1, <3>3, <4>1, <4>2, <4>3 DEF ProvisioningIsLive, Live
    <3> QED BY <2>3, <3>2, <3>3 DEF Provision
  <2>4. ASSUME NEW r \in Rows, JoinNode(r) PROVE ProvisioningIsLive'
    BY <2>4 DEF JoinNode, ResolveNodeIp, Unborn, ProvisioningIsLive, Live,
       TypeOK, NodeRow, JobRecord
  <2>5. ASSUME NEW r \in Rows, Wake(r) PROVE ProvisioningIsLive'
    BY <2>5 DEF Wake, Live, Connected, Requested, ProvisioningIsLive, TypeOK,
       NodeRow, JobRecord
  <2>6. ASSUME NEW r \in Rows, DeleteNode(r) PROVE ProvisioningIsLive'
    BY <2>6 DEF DeleteNode, ProvisioningIsLive, Live
  <2>7. ASSUME NEW r \in Rows, DeleteWait(r) PROVE ProvisioningIsLive'
    BY <2>7 DEF DeleteWait, ProvisioningIsLive, Live
  <2>8. ASSUME NEW r \in Rows, DeleteNodeRecords(r) PROVE ProvisioningIsLive'
    BY <2>8 DEF DeleteNodeRecords, Unborn, ProvisioningIsLive, Live, TypeOK,
       NodeRow, JobRecord
  <2>9. ASSUME NEW r \in Rows, NEW a \in Actions, PowerWs(r, a)
        PROVE  ProvisioningIsLive'
    BY <2>9 DEF PowerWs, Actions, PowerState, Connected, Requested,
       ProvisioningIsLive, Live, TypeOK, NodeRow, JobRecord
  <2>10. ASSUME NEW r \in Rows, NEW a \in Actions, PowerSsh(r, a)
         PROVE  ProvisioningIsLive'
    BY <2>10 DEF PowerSsh, Actions, PowerState, MacAfter, Requested,
       ProvisioningIsLive, Live, TypeOK, NodeRow, JobRecord
  <2>11. ASSUME NEW j \in Jobs, AuditNode(j) PROVE ProvisioningIsLive'
    <3>1. \A i \in Jobs : job'[i].row = job[i].row /\ job'[i].kind = job[i].kind
      BY <2>11 DEF AuditNode, TypeOK, JobRecord
    <3>2. \/ row' = row
          \/ /\ job[j].row \in Rows
             /\ row' = [row EXCEPT ![job[j].row].mac = TRUE]
      BY <2>11 DEF AuditNode, Live
    <3>3. \A q \in Rows : row'[q].st = row[q].st /\ row'[q].prov = row[q].prov
      BY <3>2 DEF TypeOK, NodeRow
    <3> QED BY <2>11, <3>1, <3>3, JobsGoOn DEF AuditNode
  <2>12. ASSUME NEW j \in Jobs, AuditWrite(j) PROVE ProvisioningIsLive'
    BY <2>12 DEF AuditWrite, Live, Written, Idle, ProvisioningIsLive, TypeOK,
       NodeRow, JobRecord
  <2>13. ASSUME NEW j \in Jobs, InstallItem(j) PROVE ProvisioningIsLive'
    <3>1. \A i \in Jobs : job'[i].row = job[i].row /\ job'[i].kind = job[i].kind
      BY <2>13 DEF InstallItem, SshRejects, TypeOK, JobRecord
    <3> QED BY <2>13, <3>1, JobsGoOn DEF InstallItem
  <2>14. ASSUME NEW j \in Jobs, OllamaDone(j) PROVE ProvisioningIsLive'
    <3>1. \A i \in Jobs : job'[i].row = job[i].row /\ job'[i].kind = job[i].kind
      BY <2>14 DEF OllamaDone, SshRejects, TypeOK, JobRecord
    <3> QED BY <2>14, <3>1, JobsGoOn DEF OllamaDone
  <2>15. ASSUME NEW j \in Jobs, ProvisionWrite(j) PROVE ProvisioningIsLive'
    <3>1. CASE ~Live(job[j].row)
      <4>1. \A i \in Jobs : job'[i].row = job[i].row /\ job'[i].kind = job[i].kind
        BY <2>15, <3>1 DEF ProvisionWrite, TypeOK, JobRecord
      <4> QED BY <2>15, <3>1, <4>1, JobsGoOn DEF ProvisionWrite
    <3>2. CASE Live(job[j].row)
      <4>1. /\ job' = [job EXCEPT ![j] = Idle]
            /\ row' = Written(job[j].row, "provisioned", "report")
            /\ stuck' = stuck \ {job[j].row}
        BY <2>15, <3>2 DEF ProvisionWrite
      <4>2. row'[job[j].row].prov = "provisioned"
        BY <3>2, <4>1 DEF Written, Live, TypeOK, NodeRow
      <4>3. \A q \in Rows : q # job[j].row => row'[q] = row[q]
        BY <3>2, <4>1 DEF Written, Live, TypeOK
      <4>4. \A i \in Jobs : i # j => job'[i] = job[i]
        BY <4>1 DEF TypeOK
      <4> QED BY <4>1, <4>2, <4>3, <4>4 DEF ProvisioningIsLive, Live
    <3> QED BY <3>1, <3>2
  <2>16. ASSUME NEW j \in Jobs, ProvisionFails(j) PROVE ProvisioningIsLive'
    <3>1. CASE ~Live(job[j].row)
      BY <2>16, <3>1 DEF ProvisionFails, ProvisioningIsLive, Live, ManagerEnds
    <3>2. CASE Live(job[j].row)
      <4>1. /\ job' = [job EXCEPT ![j] = Idle]
            /\ row' = Written(job[j].row, "failed", "text")
            /\ stuck' = stuck \ {job[j].row}
        BY <2>16, <3>2 DEF ProvisionFails, CatchWrites
      <4>2. row'[job[j].row].prov = "failed"
        BY <3>2, <4>1 DEF Written, Live, TypeOK, NodeRow
      <4>3. \A q \in Rows : q # job[j].row => row'[q] = row[q]
        BY <3>2, <4>1 DEF Written, Live, TypeOK
      <4>4. \A i \in Jobs : i # j => job'[i] = job[i]
        BY <4>1 DEF TypeOK
      <4> QED BY <4>1, <4>2, <4>3, <4>4 DEF ProvisioningIsLive, Live
    <3> QED BY <3>1, <3>2
  <2>17. ASSUME NEW s \in Scripts, Probe(s) PROVE ProvisioningIsLive'
    BY <2>17 DEF Probe, ProvisioningIsLive, Live
  <2>18. ASSUME NEW s \in Scripts, Fetch(s) PROVE ProvisioningIsLive'
    BY <2>18 DEF Fetch, ProvisioningIsLive, Live
  <2>19. ASSUME NEW s \in Scripts, Touch(s) PROVE ProvisioningIsLive'
    BY <2>19 DEF Touch, ProvisioningIsLive, Live
  <2>20. ASSUME NEW s \in Scripts, WriteDropIn(s) PROVE ProvisioningIsLive'
    BY <2>20 DEF WriteDropIn, ProvisioningIsLive, Live
  <2>21. ASSUME InstallSh PROVE ProvisioningIsLive'
    BY <2>21 DEF InstallSh, ProvisioningIsLive, Live
  <2>22. ASSUME InstallAgent PROVE ProvisioningIsLive'
    BY <2>22 DEF InstallAgent, ProvisioningIsLive, Live
  <2>22a. ASSUME StorageChanges PROVE ProvisioningIsLive'
    BY <2>22a DEF StorageChanges, ProvisioningIsLive, Live
  <2>23. ASSUME CreateToken PROVE ProvisioningIsLive'
    BY <2>23 DEF CreateToken, ProvisioningIsLive, Live
  <2>24. ASSUME TokenDies PROVE ProvisioningIsLive'
    BY <2>24 DEF TokenDies, ProvisioningIsLive, Live
  <2>25. ASSUME ValidateToken PROVE ProvisioningIsLive'
    BY <2>25 DEF ValidateToken, ProvisioningIsLive, Live
  <2>26. ASSUME Register PROVE ProvisioningIsLive'
    BY <2>26 DEF Register, Live, Registered, ResolveNodeIp,
       ProvisioningIsLive, TypeOK, NodeRow, JobRecord
  <2>27. ASSUME SelfAudit PROVE ProvisioningIsLive'
    BY <2>27 DEF SelfAudit, Live, Written, ProvisioningIsLive, TypeOK,
       NodeRow, JobRecord
  <2>28. ASSUME Drop PROVE ProvisioningIsLive'
    BY <2>28 DEF Drop, ProvisioningIsLive, Live
  <2>29. ASSUME HubClose PROVE ProvisioningIsLive'
    BY <2>29 DEF HubClose, ProvisioningIsLive, Live
  <2>30. ASSUME Metrics PROVE ProvisioningIsLive'
    BY <2>30 DEF Metrics, ProvisioningIsLive, Live
  <2>31. ASSUME ManagerRestart PROVE ProvisioningIsLive'
    BY <2>31 DEF ManagerRestart, ManagerEnds, Unlinked, Idle,
       ProvisioningIsLive, Live, TypeOK, NodeRow, JobRecord
  <2>32. ASSUME CmdPower PROVE ProvisioningIsLive'
    BY <2>32 DEF CmdPower, ProvisioningIsLive, Live
  <2>33. ASSUME PowerAck PROVE ProvisioningIsLive'
    BY <2>33 DEF PowerAck, Live, UndoPower, ProvisioningIsLive, TypeOK,
       NodeRow, JobRecord
  <2>33a. ASSUME PowerFails PROVE ProvisioningIsLive'
    BY <2>33a DEF PowerFails, ProvisioningIsLive, Live
  <2>34. ASSUME PowerDown PROVE ProvisioningIsLive'
    BY <2>34 DEF PowerDown, ProvisioningIsLive, Live
  <2>35. ASSUME PowerUp PROVE ProvisioningIsLive'
    BY <2>35 DEF PowerUp, ProvisioningIsLive, Live
  <2>36. ASSUME CmdDeprovision PROVE ProvisioningIsLive'
    BY <2>36 DEF CmdDeprovision, ProvisioningIsLive, Live
  <2>37. ASSUME AgentLeaves PROVE ProvisioningIsLive'
    BY <2>37 DEF AgentLeaves, ProvisioningIsLive, Live
  <2>38. ASSUME UNCHANGED vars PROVE ProvisioningIsLive'
    BY <2>38 DEF vars, ProvisioningIsLive, Live
  <2> QED
    BY <2>1, <2>2, <2>3, <2>4, <2>5, <2>6, <2>7, <2>8, <2>9, <2>10, <2>11,
       <2>12, <2>13, <2>14, <2>15, <2>16, <2>17, <2>18, <2>19, <2>20, <2>21,
       <2>22, <2>22a, <2>23, <2>24, <2>25, <2>26, <2>27, <2>28, <2>29, <2>30, <2>31,
       <2>32, <2>33, <2>33a, <2>34, <2>35, <2>36, <2>37, <2>38 DEF Next
<1> QED BY <1>1, <1>2, TypeCorrect, PTL DEF Spec

-----------------------------------------------------------------------------
\* An open socket is registered as the row the agent knows itself as.
LinkIsId == agent.link \in {NoRow, agent.id}

\* The inductive invariant of PowerHonest: an acknowledgement is applied to the
\* row the agent's id names, PowerHonest is about the one its socket names.
PowerInv == LinkIsId /\ PowerHonest

\* Nothing is claimed of a node whose agent is not connected.
LEMMA NoLink ==
  ASSUME agent'.link = NoRow
  PROVE  PowerInv'
BY NodesAssumption DEF PowerInv, LinkIsId, PowerHonest, Connected,
   NodesAssumption

\* The agent without its socket.
LEMMA UnlinkedLink ==
  ASSUME TypeOK
  PROVE  Unlinked \in AgentRecord /\ Unlinked.link = NoRow
BY DEF TypeOK, Unlinked, AgentRecord

\* Both parts hold together.
THEOREM PowerInvCorrect == Spec => []PowerInv
<1>1. Init => PowerInv
  BY NodesAssumption DEF Init, PowerInv, LinkIsId, PowerHonest, Live,
     Connected, Unborn, NoAgent, NodesAssumption
<1>2. TypeOK /\ PowerInv /\ [Next]_vars => PowerInv'
  <2> SUFFICES ASSUME TypeOK, PowerInv, [Next]_vars PROVE PowerInv'
    OBVIOUS
  <2>1. ASSUME NEW r \in Rows, PostNode(r) PROVE PowerInv'
    BY <2>1, NodesAssumption DEF PostNode, Unborn, Idle, PowerInv, LinkIsId,
       PowerHonest, Live,
       Connected, TypeOK, NodeRow, AgentRecord, NodesAssumption
  <2>2. ASSUME NEW r \in Rows, ManualAgent(r) PROVE PowerInv'
    BY <2>2, NodesAssumption DEF ManualAgent, NoAgent, Live, PowerInv,
       LinkIsId, PowerHonest,
       Connected, TypeOK, NodeRow, AgentRecord, NodesAssumption
  <2>3. ASSUME NEW r \in Rows, Provision(r) PROVE PowerInv'
    BY <2>3, NodesAssumption DEF Provision, Live, Requested, Yellow, Idle,
       PowerInv, LinkIsId,
       PowerHonest, Connected, TypeOK, NodeRow, AgentRecord, NodesAssumption
  <2>4. ASSUME NEW r \in Rows, JoinNode(r) PROVE PowerInv'
    <3>1. PICK ip \in BOOLEAN :
            row' = [row EXCEPT ![r] = [Unborn EXCEPT
                      !.st = "live", !.prov = "agent-deployed", !.ip = ip]]
      BY <2>4 DEF JoinNode, ResolveNodeIp
    <3>2. row'[r].power = "on" /\ \A q \in Rows : q # r => row'[q] = row[q]
      BY <3>1 DEF TypeOK, Unborn
    <3>3. \/ agent' = agent
          \/ agent'.id = r /\ agent'.link = r
      BY <2>4 DEF JoinNode, TypeOK, AgentRecord
    <3>4. UNCHANGED <<cmd, ack, doom, excused>>
      BY <2>4 DEF JoinNode
    <3> QED BY <3>2, <3>3, <3>4
            DEF PowerInv, LinkIsId, PowerHonest, Live, Connected
  <2>5. ASSUME NEW r \in Rows, Wake(r) PROVE PowerInv'
    BY <2>5, NodesAssumption DEF Wake, Live, Connected, Requested, PowerInv,
       LinkIsId,
       PowerHonest, TypeOK, NodeRow, AgentRecord, NodesAssumption
  <2>6. ASSUME NEW r \in Rows, DeleteNode(r) PROVE PowerInv'
    BY <2>6, NodesAssumption DEF DeleteNode, Requested, Connected, PowerInv,
       LinkIsId,
       PowerHonest, Live, TypeOK, NodeRow, AgentRecord, NodesAssumption
  <2>7. ASSUME NEW r \in Rows, DeleteWait(r) PROVE PowerInv'
    BY <2>7 DEF DeleteWait, PowerInv, LinkIsId, PowerHonest, Live, Connected
  <2>8. ASSUME NEW r \in Rows, DeleteNodeRecords(r) PROVE PowerInv'
    BY <2>8, NodesAssumption DEF DeleteNodeRecords, Unborn, PowerInv, LinkIsId,
       PowerHonest,
       Live, Connected, TypeOK, NodeRow, AgentRecord, NodesAssumption
  <2>9. ASSUME NEW r \in Rows, NEW a \in Actions, PowerWs(r, a) PROVE PowerInv'
    BY <2>9, NodesAssumption DEF PowerWs, Actions, PowerState, Connected,
       Requested, PowerInv,
       LinkIsId, PowerHonest, Live, TypeOK, NodeRow, AgentRecord,
       NodesAssumption
  <2>10. ASSUME NEW r \in Rows, NEW a \in Actions, PowerSsh(r, a)
         PROVE  PowerInv'
    BY <2>10, NodesAssumption DEF PowerSsh, Actions, PowerState, MacAfter,
       Requested, PowerInv,
       LinkIsId, PowerHonest, Live, Connected, TypeOK, NodeRow, AgentRecord,
       NodesAssumption
  <2>11. ASSUME NEW j \in Jobs, AuditNode(j) PROVE PowerInv'
    BY <2>11, NodesAssumption DEF AuditNode, Live, PowerInv, LinkIsId,
       PowerHonest, Connected,
       TypeOK, NodeRow, AgentRecord, NodesAssumption
  <2>12. ASSUME NEW j \in Jobs, AuditWrite(j) PROVE PowerInv'
    BY <2>12, NodesAssumption DEF AuditWrite, Live, Written, Idle, PowerInv,
       LinkIsId,
       PowerHonest, Connected, TypeOK, NodeRow, AgentRecord, NodesAssumption
  <2>13. ASSUME NEW j \in Jobs, InstallItem(j) PROVE PowerInv'
    BY <2>13 DEF InstallItem, PowerInv, LinkIsId, PowerHonest, Live, Connected
  <2>14. ASSUME NEW j \in Jobs, OllamaDone(j) PROVE PowerInv'
    BY <2>14 DEF OllamaDone, PowerInv, LinkIsId, PowerHonest, Live, Connected
  <2>15. ASSUME NEW j \in Jobs, ProvisionWrite(j) PROVE PowerInv'
    BY <2>15, NodesAssumption DEF ProvisionWrite, Live, Written, Idle,
       PowerInv, LinkIsId,
       PowerHonest, Connected, TypeOK, NodeRow, AgentRecord, NodesAssumption
  <2>16. ASSUME NEW j \in Jobs, ProvisionFails(j) PROVE PowerInv'
    <3>1. CASE ~Live(job[j].row)
      BY <2>16, <3>1, UnlinkedLink, NoLink DEF ProvisionFails, ManagerEnds
    <3>2. CASE Live(job[j].row)
      <4>1. /\ row' = Written(job[j].row, "failed", "text")
            /\ UNCHANGED <<agent, cmd, ack, doom, excused>>
        BY <2>16, <3>2 DEF ProvisionFails, CatchWrites
      <4>2. \A q \in Rows : row'[q].st = row[q].st /\ row'[q].power = row[q].power
        BY <3>2, <4>1 DEF Written, Live, TypeOK, NodeRow
      <4> QED BY <4>1, <4>2
              DEF PowerInv, LinkIsId, PowerHonest, Live, Connected
    <3> QED BY <3>1, <3>2
  <2>17. ASSUME NEW s \in Scripts, Probe(s) PROVE PowerInv'
    BY <2>17 DEF Probe, PowerInv, LinkIsId, PowerHonest, Live, Connected
  <2>18. ASSUME NEW s \in Scripts, Fetch(s) PROVE PowerInv'
    BY <2>18 DEF Fetch, PowerInv, LinkIsId, PowerHonest, Live, Connected
  <2>19. ASSUME NEW s \in Scripts, Touch(s) PROVE PowerInv'
    BY <2>19 DEF Touch, PowerInv, LinkIsId, PowerHonest, Live, Connected
  <2>20. ASSUME NEW s \in Scripts, WriteDropIn(s) PROVE PowerInv'
    BY <2>20 DEF WriteDropIn, PowerInv, LinkIsId, PowerHonest, Live, Connected
  <2>21. ASSUME InstallSh PROVE PowerInv'
    BY <2>21 DEF InstallSh, PowerInv, LinkIsId, PowerHonest, Live, Connected
  <2>22. ASSUME InstallAgent PROVE PowerInv'
    BY <2>22, NodesAssumption DEF InstallAgent, PowerInv, LinkIsId,
       PowerHonest, Live,
       Connected, TypeOK, NodeRow, AgentRecord, NodesAssumption
  <2>22a. ASSUME StorageChanges PROVE PowerInv'
    BY <2>22a DEF StorageChanges, PowerInv, LinkIsId, PowerHonest, Live, Connected
  <2>23. ASSUME CreateToken PROVE PowerInv'
    BY <2>23 DEF CreateToken, PowerInv, LinkIsId, PowerHonest, Live, Connected
  <2>24. ASSUME TokenDies PROVE PowerInv'
    BY <2>24 DEF TokenDies, PowerInv, LinkIsId, PowerHonest, Live, Connected
  <2>25. ASSUME ValidateToken PROVE PowerInv'
    BY <2>25 DEF ValidateToken, PowerInv, LinkIsId, PowerHonest, Live,
       Connected
  <2>26. ASSUME Register PROVE PowerInv'
    BY <2>26, NodesAssumption DEF Register, Live, Registered, ResolveNodeIp,
       PowerInv,
       LinkIsId, PowerHonest, Connected, TypeOK, NodeRow, AgentRecord,
       NodesAssumption
  <2>27. ASSUME SelfAudit PROVE PowerInv'
    BY <2>27, NodesAssumption DEF SelfAudit, Live, Written, PowerInv, LinkIsId,
       PowerHonest,
       Connected, TypeOK, NodeRow, AgentRecord, NodesAssumption
  <2>28. ASSUME Drop PROVE PowerInv'
    BY <2>28, NodesAssumption DEF Drop, LinkLost, Unlinked, PowerInv, LinkIsId,
       PowerHonest,
       Live, Connected, TypeOK, NodeRow, AgentRecord, NodesAssumption
  <2>29. ASSUME HubClose PROVE PowerInv'
    BY <2>29 DEF HubClose, PowerInv, LinkIsId, PowerHonest, Live, Connected
  <2>30. ASSUME Metrics PROVE PowerInv'
    BY <2>30 DEF Metrics, PowerInv, LinkIsId, PowerHonest, Live, Connected
  <2>31. ASSUME ManagerRestart PROVE PowerInv'
    BY <2>31, NodesAssumption DEF ManagerRestart, ManagerEnds, Unlinked, Idle,
       PowerInv,
       LinkIsId, PowerHonest, Live, Connected, TypeOK, NodeRow, AgentRecord,
       NodesAssumption
  <2>32. ASSUME CmdPower PROVE PowerInv'
    BY <2>32, NodesAssumption DEF CmdPower, PowerInv, LinkIsId, PowerHonest,
       Live, Connected,
       TypeOK, NodeRow, AgentRecord, NodesAssumption
  <2>33. ASSUME PowerAck PROVE PowerInv'
    BY <2>33, NodesAssumption DEF PowerAck, Live, UndoPower, PowerInv,
       LinkIsId, PowerHonest,
       Connected, TypeOK, NodeRow, AgentRecord, NodesAssumption
  <2>33a. ASSUME PowerFails PROVE PowerInv'
    BY <2>33a DEF PowerFails, PowerInv, LinkIsId, PowerHonest, Live, Connected
  <2>34. ASSUME PowerDown PROVE PowerInv'
    <3>1. CASE doom = "sleep" /\ UNCHANGED agent
               /\ excused' = excused \cup ({agent.link} \cap Rows)
      BY <2>34, <3>1
         DEF PowerDown, PowerInv, LinkIsId, PowerHonest, Live, Connected
    <3>2. CASE agent' = [Unlinked EXCEPT
                           !.bye = IF doom = "sleep" THEN @ ELSE "no"]
      BY <3>2, UnlinkedLink, NoLink DEF AgentRecord
    <3> QED BY <2>34, <3>1, <3>2 DEF PowerDown
  <2>35. ASSUME PowerUp PROVE PowerInv'
    BY <2>35 DEF PowerUp, PowerInv, LinkIsId, PowerHonest, Live, Connected
  <2>36. ASSUME CmdDeprovision PROVE PowerInv'
    <3>1. CASE agent' = [Unlinked EXCEPT !.bye = "begun"]
      BY <3>1, UnlinkedLink, NoLink DEF AgentRecord
    <3>2. CASE agent' = [agent EXCEPT !.bye = "no"] /\ UNCHANGED <<cmd, ack>>
      <4>1. agent'.link = agent.link /\ agent'.id = agent.id
        BY <3>2 DEF TypeOK, AgentRecord
      <4>2. UNCHANGED <<row, doom, excused>>
        BY <2>36 DEF CmdDeprovision
      <4> QED BY <3>2, <4>1, <4>2
              DEF PowerInv, LinkIsId, PowerHonest, Live, Connected
    <3> QED BY <2>36, <3>1, <3>2 DEF CmdDeprovision
  <2>37. ASSUME AgentLeaves PROVE PowerInv'
    BY <2>37, NodesAssumption DEF AgentLeaves, LinkLost, NoAgent, PowerInv,
       LinkIsId,
       PowerHonest, Live, Connected, TypeOK, NodeRow, AgentRecord,
       NodesAssumption
  <2>38. ASSUME UNCHANGED vars PROVE PowerInv'
    BY <2>38 DEF vars, PowerInv, LinkIsId, PowerHonest, Live, Connected
  <2> QED
    BY <2>1, <2>2, <2>3, <2>4, <2>5, <2>6, <2>7, <2>8, <2>9, <2>10, <2>11,
       <2>12, <2>13, <2>14, <2>15, <2>16, <2>17, <2>18, <2>19, <2>20, <2>21,
       <2>22, <2>22a, <2>23, <2>24, <2>25, <2>26, <2>27, <2>28, <2>29, <2>30, <2>31,
       <2>32, <2>33, <2>33a, <2>34, <2>35, <2>36, <2>37, <2>38 DEF Next
<1> QED BY <1>1, <1>2, TypeCorrect, PTL DEF Spec

\* A node whose agent is connected is shown as going down or coming up only
\* while a power command for it is on its way or its refusal is, or the machine
\* is about to run it (routes/nodes.ts, agent:power:* of ws/agent-hub.ts), but
\* for the excused rows.
THEOREM PowerHonestCorrect == Spec => []PowerHonest
<1>1. PowerInv => PowerHonest
  BY DEF PowerInv
<1> QED BY <1>1, PowerInvCorrect, PTL

-----------------------------------------------------------------------------
\* The marker is only beside an Ollama the manager installed, or an override
\* that has one of the lines the probe looks for.
Settings == oll.mark => oll.unit = "manager" \/ Claimed(oll)

\* No two scripts are under way.
OneScript == \A s, t \in Scripts : Busy(s) /\ Busy(t) => s = t

\* What a script found still holds when it acts on it.
Placed == \A s \in Scripts :
  /\ script[s] = "fetch" => oll.unit = "none"
  /\ script[s] = "touch" => oll.unit = "manager"
  /\ script[s] = "own" => oll.unit = "manager" \/ Claimed(oll)
  /\ script[s] = "adopt" => ~oll.mark /\ ~Claimed(oll)

\* The inductive invariant of OllamaOwnership: without an overlap a script is
\* alone from its probe to the drop-in it writes.
OwnInv == ~mixed => Settings /\ OneScript /\ Placed

\* It holds in every state.
THEOREM OwnInvCorrect == Spec => []OwnInv
<1>1. Init => OwnInv
  <2> SUFFICES ASSUME Init PROVE OwnInv
    OBVIOUS
  <2>1. \A s \in Scripts : script[s] = "off"
    BY DEF Init
  <2>2. oll.mark = FALSE
    <3>1. CASE oll = [unit |-> "none", mark |-> FALSE, conf |-> {}, mnt |-> TRUE]
      BY <3>1
    <3>2. CASE oll = [unit |-> "manager", mark |-> FALSE,
                      conf |-> {"user", "models"}, mnt |-> TRUE]
      BY <3>2
    <3>3. CASE oll \in [unit : {"theirs"}, mark : {FALSE}, conf : Overrides,
                         mnt : {TRUE}]
      BY <3>3
    <3> QED BY <3>1, <3>2, <3>3 DEF Init, OllamaFound
  <2> QED BY <2>1, <2>2 DEF OwnInv, Settings, OneScript, Placed, Busy
<1>2. TypeOK /\ OwnInv /\ [Next]_vars => OwnInv'
  <2> SUFFICES ASSUME TypeOK, OwnInv, [Next]_vars PROVE OwnInv'
    OBVIOUS
  <2>1. ASSUME NEW r \in Rows, PostNode(r) PROVE OwnInv'
    BY <2>1 DEF PostNode, OwnInv, Settings, OneScript, Placed, Busy
  <2>2. ASSUME NEW r \in Rows, ManualAgent(r) PROVE OwnInv'
    BY <2>2 DEF ManualAgent, OwnInv, Settings, OneScript, Placed, Busy
  <2>3. ASSUME NEW r \in Rows, Provision(r) PROVE OwnInv'
    BY <2>3 DEF Provision, OwnInv, Settings, OneScript, Placed, Busy
  <2>4. ASSUME NEW r \in Rows, JoinNode(r) PROVE OwnInv'
    BY <2>4 DEF JoinNode, OwnInv, Settings, OneScript, Placed, Busy
  <2>5. ASSUME NEW r \in Rows, Wake(r) PROVE OwnInv'
    BY <2>5 DEF Wake, OwnInv, Settings, OneScript, Placed, Busy
  <2>6. ASSUME NEW r \in Rows, DeleteNode(r) PROVE OwnInv'
    BY <2>6 DEF DeleteNode, OwnInv, Settings, OneScript, Placed, Busy
  <2>7. ASSUME NEW r \in Rows, DeleteWait(r) PROVE OwnInv'
    BY <2>7 DEF DeleteWait, OwnInv, Settings, OneScript, Placed, Busy
  <2>8. ASSUME NEW r \in Rows, DeleteNodeRecords(r) PROVE OwnInv'
    BY <2>8 DEF DeleteNodeRecords, OwnInv, Settings, OneScript, Placed, Busy
  <2>9. ASSUME NEW r \in Rows, NEW a \in Actions, PowerWs(r, a) PROVE OwnInv'
    BY <2>9 DEF PowerWs, OwnInv, Settings, OneScript, Placed, Busy
  <2>10. ASSUME NEW r \in Rows, NEW a \in Actions, PowerSsh(r, a) PROVE OwnInv'
    BY <2>10 DEF PowerSsh, OwnInv, Settings, OneScript, Placed, Busy
  <2>11. ASSUME NEW j \in Jobs, AuditNode(j) PROVE OwnInv'
    BY <2>11 DEF AuditNode, OwnInv, Settings, OneScript, Placed, Busy
  <2>12. ASSUME NEW j \in Jobs, AuditWrite(j) PROVE OwnInv'
    BY <2>12 DEF AuditWrite, OwnInv, Settings, OneScript, Placed, Busy
  <2>13. ASSUME NEW j \in Jobs, InstallItem(j) PROVE OwnInv'
    <3>1. j \in Scripts /\ UNCHANGED oll
      BY <2>13 DEF InstallItem, Scripts
    <3>2. CASE UNCHANGED script
      <4>1. ~mixed' => ~mixed
        BY <2>13 DEF InstallItem
      <4> QED BY <3>1, <3>2, <4>1 DEF OwnInv, Settings, OneScript, Placed, Busy
    <3>3. CASE script' = [script EXCEPT ![j] = "probe"]
      <4>1. script'[j] = "probe" /\ \A s \in Scripts : s # j => script'[s] = script[s]
        BY <3>1, <3>3 DEF TypeOK
      <4>2. ~mixed' => ~mixed /\ \A s \in Scripts : ~Busy(s)
        BY <2>13, <4>1 DEF InstallItem
      <4> QED BY <3>1, <4>1, <4>2 DEF OwnInv, Settings, OneScript, Placed, Busy
    <3> QED BY <2>13, <3>2, <3>3 DEF InstallItem
  <2>14. ASSUME NEW j \in Jobs, OllamaDone(j) PROVE OwnInv'
    BY <2>14 DEF OllamaDone, SshRejects, OwnInv, Settings, OneScript, Placed,
       Busy, TypeOK, ScriptStates, Scripts
  <2>15. ASSUME NEW j \in Jobs, ProvisionWrite(j) PROVE OwnInv'
    BY <2>15 DEF ProvisionWrite, OwnInv, Settings, OneScript, Placed, Busy
  <2>16. ASSUME NEW j \in Jobs, ProvisionFails(j) PROVE OwnInv'
    BY <2>16 DEF ProvisionFails, Live, CatchWrites, Written, ManagerEnds,
       Unlinked, Idle, OwnInv, Settings, OneScript, Placed, Busy, TypeOK,
       ScriptStates, Scripts
  <2>17. ASSUME NEW s \in Scripts, Probe(s) PROVE OwnInv'
    BY <2>17 DEF Probe, ProbeMark, Rendered, OwnInv, Settings, OneScript,
       Placed, Busy, TypeOK, ScriptStates, Scripts, Claimed, OllamaRecord
  <2>18. ASSUME NEW s \in Scripts, Fetch(s) PROVE OwnInv'
    BY <2>18 DEF Fetch, Ends, OwnInv, Settings, OneScript, Placed, Busy,
       TypeOK, ScriptStates, Scripts, Claimed, OllamaRecord
  <2>19. ASSUME NEW s \in Scripts, Touch(s) PROVE OwnInv'
    BY <2>19 DEF Touch, Rendered, OwnInv, Settings, OneScript, Placed, Busy,
       TypeOK, ScriptStates, Scripts, Claimed, OllamaRecord, Ends
  <2>20. ASSUME NEW s \in Scripts, WriteDropIn(s) PROVE OwnInv'
    BY <2>20 DEF WriteDropIn, Ends, OwnInv, Settings, OneScript, Placed, Busy,
       TypeOK, ScriptStates, Scripts, Claimed, OllamaRecord, DropInBody, Ours, Lines
  <2>21. ASSUME InstallSh PROVE OwnInv'
    BY <2>21 DEF InstallSh, Requested, OwnInv, Settings, OneScript, Placed,
       Busy, TypeOK, ScriptStates, Scripts
  <2>22. ASSUME InstallAgent PROVE OwnInv'
    BY <2>22 DEF InstallAgent, OwnInv, Settings, OneScript, Placed, Busy,
       TypeOK, ScriptStates, Scripts
  <2>22a. ASSUME StorageChanges PROVE OwnInv'
    BY <2>22a DEF StorageChanges, OwnInv, Settings, OneScript, Placed, Busy,
       Claimed, TypeOK, OllamaRecord
  <2>23. ASSUME CreateToken PROVE OwnInv'
    BY <2>23 DEF CreateToken, OwnInv, Settings, OneScript, Placed, Busy
  <2>24. ASSUME TokenDies PROVE OwnInv'
    BY <2>24 DEF TokenDies, OwnInv, Settings, OneScript, Placed, Busy
  <2>25. ASSUME ValidateToken PROVE OwnInv'
    BY <2>25 DEF ValidateToken, OwnInv, Settings, OneScript, Placed, Busy
  <2>26. ASSUME Register PROVE OwnInv'
    BY <2>26 DEF Register, OwnInv, Settings, OneScript, Placed, Busy
  <2>27. ASSUME SelfAudit PROVE OwnInv'
    BY <2>27 DEF SelfAudit, OwnInv, Settings, OneScript, Placed, Busy
  <2>28. ASSUME Drop PROVE OwnInv'
    BY <2>28 DEF Drop, OwnInv, Settings, OneScript, Placed, Busy
  <2>29. ASSUME HubClose PROVE OwnInv'
    BY <2>29 DEF HubClose, OwnInv, Settings, OneScript, Placed, Busy
  <2>30. ASSUME Metrics PROVE OwnInv'
    BY <2>30 DEF Metrics, OwnInv, Settings, OneScript, Placed, Busy
  <2>31. ASSUME ManagerRestart PROVE OwnInv'
    BY <2>31 DEF ManagerRestart, ManagerEnds, Unlinked, Idle, OwnInv,
       Settings, OneScript, Placed, Busy, TypeOK, ScriptStates, Scripts
  <2>32. ASSUME CmdPower PROVE OwnInv'
    BY <2>32 DEF CmdPower, OwnInv, Settings, OneScript, Placed, Busy
  <2>33. ASSUME PowerAck PROVE OwnInv'
    BY <2>33 DEF PowerAck, OwnInv, Settings, OneScript, Placed, Busy
  <2>33a. ASSUME PowerFails PROVE OwnInv'
    BY <2>33a DEF PowerFails, OwnInv, Settings, OneScript, Placed, Busy
  <2>34. ASSUME PowerDown PROVE OwnInv'
    BY <2>34 DEF PowerDown, LinkLost, Unlinked, Ends, OwnInv, Settings,
       OneScript, Placed, Busy, TypeOK, ScriptStates, Scripts
  <2>35. ASSUME PowerUp PROVE OwnInv'
    BY <2>35 DEF PowerUp, OwnInv, Settings, OneScript, Placed, Busy
  <2>36. ASSUME CmdDeprovision PROVE OwnInv'
    BY <2>36 DEF CmdDeprovision, OwnInv, Settings, OneScript, Placed, Busy
  <2>37. ASSUME AgentLeaves PROVE OwnInv'
    BY <2>37 DEF AgentLeaves, OwnInv, Settings, OneScript, Placed, Busy
  <2>38. ASSUME UNCHANGED vars PROVE OwnInv'
    BY <2>38 DEF vars, OwnInv, Settings, OneScript, Placed, Busy
  <2> QED
    BY <2>1, <2>2, <2>3, <2>4, <2>5, <2>6, <2>7, <2>8, <2>9, <2>10, <2>11,
       <2>12, <2>13, <2>14, <2>15, <2>16, <2>17, <2>18, <2>19, <2>20, <2>21,
       <2>22, <2>22a, <2>23, <2>24, <2>25, <2>26, <2>27, <2>28, <2>29, <2>30, <2>31,
       <2>32, <2>33, <2>33a, <2>34, <2>35, <2>36, <2>37, <2>38 DEF Next
<1> QED BY <1>1, <1>2, TypeCorrect, PTL DEF Spec

\* The drop-in of ollama/dropin.ts: the ownership lines go only where the manager
\* installed the Ollama or such a line already was; User= stays, OLLAMA_MODELS=
\* while the storage is mounted (while no two runs of the script overlap).
THEOREM OllamaOwnershipCorrect == Spec => OllamaOwnership
<1> DEFINE Kept == /\ Claimed(oll') => oll'.unit = "manager" \/ Claimed(oll)
                   /\ "user" \in oll.conf => "user" \in oll'.conf
                   /\ "models" \in oll.conf => "models" \in oll'.conf \/ ~oll.mnt
<1>1. TypeOK /\ OwnInv /\ [Next]_vars
      => [oll'.conf # oll.conf /\ ~mixed => Kept]_vars
  <2> SUFFICES ASSUME TypeOK, OwnInv, Next, oll'.conf # oll.conf, ~mixed
               PROVE  Kept
    BY DEF vars
  <2>1. ASSUME NEW s \in Scripts, WriteDropIn(s) PROVE Kept
    <3>1. /\ script[s] = "own" => oll.unit = "manager" \/ Claimed(oll)
          /\ script[s] = "adopt" => ~Claimed(oll)
      BY DEF OwnInv, Placed
    <3>2. oll'.conf = DropInBody(script[s]) /\ oll'.unit = oll.unit
      BY <2>1 DEF WriteDropIn, TypeOK, OllamaRecord
    <3>3. CASE script[s] = "own"
      BY <3>1, <3>2, <3>3 DEF DropInBody, TypeOK, OllamaRecord
    <3>4. CASE script[s] = "adopt"
      BY <3>1, <3>2, <3>4 DEF DropInBody, Claimed, Ours
    <3> QED BY <2>1, <3>3, <3>4 DEF WriteDropIn
  <2>2. ASSUME NEW s \in Scripts, Probe(s) \/ Fetch(s) \/ Touch(s)
        PROVE  oll'.conf = oll.conf
    BY <2>2 DEF Probe, Fetch, Touch, TypeOK, OllamaRecord
  <2>3. ASSUME \E r \in Rows :
                 \/ PostNode(r) \/ ManualAgent(r) \/ Provision(r) \/ JoinNode(r)
                 \/ Wake(r) \/ DeleteNode(r) \/ DeleteWait(r)
                 \/ DeleteNodeRecords(r)
                 \/ \E a \in Actions : PowerWs(r, a) \/ PowerSsh(r, a)
        PROVE  oll' = oll
    BY <2>3 DEF PostNode, ManualAgent, Provision, JoinNode, Wake, DeleteNode,
                DeleteWait, DeleteNodeRecords, PowerWs, PowerSsh
  <2>4. ASSUME \E j \in Jobs : \/ AuditNode(j) \/ AuditWrite(j) \/ InstallItem(j)
                              \/ OllamaDone(j) \/ ProvisionWrite(j)
                              \/ ProvisionFails(j)
        PROVE  oll' = oll
    BY <2>4 DEF AuditNode, AuditWrite, InstallItem, OllamaDone, ProvisionWrite,
                ProvisionFails
  <2>5. ASSUME \/ InstallSh \/ InstallAgent \/ CreateToken \/ TokenDies
               \/ ValidateToken \/ Register \/ SelfAudit \/ Drop \/ HubClose
               \/ Metrics \/ ManagerRestart \/ CmdPower \/ PowerAck
               \/ PowerFails \/ PowerDown \/ PowerUp \/ CmdDeprovision
               \/ AgentLeaves
        PROVE  oll' = oll
    BY <2>5 DEF InstallSh, InstallAgent, CreateToken, TokenDies, ValidateToken,
                Register, SelfAudit, Drop, HubClose, Metrics, ManagerRestart,
                CmdPower, PowerAck, PowerFails, PowerDown, PowerUp,
                CmdDeprovision, AgentLeaves
  <2>6. ASSUME StorageChanges PROVE oll'.conf = oll.conf
    BY <2>6 DEF StorageChanges, TypeOK, OllamaRecord
  <2> QED BY <2>1, <2>2, <2>3, <2>4, <2>5, <2>6 DEF Next
<1> QED BY <1>1, TypeCorrect, OwnInvCorrect, PTL DEF Spec, OllamaOwnership

=============================================================================
