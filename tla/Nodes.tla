------------------------------- MODULE Nodes -------------------------------
(***************************************************************************)
(* The manager's records of one machine: adding a node by address, the SSH *)
(* audit and provisioning jobs, join tokens and registration, power by the *)
(* agent's socket or by SSH, Wake-on-LAN, offboarding, and the script that *)
(* installs Ollama and writes its systemd drop-in, which provisioning and  *)
(* install.sh share.                                                       *)
(*                                                                         *)
(* One machine may have two rows: one added by address, which the manager  *)
(* audits and provisions over SSH, and one its agent registered with a     *)
(* token.  A request or a socket message is one step up to the next await  *)
(* that another actor can act in; SSH commands, scripts on the machine and *)
(* the machine itself run in between.                                      *)
(*                                                                         *)
(* Sources: packages/server/src/routes/{nodes,tokens,agent-bundle}.ts,     *)
(* ssh/{provisioner,executor}.ts, nodes/{power,wol}.ts, ollama/dropin.ts,  *)
(* the registration, self-audit and power messages of ws/agent-hub.ts, and *)
(* cmd:power of packages/agent/src/index.ts.                               *)
(***************************************************************************)
EXTENDS Naturals, FiniteSets

CONSTANTS
  Rows,           \* bound: node rows ever created
  Jobs,           \* bound: audits and provisionings under way at once
  MaxRequests,    \* bound: runs of install.sh and accepted /provision, /power,
                  \* /wake, DELETE and POST /tokens requests
  MaxFaults,      \* bound: lost sockets, cut SSH sessions, manager restarts,
                  \* shared storage mounted or unmounted
  Overrides,      \* the override.conf files somebody else's Ollama may come with
  NoRow

\* The lines of Ollama's override.conf that are told apart: User=, which names
\* whose Ollama it is, OLLAMA_MODELS=, where its models are (the two the manager
\* writes for its own), and lines that are not the manager's.
Ours == {"user", "models"}
Lines == Ours \cup {"other"}

ASSUME NodesAssumption ==
  /\ NoRow \notin Rows
  /\ "sh" \notin Jobs
  /\ Overrides \subseteq SUBSET Lines
  /\ MaxRequests \in Nat /\ MaxFaults \in Nat

\* PowerAction.
Actions == {"reboot", "shutdown", "sleep"}

\* "docker" is every prerequisite but Ollama; only how its installation ends is
\* modelled.
Prereqs == {"docker", "ollama"}

\* Who can run the Ollama script: a provisioning job, or install.sh.
Scripts == Jobs \cup {"sh"}

VARIABLES
  row,      \* per row: st, prov, log (provisionLog: none, the text of an error,
            \* or a report), power, mac, ip
  token,    \* the join token: fresh, used, dead (revoked or expired)
  joining,  \* the hub has validated the token: none, open, lost (socket gone)
  seen,     \* the row this.agents has a socket for
  closing,  \* the row whose replaced or dead socket has not closed yet
  host,     \* the machine: up, reboot, off, asleep
  agent,    \* on: the process runs; id: the row it knows itself as; link: the
            \* row its open socket registered as; due: a self-audit is to come;
            \* old: it predates cmd:power; bye: its uninstall is no, told, begun
  cmd,      \* cmd:power on the socket, or none
  ack,      \* agent:power:accepted or :error on the socket: none, ok, err
  doom,     \* the power command the machine is about to run
  job,      \* per job: row, kind, at, and todo, what is still to be installed
  bye,      \* per row, its DELETE: off, wait, delete
  oll,      \* Ollama: unit (none, manager, theirs), mark (.manager-installed),
            \* conf (the lines of override.conf), mnt (the storage is mounted)
  script,   \* per script: off, probe, fetch, touch, own, adopt, ok, err
  excused,  \* history: rows whose powerState no event will correct
  stuck,    \* history: rows whose "provisioning" no job will end
  mixed,    \* history: two Ollama scripts ran at once
  requests, faults

dbVars == <<row, token>>
hubVars == <<joining, seen, closing, job, bye>>
hostVars == <<host, agent, doom>>
wireVars == <<cmd, ack>>
ollVars == <<oll, script, mixed>>
histVars == <<excused, stuck>>
bounds == <<requests, faults>>
vars == <<dbVars, hubVars, hostVars, wireVars, ollVars, histVars, bounds>>

Idle == [row |-> NoRow, kind |-> "none", at |-> "idle", todo |-> {}]

Unborn == [st |-> "unborn", prov |-> "pending", log |-> "none", power |-> "on",
           mac |-> FALSE, ip |-> FALSE]

NoAgent == [on |-> FALSE, id |-> NoRow, link |-> NoRow, due |-> FALSE,
            old |-> FALSE, bye |-> "no"]

Live(r) == r \in Rows /\ row[r].st = "live"

Connected(r) == agent.link = r

Busy(s) == script[s] \notin {"off", "ok", "err"}

Claimed(o) == o.conf \cap Ours # {}

Requested == requests < MaxRequests /\ requests' = requests + 1

\* The machine comes without an Ollama, with somebody else's, which may have an
\* override.conf of its own, or with one the manager installed before there was
\* a marker.  The storage is mounted at first.
OllamaFound ==
  {[unit |-> "none", mark |-> FALSE, conf |-> {}, mnt |-> TRUE],
   [unit |-> "manager", mark |-> FALSE, conf |-> {"user", "models"}, mnt |-> TRUE]}
  \cup [unit : {"theirs"}, mark : {FALSE}, conf : Overrides, mnt : {TRUE}]

Init ==
  /\ row = [r \in Rows |-> Unborn]
  /\ token = "fresh"
  /\ joining = "none" /\ seen = NoRow /\ closing = NoRow
  /\ host = "up"
  /\ agent = NoAgent
  /\ cmd = "none" /\ ack = "none" /\ doom = "none"
  /\ job = [j \in Jobs |-> Idle]
  /\ bye = [r \in Rows |-> "off"]
  /\ oll \in OllamaFound
  /\ script = [s \in Scripts |-> "off"]
  /\ excused = {} /\ stuck = {} /\ mixed = FALSE
  /\ requests = 0 /\ faults = 0

-----------------------------------------------------------------------------
(* Adding a node by address, and join tokens.                              *)

\* POST /api/nodes: without an address there is no audit.
PostNode(r) ==
  /\ row[r].st = "unborn"
  /\ \E ip \in BOOLEAN :
       /\ row' = [row EXCEPT ![r] = [Unborn EXCEPT !.st = "live", !.ip = ip]]
       /\ IF ip
          THEN \E j \in Jobs :
                 /\ job[j] = Idle /\ script[j] = "off"
                 /\ job' = [job EXCEPT ![j] =
                      [Idle EXCEPT !.row = r, !.kind = "audit", !.at = "audit"]]
          ELSE UNCHANGED job
  /\ UNCHANGED <<token, joining, seen, closing, bye, hostVars, wireVars, ollVars,
                 histVars, bounds>>

\* POST /api/tokens: one token at a time, the next when the last is used up or
\* dead and no registration goes on with it.
CreateToken ==
  /\ token # "fresh" /\ joining = "none"
  /\ Requested
  /\ token' = "fresh"
  /\ UNCHANGED <<row, hubVars, hostVars, wireVars, ollVars, histVars, faults>>

\* DELETE /api/tokens/:id, or the clock passes expiresAt.
TokenDies ==
  /\ token = "fresh"
  /\ token' = "dead"
  /\ UNCHANGED <<row, hubVars, hostVars, wireVars, ollVars, histVars, bounds>>

-----------------------------------------------------------------------------
(* The audit and the provisioning job.                                     *)

\* auditNode: unreachable, with no checks, or a full report and, by an update of
\* its own whose failure is swallowed, the MAC.
AuditNode(j) ==
  /\ job[j].at = "audit"
  /\ \/ /\ job' = [job EXCEPT ![j].at = "writeDown"]
        /\ UNCHANGED row
     \/ /\ host = "up"
        /\ job' = [job EXCEPT ![j].at = "write"]
        /\ row' = IF Live(job[j].row)
                  THEN [row EXCEPT ![job[j].row].mac = TRUE] ELSE row
  /\ UNCHANGED <<token, joining, seen, closing, bye, hostVars, wireVars, ollVars,
                 histVars, bounds>>

Written(r, status, log) == [row EXCEPT ![r].prov = status, ![r].log = log]

\* The then of POST /nodes; an error is logged.
AuditWrite(j) ==
  LET r == job[j].row IN
  /\ job[j].kind = "audit" /\ job[j].at \in {"write", "writeDown"}
  /\ job' = [job EXCEPT ![j] = Idle]
  /\ row' = IF Live(r)
            THEN Written(r, IF job[j].at = "write"
                            THEN "audited" ELSE "unreachable", "report")
            ELSE row
  /\ stuck' = stuck \ {r}
  /\ UNCHANGED <<token, joining, seen, closing, bye, hostVars, wireVars, ollVars,
                 excused, bounds>>

\* What a report may show yellow: it can be out of date, and a command without
\* output counts as not installed (evalOllamaAudit), so anything.
Yellow == SUBSET Prereqs

\* POST /:id/provision, for a row with a report; one whose log is not JSON makes
\* the request fail before anything is written, a row without an address only
\* after.
Provision(r) ==
  /\ Live(r)
  /\ row[r].log = "report"
  /\ Requested
  /\ row' = [row EXCEPT ![r].prov = "provisioning"]
  /\ \/ /\ row[r].ip
        /\ \E j \in Jobs, yellow \in Yellow :
             /\ job[j] = Idle /\ script[j] = "off"
             /\ job' = [job EXCEPT ![j] =
                  [Idle EXCEPT !.row = r, !.kind = "prov", !.at = "install",
                               !.todo = yellow]]
        /\ stuck' = stuck \ {r}
     \/ /\ ~row[r].ip
        /\ stuck' = stuck \cup {r}
        /\ UNCHANGED job
  /\ UNCHANGED <<token, joining, seen, closing, bye, hostVars, wireVars, ollVars,
                 excused, faults>>

\* An sshExec that rejects: no connection, or its timer.
SshRejects(j) == [job EXCEPT ![j].at = "fail"]

\* provisionNode goes through the yellow checks.  An sshExec that rejects ends
\* the job; a command that fails is logged and passed over.
InstallItem(j) ==
  /\ job[j].at = "install"
  /\ \/ /\ "docker" \in job[j].todo
        /\ \/ host = "up" /\ job' = [job EXCEPT ![j].todo = @ \ {"docker"}]
           \/ job' = SshRejects(j)
        /\ UNCHANGED script
     \/ /\ job[j].todo = {"ollama"}
        /\ \/ /\ host = "up"
              /\ script' = [script EXCEPT ![j] = "probe"]
              /\ job' = [job EXCEPT ![j].at = "ollama", ![j].todo = {}]
           \/ job' = SshRejects(j) /\ UNCHANGED script
     \/ /\ job[j].todo = {}
        /\ job' = [job EXCEPT ![j].at = "audit"]
        /\ UNCHANGED script
  /\ mixed' = (mixed \/ \E s \in Scripts : Busy(s) /\ script'[j] = "probe")
  /\ UNCHANGED <<dbVars, joining, seen, closing, bye, host, agent, doom,
                 wireVars, oll, histVars, bounds>>

\* The Ollama command returns, or the session is lost while the script runs on
\* or is cut short: sshExec rejects (its timer, an error) or, when the stream
\* closes without an exit code, resolves as if the command had returned 0.
OllamaDone(j) ==
  /\ job[j].at = "ollama"
  /\ \/ /\ ~Busy(j)
        /\ script' = [script EXCEPT ![j] = "off"]
        /\ job' = [job EXCEPT ![j].at = "install"]
        /\ UNCHANGED faults
     \/ /\ faults < MaxFaults /\ faults' = faults + 1
        /\ job' \in {SshRejects(j), [job EXCEPT ![j].at = "install"]}
        /\ script' \in {script, [script EXCEPT ![j] = "off"]}
  /\ UNCHANGED <<dbVars, joining, seen, closing, bye, hostVars, wireVars, oll,
                 mixed, histVars, requests>>

\* The agent without its socket, and without what was still on it.
Unlinked == [agent EXCEPT !.link = NoRow, !.due = FALSE,
                          !.bye = IF @ = "told" THEN "no" ELSE @]

\* The manager's process ends: its jobs and requests with it, and every socket.
ManagerEnds ==
  /\ job' = [j \in Jobs |-> Idle]
  /\ bye' = [r \in Rows |-> "off"]
  /\ joining' = "none" /\ seen' = NoRow /\ closing' = NoRow
  /\ agent' = Unlinked
  /\ cmd' = "none" /\ ack' = "none"
  /\ script' = [s \in Scripts |->
       IF s \in Jobs /\ script[s] \in {"ok", "err"} THEN "off" ELSE script[s]]

\* The end of the job: the report is written whatever it says, the row being
\* gone sends it to the catch.
ProvisionWrite(j) ==
  LET r == job[j].row IN
  /\ job[j].kind = "prov" /\ job[j].at \in {"write", "writeDown"}
  /\ IF Live(r)
     THEN /\ job' = [job EXCEPT ![j] = Idle]
          /\ row' = Written(r, "provisioned", "report")
          /\ stuck' = stuck \ {r}
     ELSE /\ job' = [job EXCEPT ![j].at = "fail"]
          /\ UNCHANGED <<row, stuck>>
  /\ UNCHANGED <<token, joining, seen, closing, bye, hostVars, wireVars, ollVars,
                 excused, bounds>>

\* A catch that reports the failure to the dashboard only.
FailedUnwritten(r) == row

\* What the catch of /provision leaves in the row.
CatchWrites(r) == Written(r, "failed", "text")

\* The catch writes the error's text over the report.  With the row gone its own
\* update rejects, nothing handles that, and the process ends.
ProvisionFails(j) ==
  LET r == job[j].row IN
  /\ job[j].at = "fail"
  /\ IF Live(r)
     THEN /\ job' = [job EXCEPT ![j] = Idle]
          /\ row' = CatchWrites(r)
          /\ stuck' = stuck \ {r}
          /\ script' = [script EXCEPT ![j] = IF Busy(j) THEN @ ELSE "off"]
          /\ UNCHANGED <<joining, seen, closing, bye, agent, wireVars>>
     ELSE /\ ManagerEnds
          /\ stuck' = stuck \cup {q \in Rows : row[q].prov = "provisioning"}
          /\ UNCHANGED row
  /\ UNCHANGED <<token, host, doom, oll, mixed, excused, bounds>>

ManagerRestart ==
  /\ faults < MaxFaults /\ faults' = faults + 1
  /\ ManagerEnds
  /\ stuck' = stuck \cup {q \in Rows : row[q].prov = "provisioning"}
  /\ UNCHANGED <<dbVars, host, doom, oll, mixed, excused, requests>>

-----------------------------------------------------------------------------
(* The Ollama script of ollama/dropin.ts, on the machine (set -e).         *)

OnHost(s) == host = "up" /\ Busy(s)

\* A script ends; nobody reads the result of one whose job has given up.
Ends(s, result) ==
  IF s \in Jobs /\ job[s].at # "ollama" THEN "off" ELSE result

\* A probe that takes a unit it finds for its own.
MarkByPresence == oll.unit # "none"

\* Whether the marker is there after ollamaOwnershipProbe found a unit: if it was
\* recorded, or the override, whoever wrote it, has one of the lines the grep
\* takes for the manager's.
ProbeMark == oll.mark \/ Claimed(oll)

\* OLLAMA_MANAGED, from what the marker says.
Rendered(mark) == IF mark THEN "own" ELSE "adopt"

\* ollamaDropInBody: User= for the manager's own, and where the models are only
\* while the shared storage is mounted.
DropInBody(managed) ==
  IF managed = "own" THEN {"user"} \cup (IF oll.mnt THEN {"models"} ELSE {})
  ELSE {}

Probe(s) ==
  /\ OnHost(s) /\ script[s] = "probe"
  /\ \/ /\ oll.unit = "none"
        /\ script' = [script EXCEPT ![s] = "fetch"]
        /\ UNCHANGED oll
     \/ /\ oll.unit # "none"
        /\ oll' = [oll EXCEPT !.mark = ProbeMark]
        /\ script' = [script EXCEPT ![s] = Rendered(ProbeMark)]
  /\ UNCHANGED <<dbVars, hubVars, hostVars, wireVars, mixed, histVars, bounds>>

\* The upstream installer; over a unit installed meanwhile it is an upgrade.
Fetch(s) ==
  /\ OnHost(s) /\ script[s] = "fetch"
  /\ \/ /\ oll' = [oll EXCEPT !.unit = IF @ = "none" THEN "manager" ELSE @]
        /\ script' = [script EXCEPT ![s] = "touch"]
     \/ /\ script' = [script EXCEPT ![s] = Ends(s, "err")]
        /\ UNCHANGED oll
  /\ UNCHANGED <<dbVars, hubVars, hostVars, wireVars, mixed, histVars, bounds>>

Touch(s) ==
  /\ OnHost(s) /\ script[s] = "touch"
  /\ \/ /\ oll' = [oll EXCEPT !.mark = TRUE]
        /\ script' = [script EXCEPT ![s] = Rendered(TRUE)]
     \/ /\ script' = [script EXCEPT ![s] = Ends(s, "err")]
        /\ UNCHANGED oll
  /\ UNCHANGED <<dbVars, hubVars, hostVars, wireVars, mixed, histVars, bounds>>

\* The body is rendered and, if it differs, replaces the whole override, whose
\* ever it was; then Ollama is restarted and its autostart disabled.  A command
\* that fails ends the script, before the replacement or after it.
WriteDropIn(s) ==
  /\ OnHost(s) /\ script[s] \in {"own", "adopt"}
  /\ \/ /\ oll' = [oll EXCEPT !.conf = DropInBody(script[s])]
        /\ \E result \in {"ok", "err"} :
             script' = [script EXCEPT ![s] = Ends(s, result)]
     \/ /\ script' = [script EXCEPT ![s] = Ends(s, "err")]
        /\ UNCHANGED oll
  /\ UNCHANGED <<dbVars, hubVars, hostVars, wireVars, mixed, histVars, bounds>>

\* The shared storage is mounted, or its server is away.
StorageChanges ==
  /\ faults < MaxFaults /\ faults' = faults + 1
  /\ oll' = [oll EXCEPT !.mnt = ~@]
  /\ UNCHANGED <<dbVars, hubVars, hostVars, wireVars, script, mixed, histVars,
                 requests>>

\* install.sh, steps 1 to 4b.
InstallSh ==
  /\ host = "up" /\ ~agent.on /\ script["sh"] = "off"
  /\ Requested
  /\ script' = [script EXCEPT !["sh"] = "probe"]
  /\ mixed' = (mixed \/ \E s \in Scripts : Busy(s))
  /\ UNCHANGED <<dbVars, hubVars, host, agent, doom, wireVars, oll, histVars,
                 faults>>

\* Steps 5 to 8: the agent runs.  A node-id file of an earlier installation
\* would still be read.
InstallAgent ==
  /\ script["sh"] \in {"ok", "err"}
  /\ script' = [script EXCEPT !["sh"] = "off"]
  /\ agent' = IF script["sh"] = "ok"
              THEN [agent EXCEPT !.on = TRUE, !.old = FALSE] ELSE agent
  /\ UNCHANGED <<dbVars, hubVars, host, doom, wireVars, oll, mixed,
                 histVars, bounds>>

\* Onboarding by hand, of an agent of any version: the unit's NODE_ID names a row
\* added by address.
ManualAgent(r) ==
  /\ Live(r) /\ host = "up" /\ agent = NoAgent
  /\ \E v \in BOOLEAN :
       agent' = [NoAgent EXCEPT !.on = TRUE, !.id = r, !.old = v]
  /\ UNCHANGED <<dbVars, hubVars, host, doom, wireVars, ollVars,
                 histVars, bounds>>

-----------------------------------------------------------------------------
(* The agent's connection and registration.                                *)

\* resolveNodeIp: the agent's advertised address, or the socket's; there may be
\* no IPv4 address among them.
ResolveNodeIp == BOOLEAN

\* A registration that refreshes the row and leaves powerState alone.
PowerKept(r, ip) == [row EXCEPT ![r].ip = @ \/ ip]

\* What agent:register writes: the box is back up, and where it is, if known.
Registered(r, ip) == [row EXCEPT ![r].power = "on", ![r].ip = @ \/ ip]

\* agent:register: the socket enters the map before the update, which rejects
\* for a row that is gone; that is logged and the agent is never told.
Register ==
  LET r == agent.id IN
  /\ agent.on /\ host = "up" /\ agent.link = NoRow /\ r # NoRow
  /\ agent' = [agent EXCEPT !.link = r, !.due = TRUE]
  /\ seen' = r
  /\ \E ip \in ResolveNodeIp :
       row' = IF Live(r) THEN Registered(r, ip) ELSE row
  /\ excused' = excused \ {r}
  /\ UNCHANGED <<token, joining, closing, job, bye, host, doom,
                 wireVars, ollVars, stuck, bounds>>

\* agent:register-token: the token is looked up and must be fresh; otherwise
\* the agent is told and its socket closed, and it tries again.
ValidateToken ==
  /\ agent.on /\ host = "up" /\ agent.link = NoRow /\ agent.id = NoRow
  /\ token = "fresh" /\ joining = "none"
  /\ joining' = "open"
  /\ UNCHANGED <<dbVars, seen, closing, job, bye, hostVars, wireVars, ollVars,
                 histVars, bounds>>

\* Some awaits later: the row is created, the token used up, and the id sent on
\* the socket, if that is still there.
JoinNode(r) ==
  /\ joining # "none"
  /\ row[r].st = "unborn"
  /\ \E ip \in ResolveNodeIp :
       row' = [row EXCEPT ![r] = [Unborn EXCEPT
                 !.st = "live", !.prov = "agent-deployed", !.ip = ip]]
  /\ token' = "used"
  /\ joining' = "none"
  /\ IF joining = "open"
     THEN /\ seen' = r
          /\ agent' = [agent EXCEPT !.id = r, !.link = r, !.due = TRUE]
     ELSE UNCHANGED <<seen, agent>>
  /\ UNCHANGED <<closing, job, bye, host, doom, wireVars, ollVars,
                 histVars, bounds>>

\* agent:self-audit, after each registration; the status is overwritten.
SelfAudit ==
  LET r == agent.link IN
  /\ agent.due /\ host = "up"
  /\ agent' = [agent EXCEPT !.due = FALSE]
  /\ row' = IF Live(r) THEN Written(r, "agent-deployed", "report") ELSE row
  /\ stuck' = stuck \ {r}
  /\ UNCHANGED <<token, hubVars, host, doom, wireVars, ollVars,
                 excused, bounds>>

\* The socket is lost; the hub notices later, perhaps after the next one.
LinkLost ==
  /\ closing' = IF agent.link # NoRow THEN agent.link ELSE closing
  /\ joining' = IF joining = "open" THEN "lost" ELSE joining
  /\ cmd' = "none"
  /\ ack' \in {ack, "none"}

Drop ==
  /\ agent.on /\ (agent.link # NoRow \/ joining = "open")
  /\ faults < MaxFaults /\ faults' = faults + 1
  /\ LinkLost
  /\ agent' = Unlinked
  /\ UNCHANGED <<dbVars, seen, job, bye, host, doom, ollVars, histVars,
                 requests>>

\* The close of a socket, or the staleness sweep: the entry goes, whichever
\* socket it holds by then.
HubClose ==
  /\ closing # NoRow
  /\ closing' = NoRow
  /\ seen' = IF seen = closing THEN NoRow ELSE seen
  /\ UNCHANGED <<dbVars, joining, job, bye, hostVars, wireVars, ollVars, histVars,
                 bounds>>

\* agent:metrics puts a connected agent back into the map.
Metrics ==
  /\ agent.link # NoRow /\ host = "up"
  /\ seen # agent.link
  /\ seen' = agent.link
  /\ UNCHANGED <<dbVars, joining, closing, job, bye, hostVars, wireVars, ollVars,
                 histVars, bounds>>

-----------------------------------------------------------------------------
(* Power.                                                                  *)

PowerState(a) == CASE a = "reboot" -> "rebooting"
                   [] a = "sleep" -> "asleep"
                   [] a = "shutdown" -> "off"

\* agentSupportsPower: an older agent would ignore the message.
Supported == ~agent.old

\* The channel POST /:id/power takes.
ByAgent(r) == seen = r /\ Supported

\* POST /:id/power with the agent in the map: the command is sent and the state
\* written in one turn.  A socket that is dead already loses the command.
PowerWs(r, a) ==
  /\ Live(r) /\ ByAgent(r)
  /\ cmd = "none"
  /\ Requested
  /\ cmd' = IF Connected(r) THEN a ELSE "none"
  /\ row' = [row EXCEPT ![r].power = PowerState(a)]
  /\ excused' = excused \ {r}
  /\ UNCHANGED <<token, hubVars, hostVars, ack, ollVars, stuck, faults>>

\* The best-effort MAC capture before a shutdown or a suspend.
MacAfter(r, a) == {row[r].mac, row[r].mac \/ a # "reboot"}

\* Otherwise over SSH.  sshExec resolves whatever the exit code, so a refused
\* command is taken for a success; a rejection is one only when force expects
\* the reset to cut the session, and that is also what a machine looks like that
\* is not there.  Any other rejection is answered with a 502 and writes nothing,
\* whether or not the command ran.  A boot takes longer than the rest of this.
PowerSsh(r, a) ==
  /\ Live(r) /\ ~ByAgent(r)
  /\ row[r].ip
  /\ Requested
  /\ \/ /\ \E mac \in MacAfter(r, a) :
             row' = [row EXCEPT ![r].power = PowerState(a), ![r].mac = mac]
        /\ \/ host = "up" /\ doom' = a /\ excused' = excused \ {r}
           \/ UNCHANGED doom /\ excused' = excused \cup {r}
     \/ /\ \/ host = "up" /\ doom' = a
           \/ UNCHANGED doom
        /\ UNCHANGED <<row, excused>>
  /\ UNCHANGED <<token, hubVars, host, agent, wireVars, ollVars, stuck,
                 faults>>

\* cmd:power at the agent: the MAC is read and the NIC armed, the command is
\* launched in a unit of its own, where it runs a second later, and the launch
\* is what is acknowledged.
CmdPower ==
  /\ cmd # "none" /\ host = "up" /\ ack = "none"
  /\ cmd' = "none"
  /\ \/ doom' = cmd /\ ack' = "ok"
     \/ UNCHANGED doom /\ ack' = "err"
  /\ UNCHANGED <<dbVars, hubVars, host, agent, ollVars, histVars, bounds>>

\* agent:power:accepted stores the MAC; agent:power:error undoes the state.
UndoPower(r) == [row EXCEPT ![r].power = "on"]

PowerAck ==
  LET r == agent.id IN
  /\ ack # "none"
  /\ ack' = "none"
  /\ row' = CASE ~Live(r) -> row
              [] Live(r) /\ ack = "ok" -> [row EXCEPT ![r].mac = TRUE]
              [] Live(r) /\ ack = "err" -> UndoPower(r)
  /\ UNCHANGED <<token, hubVars, hostVars, cmd, ollVars, histVars, bounds>>

\* The script with the power command ignores its exit code (set +e) and nobody
\* waits for it: a suspend that is refused, or a shutdown that is inhibited,
\* leaves the machine up and the row as it is until the next registration.
PowerFails ==
  /\ doom # "none" /\ host = "up"
  /\ doom' = "none"
  /\ excused' = excused \cup ({agent.link} \cap Rows)
  /\ UNCHANGED <<dbVars, hubVars, host, agent, wireVars, ollVars, stuck, bounds>>

\* The machine goes down, and everything on it, an uninstall included; a
\* suspended one keeps its processes and may keep its socket.
PowerDown ==
  /\ doom # "none" /\ host = "up"
  /\ doom' = "none"
  /\ \/ /\ doom = "sleep"
        /\ host' = "asleep"
        /\ excused' = excused \cup ({agent.link} \cap Rows)
        /\ UNCHANGED <<agent, closing, joining, wireVars, script>>
     \/ /\ LinkLost
        /\ host' = CASE doom = "sleep" -> "asleep"
                     [] doom = "reboot" -> "reboot"
                     [] doom = "shutdown" -> "off"
        /\ agent' = [Unlinked EXCEPT !.bye = IF doom = "sleep" THEN @ ELSE "no"]
        /\ script' = [s \in Scripts |->
             IF doom # "sleep" /\ Busy(s) THEN Ends(s, "err") ELSE script[s]]
        /\ UNCHANGED excused
  /\ UNCHANGED <<dbVars, seen, job, bye, oll, mixed, stuck, bounds>>

\* The machine comes up: by itself after a reboot, by hand or a magic packet.
PowerUp ==
  /\ host # "up"
  /\ host' = "up"
  /\ UNCHANGED <<dbVars, hubVars, agent, doom, wireVars, ollVars,
                 histVars, bounds>>

\* sendMagicPacket needs the MAC, and the address for the directed broadcast.
MagicPacket(r) == row[r].mac /\ row[r].ip

\* POST /:id/wake; nothing looks at whether the machine is up.
Wake(r) ==
  /\ Live(r) /\ MagicPacket(r)
  /\ Requested
  /\ row' = [row EXCEPT ![r].power = "waking"]
  /\ excused' = IF Connected(r) THEN excused \cup {r} ELSE excused
  /\ UNCHANGED <<token, hubVars, hostVars, wireVars, ollVars, stuck, faults>>

-----------------------------------------------------------------------------
(* Offboarding.                                                            *)

\* DELETE /:id.  With force, or an agent not in the map, the records go at
\* once; otherwise the agent is told to uninstall itself and watched.
DeleteNode(r) ==
  /\ Live(r) /\ bye[r] = "off"
  /\ Requested
  /\ \/ bye' = [bye EXCEPT ![r] = "delete"] /\ UNCHANGED agent
     \/ /\ seen = r
        /\ bye' = [bye EXCEPT ![r] = "wait"]
        /\ agent' = IF Connected(r) /\ agent.bye = "no"
                    THEN [agent EXCEPT !.bye = "told"] ELSE agent
  /\ UNCHANGED <<dbVars, joining, seen, closing, job, host, doom, wireVars, ollVars,
                 histVars, faults>>

\* cmd:deprovision: the uninstall script is started, or not, and the socket
\* closed; until the script stops it the agent goes on and connects again.
CmdDeprovision ==
  /\ agent.bye = "told" /\ host = "up"
  /\ \/ agent' = [Unlinked EXCEPT !.bye = "begun"] /\ LinkLost
     \/ /\ agent' = [agent EXCEPT !.bye = "no"]
        /\ UNCHANGED <<closing, joining, wireVars>>
  /\ UNCHANGED <<dbVars, seen, job, bye, host, doom, ollVars, histVars, bounds>>

\* The script stops the agent and removes its files.
AgentLeaves ==
  /\ agent.bye = "begun" /\ host = "up"
  /\ LinkLost
  /\ agent' = NoAgent
  /\ UNCHANGED <<dbVars, seen, job, bye, host, doom, ollVars, histVars, bounds>>

\* The poll sees the agent leave, or the deadline passes and nothing is deleted.
DeleteWait(r) ==
  /\ bye[r] = "wait"
  /\ \/ seen # r /\ bye' = [bye EXCEPT ![r] = "delete"]
     \/ seen = r /\ bye' = [bye EXCEPT ![r] = "off"]
  /\ UNCHANGED <<dbVars, joining, seen, closing, job, hostVars, wireVars, ollVars,
                 histVars, bounds>>

\* deleteNodeRecords: what refers to the row, then the row.
DeleteNodeRecords(r) ==
  /\ bye[r] = "delete"
  /\ bye' = [bye EXCEPT ![r] = "off"]
  /\ row' = [row EXCEPT ![r] = [Unborn EXCEPT !.st = "gone"]]
  /\ excused' = excused \ {r}
  /\ stuck' = stuck \ {r}
  /\ UNCHANGED <<token, joining, seen, closing, job, hostVars, wireVars, ollVars,
                 bounds>>

-----------------------------------------------------------------------------
Next ==
  \/ \E r \in Rows :
       PostNode(r) \/ ManualAgent(r) \/ Provision(r) \/ JoinNode(r)
       \/ Wake(r) \/ DeleteNode(r) \/ DeleteWait(r) \/ DeleteNodeRecords(r)
  \/ \E r \in Rows, a \in Actions : PowerWs(r, a) \/ PowerSsh(r, a)
  \/ \E j \in Jobs :
       AuditNode(j) \/ AuditWrite(j) \/ InstallItem(j) \/ OllamaDone(j)
       \/ ProvisionWrite(j) \/ ProvisionFails(j)
  \/ \E s \in Scripts :
       Probe(s) \/ Fetch(s) \/ Touch(s) \/ WriteDropIn(s)
  \/ InstallSh \/ InstallAgent \/ StorageChanges
  \/ CreateToken \/ TokenDies \/ ValidateToken \/ Register \/ SelfAudit
  \/ Drop \/ HubClose \/ Metrics \/ ManagerRestart
  \/ CmdPower \/ PowerAck \/ PowerFails \/ PowerDown \/ PowerUp
  \/ CmdDeprovision \/ AgentLeaves

Spec == Init /\ [][Next]_vars

-----------------------------------------------------------------------------
\* A node whose agent is connected is shown as going down or coming up only
\* while a power command for it is still on its way, its refusal is, or the
\* machine is about to run it: whatever is lost, and however often the machine
\* and the socket come and go, a registration or an error report puts "on"
\* back.  The exceptions no event corrects are in excused: a command sshd
\* refused, one the agent launched and acknowledged that then failed, a wake of
\* a running machine, a suspend its socket outlived.
PowerHonest == \A r \in Rows :
  (Live(r) /\ Connected(r) /\ row[r].power # "on" /\ r \notin excused)
    => cmd # "none" \/ doom # "none" \/ ack = "err"

\* A row says "provisioning" only while a job is still going to write it: no
\* order of audits, self-audits, failures and deletions leaves it behind, except
\* that of a manager that ended with the job, and a request that is refused for
\* want of an address when the status has been written already (stuck).
ProvisioningIsLive == \A r \in Rows :
  (Live(r) /\ row[r].prov = "provisioning" /\ r \notin stuck)
    => \E j \in Jobs : job[j].row = r /\ job[j].kind = "prov"

\* "A pre-existing Ollama is adopted, not appropriated": the lines that say whose
\* an Ollama is and where its models are go only into an override of one the
\* manager installed, or of one whose own override had such a line, which the
\* probe cannot tell from the manager's.  And dropping them "would restart Ollama
\* onto a different model store": User= is never taken out again, OLLAMA_MODELS=
\* only by a run that finds the storage unmounted.  Across re-runs by provisioning
\* and install.sh, commands that fail, sessions cut at any point and reboots
\* (while no two runs overlap).
OllamaOwnership ==
  [][oll'.conf # oll.conf /\ ~mixed =>
       /\ Claimed(oll') => oll'.unit = "manager" \/ Claimed(oll)
       /\ "user" \in oll.conf => "user" \in oll'.conf
       /\ "models" \in oll.conf => "models" \in oll'.conf \/ ~oll.mnt]_vars
=============================================================================
