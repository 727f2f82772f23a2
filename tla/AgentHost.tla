----------------------------- MODULE AgentHost -----------------------------
(***************************************************************************)
(* One machine and the dgx-agent installed on it: install.sh, the agent's  *)
(* process and its connection, the detached self-updater with its swap,    *)
(* health check and rollback, the uninstall script, reboots, and the       *)
(* iptables rules the agent puts in front of Ollama.                       *)
(*                                                                         *)
(* A directory under /opt is what is in it: a version, whether the agent   *)
(* in it starts and connects, and whether it holds the node-id file.  Each *)
(* process is synchronous within a step; the others run in between.  The   *)
(* updater is spawned inside dgx-agent.service's control group, so what    *)
(* `systemctl restart` does to it depends on the unit's KillMode: the unit *)
(* install.sh writes has none, which means control-group; the code after   *)
(* the restart is written for a unit that spares it (process).             *)
(*                                                                         *)
(* Sources: packages/agent/src/{updater,update-launch,firewall,self-audit} *)
(* .ts, connect() and the cmd:update and cmd:deprovision handlers of       *)
(* packages/agent/src/index.ts, and install.sh as generated by             *)
(* packages/server/src/routes/agent-bundle.ts.                             *)
(***************************************************************************)
EXTENDS Naturals

CONSTANTS
  Updaters,     \* bound: the updaters ever spawned
  Shipped,      \* the bundles install.sh may fetch: [ver, works]
  Bundles,      \* the bundles an update may fetch
  KillModes,    \* the units considered
  MaxInstalls,  \* bound: runs of install.sh
  MaxFaults     \* bound: sockets lost, agents that exit, reboots

ASSUME HostAssumption ==
  /\ \A b \in Shipped \cup Bundles : b.ver \in {1, 2} /\ b.works \in BOOLEAN
  /\ KillModes \subseteq {"control-group", "process"} /\ KillModes # {}
  /\ MaxInstalls \in Nat /\ MaxFaults \in Nat

\* The version every cmd:update asks for (getExpectedAgentVersion).
Target == 2

\* /opt/dgx-agent, -old and -new; -failed is written and never read.
Dirs == {"cur", "old", "new"}

Nothing == [ver |-> 0, works |-> FALSE, id |-> FALSE]

Families == {"v4", "v6"}

Ended(at) == [at |-> at, bundle |-> Nothing, base |-> Nothing, fresh |-> FALSE]

Unapplied == [v4 |-> "pending", v6 |-> "pending", busy |-> FALSE]

Final(s) == s.v4 # "pending" /\ s.v6 # "pending"

\* The stages of runUpdate, atomicSwap and atomicRollback.
Swapping == {"download", "extract", "verify", "rmOld", "mvCur", "mvNew"}
Watching == {"restart", "stamp", "poll"}
Undoing == {"rbRm", "rbStash", "rbRestore", "rbRestart"}
Alive == Swapping \cup Watching \cup Undoing

VARIABLES
  dir,       \* the directories
  unit,      \* dgx-agent.service is installed and enabled
  killMode,  \* its KillMode
  proc,      \* the agent: down, boot (not connected), link (registering), set
  nid,       \* the process knows its node id
  token,     \* the unit's JOIN_TOKEN: none, fresh, used
  lock,      \* /run/dgx-agent/updating
  result,    \* /run/dgx-agent/update-result.json: its outcome, unrestored for a failed
             \* one whose error says so, or none
  upd,       \* per updater: at, its stage, or idle, off, cut; bundle; fresh, the
             \* marker is newer than restartMs; history: base, what it found in cur
  script,    \* install.sh: off, or files (the bundle is unpacked)
  bye,       \* dgx-deprovision.sh: off, stop, unit, dirs
  rules,     \* the kernel's, per family: none, partial, complete
  fw,        \* the process's firewall state: per family, and a family under way
  audit,     \* the firewall check in the node's row
  mixed,     \* history: updaters, install.sh or the uninstall overlapped
  known,     \* history: the node id was stored by this installation
  installs, faults

hostVars == <<dir, unit, killMode, proc, nid, token>>
runVars == <<lock, result, upd>>
scriptVars == <<script, bye>>
fwVars == <<rules, fw, audit>>
histVars == <<mixed, known>>
bounds == <<installs, faults>>
vars == <<hostVars, runVars, scriptVars, fwVars, histVars, bounds>>

Running == {u \in Updaters : upd[u].at \in Alive}

Init ==
  /\ dir = [d \in Dirs |-> Nothing]
  /\ unit = FALSE
  /\ killMode \in KillModes
  /\ proc = "down" /\ nid = FALSE /\ token = "none"
  /\ lock = FALSE /\ result = "none"
  /\ upd = [u \in Updaters |-> Ended("idle")]
  /\ script = "off" /\ bye = "off"
  /\ rules = [f \in Families |-> "none"]
  /\ fw = Unapplied
  /\ audit = "none"
  /\ mixed = FALSE /\ known = FALSE
  /\ installs = 0 /\ faults = 0

-----------------------------------------------------------------------------
(* install.sh, steps 5 to 8.                                               *)

\* The bundle is unpacked over whatever is there; tar removes nothing, so a
\* node-id file stays.  tar may stop half way, which ends the script (set -e).
InstallFiles(b) ==
  /\ script = "off" /\ bye = "off"
  /\ installs < MaxInstalls
  /\ installs' = installs + 1
  /\ \/ /\ dir' = [dir EXCEPT !["cur"] =
                     [ver |-> b.ver, works |-> b.works, id |-> @.id]]
        /\ script' = "files"
     \/ /\ dir' = [dir EXCEPT !["cur"].works = FALSE]
        /\ script' = "off"
  /\ known' = (known /\ dir["cur"] # Nothing)
  /\ mixed' = (mixed \/ Running # {})
  /\ UNCHANGED <<unit, killMode, proc, nid, token, runVars, bye, fwVars, faults>>

\* What stopping dgx-agent.service ends: the agent, and in control-group mode
\* every updater it ever spawned.
KilledWith == [u \in Updaters |->
  IF killMode = "control-group" /\ u \in Running
  THEN Ended("cut") ELSE upd[u]]

\* The process is gone, and what it knew with it.
Down == proc' = "down" /\ nid' = FALSE /\ fw' = Unapplied

\* The unit is written with the token given, enabled and restarted.
InstallUnit ==
  /\ script = "files"
  /\ script' = "off"
  /\ unit' = TRUE
  /\ token' = "fresh"
  /\ Down
  /\ upd' = KilledWith
  /\ mixed' = (mixed \/ Running # {})
  /\ UNCHANGED <<dir, killMode, lock, result, bye, rules, audit, known,
                 bounds>>

-----------------------------------------------------------------------------
(* The agent's process and its connection.                                 *)

\* systemd starts it, again and again (Restart=always); an agent that does not
\* work exits or never connects.  resolveNodeId reads the file; the firewall
\* apply starts, fire and forget.
AgentStart ==
  /\ unit /\ proc = "down"
  /\ dir["cur"].works
  /\ proc' = "boot"
  /\ nid' = dir["cur"].id
  /\ UNCHANGED <<dir, unit, killMode, token, runVars, scriptVars, fwVars,
                 histVars, bounds>>

\* The process exits; with control-group systemd clears the rest of the group.
AgentExit ==
  /\ proc # "down"
  /\ faults < MaxFaults
  /\ faults' = faults + 1
  /\ Down
  /\ upd' = KilledWith
  /\ UNCHANGED <<dir, unit, killMode, token, lock, result, scriptVars, rules,
                 audit, histVars, installs>>

\* ws "open": the marker is touched, the lock removed whoever holds it, and a
\* result that is not a success reported; the file goes either way.
Open ==
  /\ proc = "boot"
  /\ proc' = "link"
  /\ upd' = [u \in Updaters |-> [upd[u] EXCEPT !.fresh = upd[u].at = "poll"]]
  /\ lock' = FALSE
  /\ result' = "none"
  /\ UNCHANGED <<dir, unit, killMode, nid, token, scriptVars, fwVars, histVars,
                 bounds>>

\* The check on a firewall state: a v6 failure alone exposes nothing.
FirewallAuditCheck(s) ==
  CASE s.v4 = "applied" /\ s.v6 = "applied" -> "green"
    [] Final(s) /\ s.v4 = "failed" -> "red"
    [] OTHER -> "yellow"

\* The part of selfAudit's report that changes: its firewall check; the others
\* (drivers, docker, mounts) look at the machine as it is.
SelfAudit(s) == FirewallAuditCheck(s)

\* agent:register by node id, then postRegistrationSetup with its self-audit.
RegisterById ==
  /\ proc = "link" /\ nid
  /\ proc' = "set"
  /\ audit' = SelfAudit(fw)
  /\ UNCHANGED <<dir, unit, killMode, nid, token, runVars, scriptVars, rules,
                 fw, histVars, bounds>>

\* agent:register-token: accepted, and the id written where the process was
\* started from, if that still exists.
RegisterByToken ==
  /\ proc = "link" /\ ~nid /\ token = "fresh"
  /\ token' = "used"
  /\ nid' = TRUE
  /\ proc' = "set"
  /\ audit' = SelfAudit(fw)
  /\ \/ /\ dir["cur"] # Nothing
        /\ dir' = [dir EXCEPT !["cur"].id = TRUE]
        /\ known' = TRUE
     \/ UNCHANGED <<dir, known>>                 \* the write failed, logged
  /\ UNCHANGED <<unit, killMode, runVars, scriptVars, rules, fw, mixed,
                 bounds>>

\* The server has used up the token and the socket is lost before
\* register:accepted arrives: the agent will offer a used token from now on.
AcceptLost ==
  /\ proc = "link" /\ ~nid /\ token = "fresh"
  /\ faults < MaxFaults
  /\ faults' = faults + 1
  /\ token' = "used"
  /\ proc' = "boot"
  /\ UNCHANGED <<dir, unit, killMode, nid, runVars, scriptVars, fwVars, histVars,
                 installs>>

\* register:rejected: the token was used before; the agent closes and will
\* connect again.
Rejected ==
  /\ proc = "link" /\ ~nid /\ token # "fresh"
  /\ proc' = "boot"
  /\ UNCHANGED <<dir, unit, killMode, nid, token, runVars, scriptVars, fwVars,
                 histVars, bounds>>

\* The socket closes; connect() runs again after a delay.
Drop ==
  /\ proc \in {"link", "set"}
  /\ faults < MaxFaults
  /\ faults' = faults + 1
  /\ proc' = "boot"
  /\ UNCHANGED <<dir, unit, killMode, nid, token, runVars, scriptVars, fwVars,
                 histVars, installs>>

\* /run and the iptables rules do not survive a reboot; the machine comes up
\* with the unit enabled or without it.
Reboot ==
  /\ faults < MaxFaults
  /\ faults' = faults + 1
  /\ Down
  /\ lock' = FALSE /\ result' = "none"
  /\ upd' = [u \in Updaters |-> IF u \in Running
                                THEN Ended("cut") ELSE upd[u]]
  /\ script' = "off"
  /\ bye' = IF bye \in {"stop", "unit", "dirs"} THEN "cut" ELSE bye
  /\ rules' = [f \in Families |-> "none"]
  /\ UNCHANGED <<dir, unit, killMode, token, audit, histVars, installs>>

-----------------------------------------------------------------------------
(* cmd:update and the detached updater.                                    *)

\* POST /:id/update-agent: to an agent that is online.
UpdateAgent == proc = "set"

\* planAgentUpdate, for this node: its agent is online, and the version it
\* registered with is not the target, unless forced.
PlanAgentUpdate(version, force) ==
  proc = "set" /\ (force \/ version # Target)

\* POST /update-agent-all sends the same command to the nodes of the plan.
UpdateAgentAll ==
  \E version \in {1, 2}, force \in BOOLEAN : PlanAgentUpdate(version, force)

Dispatched == UpdateAgent \/ UpdateAgentAll

\* launchUpdater: the lock, a copy of the updater, a detached process.  When
\* the copy fails the handler throws and the lock stays.
LaunchUpdater(u, b) ==
  /\ ~lock /\ lock' = TRUE
  /\ \/ /\ upd' = [upd EXCEPT ![u] = [at |-> "download", bundle |-> b,
                                        base |-> dir["cur"], fresh |-> FALSE]]
        /\ mixed' = (mixed \/ Running # {} \/ script # "off" \/ bye # "off")
     \/ UNCHANGED <<upd, mixed>>

\* cmd:update; one that finds the lock is ignored.
CmdUpdate(u, b) ==
  /\ Dispatched
  /\ upd[u].at = "idle"
  /\ LaunchUpdater(u, b)
  /\ UNCHANGED <<hostVars, result, scriptVars, fwVars, known, bounds>>

Goto(u, at) == upd' = [upd EXCEPT ![u].at = at] /\ UNCHANGED <<lock, result>>

\* writeResult, and releaseLock when runUpdate is over.
End(u, outcome) ==
  /\ upd' = [upd EXCEPT ![u] = Ended("off")]
  /\ result' = outcome
  /\ lock' = FALSE

UpdFrame == UNCHANGED <<unit, killMode, token, scriptVars, rules, audit,
                        mixed, known, bounds>>

\* GET /api/agent/bundle: the bundle of the manager that runs, or an error.
GetBundle(u) == Goto(u, "extract") \/ End(u, "failed")

\* curl, then rm, mkdir and tar; a failure leaves the agent alone.
Download(u) ==
  /\ upd[u].at = "download"
  /\ GetBundle(u)
  /\ UNCHANGED <<dir, proc, nid, fw>> /\ UpdFrame

Extract(u) ==
  /\ upd[u].at = "extract"
  /\ LET b == upd[u].bundle IN
       \/ /\ dir' = [dir EXCEPT !["new"] =
                       [ver |-> b.ver, works |-> b.works, id |-> FALSE]]
          /\ Goto(u, "verify")
       \/ /\ dir' = [dir EXCEPT !["new"] = Nothing]
          /\ End(u, "failed")
  /\ UNCHANGED <<proc, nid, fw>> /\ UpdFrame

\* A new directory that starts without the node-id file.
NotPreserved == FALSE

\* preserveNodeId: the new directory gets the file when there is one.
Preserved == dir["cur"].id

\* verifyExtractedBundle looks at the version only.
Verify(u) ==
  /\ upd[u].at = "verify"
  /\ \/ /\ dir["new"].ver = Target
        /\ dir' = [dir EXCEPT !["new"].id = Preserved]
        /\ Goto(u, "rmOld")
     \/ UNCHANGED dir /\ End(u, "failed")    \* another version, or cp failed
  /\ UNCHANGED <<proc, nid, fw>> /\ UpdFrame

\* atomicSwap, one command after the other.  Nothing is moved before mvCur.
RemoveOld(u) ==
  /\ upd[u].at = "rmOld"
  /\ \/ dir' = [dir EXCEPT !["old"] = Nothing] /\ Goto(u, "mvCur")
     \/ UNCHANGED dir /\ End(u, "failed")
  /\ UNCHANGED <<proc, nid, fw>> /\ UpdFrame

Moved(from, to) == [dir EXCEPT ![to] = dir[from], ![from] = Nothing]

MoveCurrent(u) ==
  /\ upd[u].at = "mvCur"
  /\ \/ dir["cur"] # Nothing /\ dir' = Moved("cur", "old") /\ Goto(u, "mvNew")
     \/ UNCHANGED dir /\ End(u, "failed")
  /\ UNCHANGED <<proc, nid, fw>> /\ UpdFrame

\* The previous agent goes back when the new one cannot be moved in.
Restored == Moved("old", "cur")

\* When that fails too the outcome written is failed like any other, and the log
\* calls the agent untouched; only the error text in the result says that the
\* directory may be missing.  That text is what "unrestored" stands for.
MoveNew(u) ==
  /\ upd[u].at = "mvNew"
  /\ \/ dir["new"] # Nothing /\ dir' = Moved("new", "cur") /\ Goto(u, "restart")
     \/ dir["old"] # Nothing /\ dir' = Restored /\ End(u, "failed")
     \/ UNCHANGED dir /\ End(u, "unrestored")
  /\ UNCHANGED <<proc, nid, fw>> /\ UpdFrame

\* systemctl restart dgx-agent: in control-group mode the updater is among what
\* is stopped, before its next line.
SystemctlRestart(u, next) ==
  /\ unit
  /\ Down
  /\ IF killMode = "control-group"
     THEN upd' = KilledWith /\ UNCHANGED <<lock, result>>
     ELSE next

Restart(u) ==
  /\ upd[u].at = "restart"
  /\ \/ SystemctlRestart(u, Goto(u, "stamp"))
     \/ UNCHANGED <<proc, nid, fw>> /\ Goto(u, "rbRm")      \* the command failed
  /\ UNCHANGED dir /\ UpdFrame

\* restartMs is taken after the restart returned.
Stamp(u) ==
  /\ upd[u].at = "stamp"
  /\ upd' = [upd EXCEPT ![u].at = "poll", ![u].fresh = FALSE]
  /\ UNCHANGED <<lock, result, dir, proc, nid, fw>> /\ UpdFrame

\* A health check that takes a marker of any age.
AnyMarker(u) == TRUE

\* The marker has been touched since the restart.
HealthCheckPasses(u) == upd[u].fresh

\* A poll sees the marker of a connection made since, or the window is over.
Poll(u) ==
  /\ upd[u].at = "poll"
  /\ \/ HealthCheckPasses(u) /\ End(u, "success")
     \/ ~HealthCheckPasses(u) /\ Goto(u, "rbRm")
  /\ UNCHANGED <<dir, proc, nid, fw>> /\ UpdFrame

\* atomicRollback; any of its commands may fail.
RollbackStep(u) ==
  /\ \/ /\ upd[u].at = "rbRm"
        /\ Goto(u, "rbStash") /\ UNCHANGED <<dir, proc, nid, fw>>
     \/ /\ upd[u].at = "rbStash" /\ dir["cur"] # Nothing
        /\ dir' = [dir EXCEPT !["cur"] = Nothing]
        /\ Goto(u, "rbRestore") /\ UNCHANGED <<proc, nid, fw>>
     \/ /\ upd[u].at = "rbRestore" /\ dir["old"] # Nothing
        /\ dir' = Moved("old", "cur")
        /\ Goto(u, "rbRestart") /\ UNCHANGED <<proc, nid, fw>>
     \/ /\ upd[u].at = "rbRestart"
        /\ SystemctlRestart(u, End(u, "rolled-back"))
        /\ UNCHANGED dir
     \/ /\ upd[u].at \in Undoing
        /\ End(u, "rollback-failed") /\ UNCHANGED <<dir, proc, nid, fw>>
  /\ UpdFrame

-----------------------------------------------------------------------------
(* cmd:deprovision: dgx-deprovision.sh in a transient unit of its own.     *)

CmdDeprovision ==
  /\ proc = "set" /\ bye \in {"off", "done", "cut"}
  /\ bye' = "stop"
  /\ proc' = "boot"                           \* ws.close(); it will reconnect
  /\ mixed' = (mixed \/ Running # {} \/ script # "off")
  /\ UNCHANGED <<dir, unit, killMode, nid, token, runVars, script, fwVars,
                 known, bounds>>

DeprovisionStop ==
  /\ bye = "stop"
  /\ bye' = "unit"
  /\ Down
  /\ upd' = KilledWith
  /\ UNCHANGED <<dir, unit, killMode, token, lock, result, script, rules,
                 audit, histVars, bounds>>

DeprovisionUnit ==
  /\ bye = "unit"
  /\ bye' = "dirs"
  /\ unit' = FALSE /\ token' = "none"
  /\ UNCHANGED <<dir, killMode, proc, nid, runVars, script, fwVars, histVars,
                 bounds>>

\* The rm names every directory but -failed.
DeprovisionDirs ==
  /\ bye = "dirs"
  /\ bye' = "done"
  /\ dir' = [d \in Dirs |-> Nothing]
  /\ known' = FALSE
  /\ UNCHANGED <<unit, killMode, proc, nid, token, runVars, script, fwVars,
                 mixed, bounds>>

-----------------------------------------------------------------------------
(* applyOllamaFirewall, at every start of the process: IPv4, then IPv6.    *)

\* The family under way, while fw.busy or about to begin.
Family == IF fw.v4 = "pending" THEN "v4" ELSE "v6"

FwFrame == UNCHANGED <<hostVars, runVars, scriptVars, histVars, bounds>>

\* An apply that ends without a self-audit.
FinishedSilently(s) == audit

\* sendSelfAudit: nothing goes out while there is no connection.
SendSelfAudit(s) == IF proc = "set" THEN SelfAudit(s) ELSE audit

\* The .finally of the apply: another self-audit.
AuditAfter(s) == IF Final(s) THEN SendSelfAudit(s) ELSE audit

\* The host in MANAGER_URL cannot be used in a rule (assertHostLike).
FirewallNoHost ==
  /\ proc # "down" /\ fw.v4 = "pending" /\ ~fw.busy
  /\ fw' = [v4 |-> "failed", v6 |-> "failed", busy |-> FALSE]
  /\ audit' = AuditAfter(fw')
  /\ UNCHANGED rules /\ FwFrame

\* -N, which may be refused, and -F: from here to the last command the chain is
\* not complete, also when a previous process had completed it.
FirewallFlush ==
  /\ proc # "down" /\ ~Final(fw) /\ ~fw.busy
  /\ fw' = [fw EXCEPT !.busy = TRUE]
  /\ rules' = [rules EXCEPT ![Family] = "partial"]
  /\ UNCHANGED audit /\ FwFrame

\* applyFamily's answer when a command that must succeed does not.
AfterError == "failed"

\* The ACCEPT rules, DROP and, unless -C finds it, the jump: all of them, or up
\* to the first that fails.
FirewallFinish ==
  /\ proc # "down" /\ fw.busy
  /\ \E ok \in BOOLEAN :
       /\ fw' = [fw EXCEPT ![Family] = IF ok THEN "applied" ELSE AfterError,
                           !.busy = FALSE]
       /\ rules' = [rules EXCEPT ![Family] = IF ok THEN "complete" ELSE @]
  /\ audit' = AuditAfter(fw')
  /\ FwFrame

\* The first command that must succeed is refused: nothing was flushed.
FirewallRefused ==
  /\ proc # "down" /\ ~Final(fw) /\ ~fw.busy
  /\ fw' = [fw EXCEPT ![Family] = AfterError]
  /\ audit' = AuditAfter(fw')
  /\ UNCHANGED rules /\ FwFrame

-----------------------------------------------------------------------------

UpdaterStep(u) ==
  \/ Download(u) \/ Extract(u) \/ Verify(u)
  \/ RemoveOld(u) \/ MoveCurrent(u) \/ MoveNew(u)
  \/ Restart(u) \/ Stamp(u) \/ Poll(u) \/ RollbackStep(u)

Next ==
  \/ \E b \in Shipped : InstallFiles(b)
  \/ InstallUnit
  \/ AgentStart \/ AgentExit
  \/ Open \/ RegisterById \/ RegisterByToken \/ AcceptLost
  \/ Rejected \/ Drop
  \/ Reboot
  \/ \E u \in Updaters, b \in Bundles : CmdUpdate(u, b)
  \/ \E u \in Updaters : UpdaterStep(u)
  \/ CmdDeprovision \/ DeprovisionStop \/ DeprovisionUnit \/ DeprovisionDirs
  \/ FirewallNoHost \/ FirewallFlush \/ FirewallFinish \/ FirewallRefused

Spec == Init /\ [][Next]_vars

-----------------------------------------------------------------------------
(* Properties.                                                             *)

\* The outcome an updater writes is true: after success the agent in place is
\* one that has connected since the restart; after failed or rolled-back it is
\* the one the update found, node-id and all (updater.ts: "never left without
\* one").  Two outcomes make no such promise, rollback-failed and the failed
\* swap that could not be undone either: they may leave no agent in place, but
\* then the one the update found is whole in the -old directory.  Assumes that
\* nothing else touched the directories meanwhile.
OutcomeTrue ==
  [][\A u \in Updaters : u \in Running /\ upd'[u].at = "off" /\ ~mixed' =>
       /\ result' = "success" => dir'["cur"].ver = Target /\ dir'["cur"].works
       /\ result' \in {"failed", "rolled-back"} => dir'["cur"] = upd[u].base
       /\ result' \in {"unrestored", "rollback-failed"} =>
            upd[u].base \in {dir'["cur"], dir'["old"]}]_vars

\* A machine that has once stored its node id never runs an agent that does not
\* know it: the token is used up, so such an agent could never register again.
\* Holds across updates, rollbacks, reinstallations and reboots at any moment.
IdentityKept == known /\ ~mixed /\ proc # "down" => nid

\* Once the apply is over, what the manager was told by a connected agent is the
\* firewall's final state, whichever of the two finished first; and a green
\* check means that the rules are in place for both families.
AuditHonest ==
  proc = "set" /\ Final(fw) =>
    /\ audit = FirewallAuditCheck(fw)
    /\ audit = "green" => \A f \in Families : rules[f] = "complete"

=============================================================================
