-------------------------- MODULE AgentHost_proofs --------------------------
(***************************************************************************)
(* Machine-checked proofs about AgentHost, for any number of updaters,     *)
(* installations and faults, any bundles and either KillMode.              *)
(***************************************************************************)
EXTENDS AgentHost, TLAPS

Directory == [ver : {0, 1, 2}, works : BOOLEAN, id : BOOLEAN]

Updater == [at : Alive \cup {"idle", "off", "cut"}, bundle : Bundles \cup {Nothing},
            base : Directory, fresh : BOOLEAN]

FamilyStates == {"pending", "applied", "failed"}

FwState == [v4 : FamilyStates, v6 : FamilyStates, busy : BOOLEAN]

\* Every variable has its shape.
TypeOK ==
  /\ dir \in [Dirs -> Directory]
  /\ unit \in BOOLEAN
  /\ killMode \in KillModes
  /\ proc \in {"down", "boot", "link", "set"}
  /\ nid \in BOOLEAN
  /\ token \in {"none", "fresh", "used"}
  /\ lock \in BOOLEAN
  /\ result \in {"none", "success", "failed", "unrestored", "rolled-back",
                 "rollback-failed"}
  /\ upd \in [Updaters -> Updater]
  /\ script \in {"off", "files"}
  /\ bye \in {"off", "stop", "unit", "dirs", "done", "cut"}
  /\ rules \in [Families -> {"none", "partial", "complete"}]
  /\ fw \in FwState
  /\ audit \in {"none", "green", "yellow", "red"}
  /\ mixed \in BOOLEAN /\ known \in BOOLEAN
  /\ installs \in Nat /\ faults \in Nat

\* Where updater u is, seen from the directories: what it found is in cur until
\* it is moved to old, and the new agent keeps its identity.
Progress(u) ==
  LET at == upd[u].at
      base == upd[u].base
  IN  /\ at \in Swapping \ {"mvNew"} => dir["cur"] = base
      /\ at \in {"rmOld", "mvCur", "mvNew"}
           => dir["new"].ver = Target /\ dir["new"].id = base.id
      /\ at \in {"mvNew"} \cup Watching \cup Undoing => base # Nothing
      /\ at \in {"mvNew"} \cup Watching \cup (Undoing \ {"rbRestart"})
           => dir["old"] = base
      /\ at \in Watching \cup {"rbRm", "rbStash"}
           => dir["cur"].ver = Target /\ dir["cur"].id = base.id
      /\ at \in {"mvNew", "rbRestore"} => dir["cur"] = Nothing
      /\ at = "rbRestart" => dir["cur"] = base
      /\ at \in {"stamp", "poll"} /\ proc # "down" => dir["cur"].works
      /\ at = "poll" /\ upd[u].fresh => dir["cur"].works
      /\ token = "fresh" \/ known => base = Nothing \/ base.id

\* No two updaters, and none beside install.sh or the uninstall.
Alone ==
  /\ \A u, v \in Running : u = v
  /\ Running # {} => script = "off" /\ bye = "off"

\* The node id is in the directory when it was stored, and when the process has
\* it and the token is unused, that is, has it from there.
Identity ==
  /\ known /\ dir["cur"] # Nothing => dir["cur"].id
  /\ nid /\ token = "fresh" /\ script = "off" /\ dir["cur"] # Nothing
       => dir["cur"].id
  /\ known /\ proc # "down" => nid

\* The inductive invariant.
HostInv ==
  /\ proc = "set" => nid
  /\ ~mixed => Alone /\ Identity /\ \A u \in Running : Progress(u)

USE DEF hostVars, runVars, scriptVars, fwVars, histVars, bounds

-----------------------------------------------------------------------------
(* Types.                                                                  *)

\* The updater's record when it is over, and the stopped service's updaters.
LEMMA EndedType ==
  ASSUME NEW at \in {"idle", "off", "cut"}
  PROVE  Ended(at) \in Updater
BY DEF Ended, Updater, Nothing, Directory

\* The kill of the control group leaves records of updaters.
LEMMA KilledType ==
  ASSUME upd \in [Updaters -> Updater]
  PROVE  KilledWith \in [Updaters -> Updater]
BY EndedType DEF KilledWith

\* A directory's contents replaced, or one field of them.
LEMMA EditType ==
  ASSUME dir \in [Dirs -> Directory], NEW d \in Dirs, NEW x \in Directory,
         NEW b \in BOOLEAN
  PROVE  /\ [dir EXCEPT ![d] = x] \in [Dirs -> Directory]
         /\ [dir EXCEPT ![d].works = b] \in [Dirs -> Directory]
         /\ [dir EXCEPT ![d].id = b] \in [Dirs -> Directory]
<1>1. /\ [dir[d] EXCEPT !.works = b] \in Directory
      /\ [dir[d] EXCEPT !.id = b] \in Directory
  BY DEF Directory
<1> QED BY <1>1

\* The missing directory.
LEMMA NothingType == Nothing \in Directory
BY DEF Nothing, Directory

\* The bundles are directories without a node id.
LEMMA BundleType ==
  ASSUME NEW b \in Shipped \cup Bundles \cup {Nothing}, NEW i \in BOOLEAN
  PROVE  [ver |-> b.ver, works |-> b.works, id |-> i] \in Directory
<1>1. CASE b = Nothing
  BY <1>1 DEF Directory, Nothing
<1>2. CASE b \in Shipped \cup Bundles
  <2>1. b.ver \in {1, 2} /\ b.works \in BOOLEAN
    BY <1>2, HostAssumption DEF HostAssumption
  <2> QED BY <2>1 DEF Directory
<1> QED BY <1>1, <1>2

\* The stopped process.
LEMMA DownType ==
  ASSUME Down
  PROVE  proc' = "down" /\ nid' = FALSE /\ fw' \in FwState
BY DEF Down, Unapplied, FwState, FamilyStates

\* One directory moved over another.
LEMMA MovedType ==
  ASSUME dir \in [Dirs -> Directory], NEW from \in Dirs, NEW to \in Dirs
  PROVE  Moved(from, to) \in [Dirs -> Directory]
<1>1. Nothing \in Directory BY DEF Nothing, Directory
<1> QED BY <1>1 DEF Moved

\* An updater's step to another stage, and its end.
LEMMA GotoType ==
  ASSUME upd \in [Updaters -> Updater], NEW u \in Updaters, NEW at \in Alive,
         Goto(u, at)
  PROVE  upd' \in [Updaters -> Updater] /\ UNCHANGED <<lock, result>>
<1>1. [upd[u] EXCEPT !.at = at] \in Updater
  BY DEF Updater
<1> QED BY <1>1 DEF Goto

\* An updater that ends is still a record.
LEMMA EndType ==
  ASSUME upd \in [Updaters -> Updater], NEW u \in Updaters,
         NEW o \in {"success", "failed", "unrestored", "rolled-back",
                    "rollback-failed"},
         End(u, o)
  PROVE  upd' \in [Updaters -> Updater] /\ result' = o /\ lock' = FALSE
BY EndedType DEF End

\* The firewall state with one family decided.
LEMMA FamilyType ==
  ASSUME fw \in FwState, NEW x \in FamilyStates, NEW b \in BOOLEAN
  PROVE  /\ [fw EXCEPT ![Family] = x] \in FwState
         /\ [fw EXCEPT ![Family] = x, !.busy = b] \in FwState
         /\ [fw EXCEPT !.busy = b] \in FwState
         /\ Family \in Families
<1>1. CASE fw.v4 = "pending"
  BY <1>1 DEF Family, FwState, Families
<1>2. CASE fw.v4 # "pending"
  BY <1>2 DEF Family, FwState, Families
<1> QED BY <1>1, <1>2

\* The values a firewall check can have.
LEMMA CheckType ==
  ASSUME NEW s, audit \in {"none", "green", "yellow", "red"}
  PROVE  /\ FirewallAuditCheck(s) \in {"green", "yellow", "red"}
         /\ AuditAfter(s) \in {"none", "green", "yellow", "red"}
BY DEF FirewallAuditCheck, AuditAfter, SendSelfAudit, SelfAudit

\* Every variable keeps its type.
THEOREM TypeCorrect == Spec => []TypeOK
<1>1. Init => TypeOK
  <2> SUFFICES ASSUME Init PROVE TypeOK
    OBVIOUS
  <2>1. Nothing \in Directory /\ Unapplied \in FwState
    BY DEF Nothing, Directory, Unapplied, FwState, FamilyStates
  <2> QED BY <2>1, EndedType DEF Init, TypeOK
<1>2. TypeOK /\ [Next]_vars => TypeOK'
  <2> SUFFICES ASSUME TypeOK, [Next]_vars PROVE TypeOK'
    OBVIOUS
  <2> USE DEF TypeOK
  <2>1. ASSUME NEW b \in Shipped, InstallFiles(b) PROVE TypeOK'
    <3>1. dir["cur"].id \in BOOLEAN
      BY DEF Dirs, Directory
    <3>2. [ver |-> b.ver, works |-> b.works, id |-> dir["cur"].id] \in Directory
      BY <3>1, BundleType
    <3>3. CASE dir' = [dir EXCEPT !["cur"] =
                        [ver |-> b.ver, works |-> b.works, id |-> @.id]]
      BY <2>1, <3>2, <3>3 DEF InstallFiles, Dirs
    <3>4. CASE dir' = [dir EXCEPT !["cur"].works = FALSE]
      <4>1. dir' \in [Dirs -> Directory] BY <3>4, EditType DEF Dirs
      <4> QED BY <2>1, <4>1 DEF InstallFiles
    <3> QED BY <2>1, <3>3, <3>4 DEF InstallFiles
  <2>2. ASSUME InstallUnit PROVE TypeOK'
    <3>1. upd' \in [Updaters -> Updater]
      BY <2>2, KilledType DEF InstallUnit
    <3>2. fw' \in FwState
      BY <2>2 DEF InstallUnit, Down, Unapplied, FwState, FamilyStates
    <3> QED BY <2>2, <3>1, <3>2 DEF InstallUnit, Down
  <2>3. ASSUME AgentStart PROVE TypeOK'
    <3>1. nid' \in BOOLEAN
      BY <2>3 DEF AgentStart, Dirs, Directory
    <3> QED BY <2>3, <3>1 DEF AgentStart
  <2>4. ASSUME AgentExit PROVE TypeOK'
    <3>1. upd' \in [Updaters -> Updater]
      BY <2>4, KilledType DEF AgentExit
    <3>2. proc' = "down" /\ nid' \in BOOLEAN /\ fw' \in FwState
      BY <2>4, DownType DEF AgentExit
    <3>3. faults' \in Nat
      BY <2>4 DEF AgentExit
    <3>4. UNCHANGED <<dir, unit, killMode, token, lock, result, scriptVars, rules,
                      audit, histVars, installs>>
      BY <2>4 DEF AgentExit
    <3> QED BY <3>1, <3>2, <3>3, <3>4
  <2>5. ASSUME Open PROVE TypeOK'
    <3>1. upd' \in [Updaters -> Updater]
      BY <2>5 DEF Open, Updater
    <3> QED BY <2>5, <3>1 DEF Open
  <2>6. ASSUME RegisterById PROVE TypeOK'
    <3>1. audit' \in {"none", "green", "yellow", "red"}
      BY <2>6, CheckType DEF RegisterById, SelfAudit
    <3> QED BY <2>6, <3>1 DEF RegisterById
  <2>7. ASSUME RegisterByToken PROVE TypeOK'
    <3>1. audit' \in {"none", "green", "yellow", "red"}
      BY <2>7, CheckType DEF RegisterByToken, SelfAudit
    <3>2. dir' \in [Dirs -> Directory]
      BY <2>7, EditType, NothingType DEF RegisterByToken, Dirs
    <3> QED BY <2>7, <3>1, <3>2 DEF RegisterByToken
  <2>7a. ASSUME AcceptLost PROVE TypeOK'
    BY <2>7a DEF AcceptLost
  <2>8. ASSUME Rejected PROVE TypeOK'
    BY <2>8 DEF Rejected
  <2>9. ASSUME Drop PROVE TypeOK'
    BY <2>9 DEF Drop
  <2>10. ASSUME Reboot PROVE TypeOK'
    <3>1. upd' \in [Updaters -> Updater]
      BY <2>10, EndedType DEF Reboot
    <3>2. proc' = "down" /\ nid' = FALSE /\ fw' \in FwState
      BY <2>10, DownType DEF Reboot
    <3>3. faults' \in Nat /\ lock' = FALSE /\ result' = "none"
      BY <2>10 DEF Reboot
    <3>4. rules' \in [Families -> {"none", "partial", "complete"}]
      BY <2>10 DEF Reboot
    <3>5. script' = "off" /\ bye' \in {"off", "stop", "unit", "dirs", "done", "cut"}
      BY <2>10 DEF Reboot
    <3> QED BY <2>10, <3>1, <3>2, <3>3, <3>4, <3>5 DEF Reboot
  <2>11. ASSUME NEW u \in Updaters, NEW b \in Bundles, CmdUpdate(u, b)
         PROVE  TypeOK'
    <3>1. [at |-> "download", bundle |-> b, base |-> dir["cur"],
           fresh |-> FALSE] \in Updater
      BY DEF Updater, Dirs, Alive, Swapping
    <3>2. upd' \in [Updaters -> Updater]
      BY <2>11, <3>1 DEF CmdUpdate, LaunchUpdater
    <3>3. lock' = TRUE /\ mixed' \in BOOLEAN
      BY <2>11 DEF CmdUpdate, LaunchUpdater
    <3> QED BY <2>11, <3>2, <3>3 DEF CmdUpdate
  <2>12. ASSUME NEW u \in Updaters, Download(u) PROVE TypeOK'
    <3>1. /\ upd' \in [Updaters -> Updater]
          /\ lock' \in BOOLEAN
          /\ result' \in {"none", "success", "failed", "unrestored",
                          "rolled-back", "rollback-failed"}
      BY <2>12, GotoType, EndType DEF Download, GetBundle, Alive, Swapping
    <3> QED BY <2>12, <3>1 DEF Download, UpdFrame
  <2>13. ASSUME NEW u \in Updaters, Extract(u) PROVE TypeOK'
    <3>1. upd[u].bundle \in Shipped \cup Bundles \cup {Nothing}
      BY DEF Updater
    <3>2. [ver |-> upd[u].bundle.ver, works |-> upd[u].bundle.works,
           id |-> FALSE] \in Directory
      BY <3>1, BundleType
    <3>3. dir' \in [Dirs -> Directory]
      <4>1. "new" \in Dirs BY DEF Dirs
      <4>2. /\ [dir EXCEPT !["new"] = Nothing] \in [Dirs -> Directory]
            /\ [dir EXCEPT !["new"] =
                  [ver |-> upd[u].bundle.ver, works |-> upd[u].bundle.works,
                   id |-> FALSE]] \in [Dirs -> Directory]
        BY <3>2, <4>1, EditType, NothingType
      <4> QED BY <2>13, <4>2 DEF Extract
    <3>4. /\ upd' \in [Updaters -> Updater]
          /\ lock' \in BOOLEAN
          /\ result' \in {"none", "success", "failed", "unrestored",
                          "rolled-back", "rollback-failed"}
      BY <2>13, GotoType, EndType DEF Extract, Alive, Swapping
    <3> QED BY <2>13, <3>3, <3>4 DEF Extract, UpdFrame
  <2>14. ASSUME NEW u \in Updaters, Verify(u) PROVE TypeOK'
    <3>1. dir' \in [Dirs -> Directory]
      BY <2>14 DEF Verify, Preserved, Dirs, Directory
    <3>2. /\ upd' \in [Updaters -> Updater]
          /\ lock' \in BOOLEAN
          /\ result' \in {"none", "success", "failed", "unrestored",
                          "rolled-back", "rollback-failed"}
      BY <2>14, GotoType, EndType DEF Verify, Alive, Swapping, Watching,
         Undoing
    <3> QED BY <2>14, <3>1, <3>2 DEF Verify, UpdFrame
  <2>15. ASSUME NEW u \in Updaters, RemoveOld(u) PROVE TypeOK'
    <3>1. dir' \in [Dirs -> Directory]
      BY <2>15, EditType, NothingType DEF RemoveOld, Dirs
    <3>2. /\ upd' \in [Updaters -> Updater]
          /\ lock' \in BOOLEAN
          /\ result' \in {"none", "success", "failed", "unrestored",
                          "rolled-back", "rollback-failed"}
      BY <2>15, GotoType, EndType DEF RemoveOld, Alive, Swapping
    <3> QED BY <2>15, <3>1, <3>2 DEF RemoveOld, UpdFrame
  <2>16. ASSUME NEW u \in Updaters, MoveCurrent(u) PROVE TypeOK'
    <3>1. dir' \in [Dirs -> Directory]
      BY <2>16, MovedType DEF MoveCurrent, Dirs
    <3>2. /\ upd' \in [Updaters -> Updater]
          /\ lock' \in BOOLEAN
          /\ result' \in {"none", "success", "failed", "unrestored",
                          "rolled-back", "rollback-failed"}
      BY <2>16, GotoType, EndType DEF MoveCurrent, Alive, Swapping, Watching,
         Undoing
    <3> QED BY <2>16, <3>1, <3>2 DEF MoveCurrent, UpdFrame
  <2>17. ASSUME NEW u \in Updaters, MoveNew(u) PROVE TypeOK'
    <3>1. dir' \in [Dirs -> Directory]
      BY <2>17, MovedType DEF MoveNew, Restored, Dirs
    <3>3. /\ upd' \in [Updaters -> Updater]
          /\ lock' \in BOOLEAN
          /\ result' \in {"none", "success", "failed", "unrestored",
                          "rolled-back", "rollback-failed"}
      BY <2>17, GotoType, EndType DEF MoveNew, Alive, Watching
    <3> QED BY <2>17, <3>1, <3>3 DEF MoveNew, UpdFrame
  <2>18. ASSUME NEW u \in Updaters, Restart(u) PROVE TypeOK'
    <3>1. /\ upd' \in [Updaters -> Updater]
          /\ lock' \in BOOLEAN
          /\ result' \in {"none", "success", "failed", "unrestored",
                          "rolled-back", "rollback-failed"}
      BY <2>18, GotoType, KilledType DEF Restart, SystemctlRestart, Alive,
         Watching, Undoing
    <3>2. proc' \in {"down", proc} /\ nid' \in BOOLEAN /\ fw' \in FwState
      BY <2>18, DownType DEF Restart, SystemctlRestart
    <3> QED BY <2>18, <3>1, <3>2 DEF Restart, UpdFrame
  <2>19. ASSUME NEW u \in Updaters, Stamp(u) PROVE TypeOK'
    <3>1. upd' \in [Updaters -> Updater]
      BY <2>19 DEF Stamp, Updater, Alive, Watching
    <3> QED BY <2>19, <3>1 DEF Stamp, UpdFrame
  <2>20. ASSUME NEW u \in Updaters, Poll(u) PROVE TypeOK'
    <3>1. /\ upd' \in [Updaters -> Updater]
          /\ lock' \in BOOLEAN
          /\ result' \in {"none", "success", "failed", "unrestored",
                          "rolled-back", "rollback-failed"}
      BY <2>20, GotoType, EndType DEF Poll, Alive, Undoing
    <3> QED BY <2>20, <3>1 DEF Poll, UpdFrame
  <2>21. ASSUME NEW u \in Updaters, RollbackStep(u) PROVE TypeOK'
    <3>1. dir' \in [Dirs -> Directory]
      BY <2>21, MovedType, EditType, NothingType DEF RollbackStep, Dirs
    <3>2. /\ upd' \in [Updaters -> Updater]
          /\ lock' \in BOOLEAN
          /\ result' \in {"none", "success", "failed", "unrestored",
                          "rolled-back", "rollback-failed"}
      BY <2>21, GotoType, EndType, KilledType DEF RollbackStep,
         SystemctlRestart, Alive, Undoing
    <3>3. proc' \in {"down", proc} /\ nid' \in BOOLEAN /\ fw' \in FwState
      BY <2>21, DownType DEF RollbackStep, SystemctlRestart
    <3> QED BY <2>21, <3>1, <3>2, <3>3 DEF UpdFrame, RollbackStep
  <2>22. ASSUME CmdDeprovision PROVE TypeOK'
    BY <2>22 DEF CmdDeprovision
  <2>23. ASSUME DeprovisionStop PROVE TypeOK'
    <3>1. upd' \in [Updaters -> Updater]
      BY <2>23, KilledType DEF DeprovisionStop
    <3>2. fw' \in FwState
      BY <2>23 DEF DeprovisionStop, Down, Unapplied, FwState, FamilyStates
    <3> QED BY <2>23, <3>1, <3>2 DEF DeprovisionStop, Down
  <2>24. ASSUME DeprovisionUnit PROVE TypeOK'
    BY <2>24 DEF DeprovisionUnit
  <2>25. ASSUME DeprovisionDirs PROVE TypeOK'
    <3>1. dir' \in [Dirs -> Directory]
      BY <2>25, NothingType DEF DeprovisionDirs
    <3>2. bye' = "done" /\ known' \in BOOLEAN
      BY <2>25 DEF DeprovisionDirs
    <3>3. UNCHANGED <<unit, killMode, proc, nid, token, runVars, script, fwVars,
                      mixed, bounds>>
      BY <2>25 DEF DeprovisionDirs
    <3> QED BY <3>1, <3>2, <3>3
  <2>26. ASSUME FirewallNoHost PROVE TypeOK'
    <3>1. fw' \in FwState
      BY <2>26 DEF FirewallNoHost, FwState, FamilyStates
    <3>2. audit' \in {"none", "green", "yellow", "red"}
      BY <2>26, CheckType DEF FirewallNoHost
    <3> QED BY <2>26, <3>1, <3>2 DEF FirewallNoHost, FwFrame
  <2>27. ASSUME FirewallFlush PROVE TypeOK'
    <3>1. fw' \in FwState
      BY <2>27, FamilyType DEF FirewallFlush, FamilyStates
    <3>2. rules' \in [Families -> {"none", "partial", "complete"}]
      BY <2>27 DEF FirewallFlush
    <3> QED BY <2>27, <3>1, <3>2 DEF FirewallFlush, FwFrame
  <2>28. ASSUME FirewallFinish PROVE TypeOK'
    <3>1. PICK ok \in BOOLEAN :
            /\ fw' = [fw EXCEPT ![Family] = IF ok THEN "applied" ELSE AfterError,
                                !.busy = FALSE]
            /\ rules' = [rules EXCEPT ![Family] = IF ok THEN "complete" ELSE @]
      BY <2>28 DEF FirewallFinish
    <3>2. fw' \in FwState
      BY <3>1, FamilyType DEF AfterError, FamilyStates
    <3>3. rules' \in [Families -> {"none", "partial", "complete"}]
      BY <3>1
    <3>4. audit' \in {"none", "green", "yellow", "red"}
      <4>1. audit' = AuditAfter(fw')
        BY <2>28 DEF FirewallFinish
      <4> QED BY <4>1, CheckType
    <3>5. FwFrame
      BY <2>28 DEF FirewallFinish
    <3> QED BY <3>2, <3>3, <3>4, <3>5 DEF FwFrame
  <2>29. ASSUME FirewallRefused PROVE TypeOK'
    <3>1. fw' \in FwState
      BY <2>29, FamilyType DEF FirewallRefused, AfterError, FamilyStates
    <3>2. audit' \in {"none", "green", "yellow", "red"}
      BY <2>29, CheckType DEF FirewallRefused
    <3> QED BY <2>29, <3>1, <3>2 DEF FirewallRefused, FwFrame
  <2>30. ASSUME UNCHANGED vars PROVE TypeOK'
    BY <2>30 DEF vars
  <2> QED
    BY <2>1, <2>2, <2>3, <2>4, <2>5, <2>6, <2>7, <2>7a, <2>8, <2>9, <2>10, <2>11,
       <2>12, <2>13, <2>14, <2>15, <2>16, <2>17, <2>18, <2>19, <2>20, <2>21,
       <2>22, <2>23, <2>24, <2>25, <2>26, <2>27, <2>28, <2>29, <2>30 DEF Next,
       UpdaterStep
<1> QED BY <1>1, <1>2, PTL DEF Spec

-----------------------------------------------------------------------------
(* The firewall check.                                                     *)

\* The inductive invariant behind AuditHonest: the manager has the check on the
\* final state, and a family counts as applied only while its rules are whole.
AuditInv ==
  /\ proc = "set" /\ Final(fw) => audit = FirewallAuditCheck(fw)
  /\ fw.v4 = "applied" => rules["v4"] = "complete"
  /\ fw.v6 = "applied" => rules["v6"] = "complete"

\* A step away from the firewall that makes no connection.
LEMMA AuditQuiet ==
  ASSUME AuditInv, UNCHANGED <<rules, fw, audit>>, proc' = "set" => proc = "set"
  PROVE  AuditInv'
BY DEF AuditInv

\* A new process starts from nothing.
LEMMA AuditDown ==
  ASSUME Down
  PROVE  AuditInv'
BY DEF Down, AuditInv, Unapplied

\* What an apply that ends leaves in the row when the agent is connected.
LEMMA AuditSent ==
  ASSUME audit' = AuditAfter(fw'), proc' = proc
  PROVE  proc' = "set" /\ Final(fw') => audit' = FirewallAuditCheck(fw')
BY DEF AuditAfter, SendSelfAudit, SelfAudit

\* Once the apply is over the manager's check of a connected agent is the
\* firewall's final state, and green means both families' rules are in place,
\* for any number of restarts, reboots and reconnections.
THEOREM AuditHonestCorrect == Spec => []AuditHonest
<1>1. Init => AuditInv
  BY DEF Init, AuditInv, Unapplied, Final
<1>2. TypeOK /\ AuditInv /\ [Next]_vars => AuditInv'
  <2> SUFFICES ASSUME TypeOK, AuditInv, [Next]_vars PROVE AuditInv'
    OBVIOUS
  <2> USE DEF TypeOK
  <2>1. ASSUME NEW b \in Shipped, InstallFiles(b) PROVE AuditInv'
    BY <2>1, AuditQuiet DEF InstallFiles
  <2>2. ASSUME InstallUnit PROVE AuditInv'
    BY <2>2, AuditDown DEF InstallUnit
  <2>3. ASSUME AgentStart PROVE AuditInv'
    BY <2>3, AuditQuiet DEF AgentStart
  <2>4. ASSUME AgentExit PROVE AuditInv'
    BY <2>4, AuditDown DEF AgentExit
  <2>5. ASSUME Open PROVE AuditInv'
    BY <2>5, AuditQuiet DEF Open
  <2>6. ASSUME RegisterById PROVE AuditInv'
    BY <2>6 DEF RegisterById, AuditInv, SelfAudit
  <2>7. ASSUME RegisterByToken PROVE AuditInv'
    BY <2>7 DEF RegisterByToken, AuditInv, SelfAudit
  <2>7a. ASSUME AcceptLost PROVE AuditInv'
    BY <2>7a, AuditQuiet DEF AcceptLost
  <2>8. ASSUME Rejected PROVE AuditInv'
    BY <2>8, AuditQuiet DEF Rejected
  <2>9. ASSUME Drop PROVE AuditInv'
    BY <2>9, AuditQuiet DEF Drop
  <2>10. ASSUME Reboot PROVE AuditInv'
    BY <2>10 DEF Reboot, Down, AuditInv, Unapplied, Families
  <2>11. ASSUME NEW u \in Updaters, NEW b \in Bundles, CmdUpdate(u, b)
         PROVE  AuditInv'
    BY <2>11, AuditQuiet DEF CmdUpdate
  <2>12. ASSUME NEW u \in Updaters, Download(u) PROVE AuditInv'
    BY <2>12, AuditQuiet DEF Download, UpdFrame
  <2>13. ASSUME NEW u \in Updaters, Extract(u) PROVE AuditInv'
    BY <2>13, AuditQuiet DEF Extract, UpdFrame
  <2>14. ASSUME NEW u \in Updaters, Verify(u) PROVE AuditInv'
    BY <2>14, AuditQuiet DEF Verify, UpdFrame
  <2>15. ASSUME NEW u \in Updaters, RemoveOld(u) PROVE AuditInv'
    BY <2>15, AuditQuiet DEF RemoveOld, UpdFrame
  <2>16. ASSUME NEW u \in Updaters, MoveCurrent(u) PROVE AuditInv'
    BY <2>16, AuditQuiet DEF MoveCurrent, UpdFrame
  <2>17. ASSUME NEW u \in Updaters, MoveNew(u) PROVE AuditInv'
    BY <2>17, AuditQuiet DEF MoveNew, UpdFrame
  <2>18. ASSUME NEW u \in Updaters, Restart(u) PROVE AuditInv'
    <3>1. rules' = rules /\ audit' = audit
      BY <2>18 DEF Restart, UpdFrame
    <3>2. Down \/ (proc' = proc /\ fw' = fw)
      BY <2>18 DEF Restart, SystemctlRestart
    <3> QED BY <3>1, <3>2, AuditDown, AuditQuiet
  <2>19. ASSUME NEW u \in Updaters, Stamp(u) PROVE AuditInv'
    BY <2>19, AuditQuiet DEF Stamp, UpdFrame
  <2>20. ASSUME NEW u \in Updaters, Poll(u) PROVE AuditInv'
    BY <2>20, AuditQuiet DEF Poll, UpdFrame
  <2>21. ASSUME NEW u \in Updaters, RollbackStep(u) PROVE AuditInv'
    <3>1. rules' = rules /\ audit' = audit
      BY <2>21 DEF RollbackStep, UpdFrame
    <3>2. Down \/ (proc' = proc /\ fw' = fw)
      BY <2>21 DEF RollbackStep, SystemctlRestart
    <3> QED BY <3>1, <3>2, AuditDown, AuditQuiet
  <2>22. ASSUME CmdDeprovision PROVE AuditInv'
    BY <2>22, AuditQuiet DEF CmdDeprovision
  <2>23. ASSUME DeprovisionStop PROVE AuditInv'
    BY <2>23, AuditDown DEF DeprovisionStop
  <2>24. ASSUME DeprovisionUnit PROVE AuditInv'
    BY <2>24, AuditQuiet DEF DeprovisionUnit
  <2>25. ASSUME DeprovisionDirs PROVE AuditInv'
    BY <2>25, AuditQuiet DEF DeprovisionDirs
  <2>26. ASSUME FirewallNoHost PROVE AuditInv'
    <3>1. /\ fw' = [v4 |-> "failed", v6 |-> "failed", busy |-> FALSE]
          /\ audit' = AuditAfter(fw') /\ UNCHANGED <<rules, proc>>
      BY <2>26 DEF FirewallNoHost, FwFrame
    <3>2. Final(fw') /\ fw'.v4 # "applied" /\ fw'.v6 # "applied"
      BY <3>1 DEF Final
    <3> QED BY <3>1, <3>2, AuditSent DEF AuditInv
  <2>27. ASSUME FirewallFlush PROVE AuditInv'
    <3>1. /\ fw' = [fw EXCEPT !.busy = TRUE] /\ ~Final(fw)
          /\ rules' = [rules EXCEPT ![Family] = "partial"]
      BY <2>27 DEF FirewallFlush
    <3>2. fw'.v4 = fw.v4 /\ fw'.v6 = fw.v6
      BY <3>1 DEF FwState
    <3>3. ~Final(fw') BY <3>1, <3>2 DEF Final
    <3>4. CASE fw.v4 = "pending"
      BY <3>1, <3>2, <3>3, <3>4 DEF AuditInv, Family, Families
    <3>5. CASE fw.v4 # "pending"
      BY <3>1, <3>2, <3>3, <3>5 DEF AuditInv, Family, Families, Final
    <3> QED BY <3>4, <3>5
  <2>28. ASSUME FirewallFinish PROVE AuditInv'
    <3>1. PICK ok \in BOOLEAN :
            /\ fw' = [fw EXCEPT ![Family] = IF ok THEN "applied" ELSE AfterError,
                                !.busy = FALSE]
            /\ rules' = [rules EXCEPT ![Family] = IF ok THEN "complete" ELSE @]
      BY <2>28 DEF FirewallFinish
    <3>2. audit' = AuditAfter(fw') /\ proc' = proc
      BY <2>28 DEF FirewallFinish, FwFrame
    <3>3. CASE fw.v4 = "pending"
      <4>1. fw'.v4 = (IF ok THEN "applied" ELSE "failed") /\ fw'.v6 = fw.v6
        BY <3>1, <3>3 DEF FwState, Family, AfterError
      <4>2. /\ rules'["v4"] = IF ok THEN "complete" ELSE rules["v4"]
            /\ rules'["v6"] = rules["v6"]
        BY <3>1, <3>3 DEF Family, Families
      <4> QED BY <3>2, <4>1, <4>2, AuditSent DEF AuditInv
    <3>4. CASE fw.v4 # "pending"
      <4>1. fw'.v6 = (IF ok THEN "applied" ELSE "failed") /\ fw'.v4 = fw.v4
        BY <3>1, <3>4 DEF FwState, Family, AfterError
      <4>2. /\ rules'["v6"] = IF ok THEN "complete" ELSE rules["v6"]
            /\ rules'["v4"] = rules["v4"]
        BY <3>1, <3>4 DEF Family, Families
      <4> QED BY <3>2, <4>1, <4>2, AuditSent DEF AuditInv
    <3> QED BY <3>3, <3>4
  <2>29. ASSUME FirewallRefused PROVE AuditInv'
    <3>1. /\ fw' = [fw EXCEPT ![Family] = AfterError]
          /\ audit' = AuditAfter(fw') /\ UNCHANGED <<rules, proc>>
      BY <2>29 DEF FirewallRefused, FwFrame
    <3>2. CASE fw.v4 = "pending"
      <4>1. fw'.v4 = "failed" /\ fw'.v6 = fw.v6
        BY <3>1, <3>2 DEF FwState, Family, AfterError
      <4> QED BY <3>1, <4>1, AuditSent DEF AuditInv
    <3>3. CASE fw.v4 # "pending"
      <4>1. fw'.v6 = "failed" /\ fw'.v4 = fw.v4
        BY <3>1, <3>3 DEF FwState, Family, AfterError
      <4> QED BY <3>1, <4>1, AuditSent DEF AuditInv
    <3> QED BY <3>2, <3>3
  <2>30. ASSUME UNCHANGED vars PROVE AuditInv'
    BY <2>30 DEF vars, AuditInv
  <2> QED
    BY <2>1, <2>2, <2>3, <2>4, <2>5, <2>6, <2>7, <2>7a, <2>8, <2>9, <2>10, <2>11,
       <2>12, <2>13, <2>14, <2>15, <2>16, <2>17, <2>18, <2>19, <2>20, <2>21,
       <2>22, <2>23, <2>24, <2>25, <2>26, <2>27, <2>28, <2>29, <2>30 DEF Next,
       UpdaterStep
<1>3. AuditInv => AuditHonest
  BY DEF AuditInv, AuditHonest, FirewallAuditCheck, Families
<1> QED BY <1>1, <1>2, <1>3, TypeCorrect, PTL DEF Spec

-----------------------------------------------------------------------------
(* Updates and the node's identity.                                        *)

\* The updaters that run after a stop of the service, a change of stage, and
\* the end of an updater that is alone.
LEMMA KilledRuns ==
  ASSUME upd \in [Updaters -> Updater], upd' = KilledWith
  PROVE  /\ Running' \subseteq Running
         /\ \A u \in Running' : upd'[u] = upd[u]
         /\ killMode = "control-group" => Running' = {}
BY DEF KilledWith, Running, Ended, Alive, Swapping, Watching, Undoing

\* An updater that goes on is still the only one.
LEMMA GotoRuns ==
  ASSUME upd \in [Updaters -> Updater], NEW u \in Updaters, Running = {u},
         NEW at \in Alive, Goto(u, at)
  PROVE  /\ Running' = {u} /\ upd'[u].at = at
         /\ upd'[u].base = upd[u].base /\ upd'[u].fresh = upd[u].fresh
<1>1. upd'[u] = [upd[u] EXCEPT !.at = at] /\ \A v \in Updaters : v # u => upd'[v] = upd[v]
  BY DEF Goto
<1>2. upd'[u].at = at /\ upd'[u].base = upd[u].base /\ upd'[u].fresh = upd[u].fresh
  BY <1>1 DEF Updater
<1> QED BY <1>1, <1>2 DEF Running

\* When the only updater ends none is running.
LEMMA EndRuns ==
  ASSUME upd \in [Updaters -> Updater], NEW u \in Updaters, Running = {u},
         NEW o, End(u, o)
  PROVE  Running' = {}
<1>1. upd'[u] = Ended("off") /\ \A v \in Updaters : v # u => upd'[v] = upd[v]
  BY DEF End
<1>2. upd'[u].at \notin Alive
  BY <1>1 DEF Ended, Alive, Swapping, Watching, Undoing
<1> QED BY <1>1, <1>2 DEF Running

\* An updater at work in a history without overlaps is the only one.
LEMMA Sole ==
  ASSUME HostInv, ~mixed, NEW u \in Updaters, upd[u].at \in Alive
  PROVE  /\ Running = {u} /\ script = "off" /\ bye = "off"
         /\ Identity /\ Progress(u)
<1>1. u \in Running BY DEF Running
<1>2. \A v \in Running : v = u BY <1>1 DEF HostInv, Alone
<1> QED BY <1>1, <1>2 DEF HostInv, Alone

\* HostInv after a step, when no updater runs and when one does.
LEMMA NobodyRuns ==
  ASSUME Running' = {}, ~mixed' => Identity', proc' = "set" => nid'
  PROVE  HostInv'
BY DEF HostInv, Alone

\* The invariant with one updater and no script.
LEMMA OneRuns ==
  ASSUME NEW u, Running' = {u}, script' = "off", bye' = "off", Identity',
         Progress(u)', proc' = "set" => nid'
  PROVE  HostInv'
BY DEF HostInv, Alone

\* A step that leaves alone everything HostInv is about but the connection.
LEMMA QuietHost ==
  ASSUME HostInv, UNCHANGED <<dir, nid, upd, script, bye, mixed, known>>,
         token' = "fresh" => token = "fresh",
         proc' # "down" => proc # "down", proc' = "set" => nid
  PROVE  HostInv'
<1>1. Running' = Running BY DEF Running
<1>2. Alone => Alone' BY <1>1 DEF Alone
<1>3. Identity => Identity' BY DEF Identity
<1>4. ASSUME NEW u, Progress(u) PROVE Progress(u)'
  BY <1>4 DEF Progress
<1> QED BY <1>1, <1>2, <1>3, <1>4 DEF HostInv

\* The process is stopped, and the updaters with it if KillMode says so.
LEMMA StoppedHost ==
  ASSUME HostInv, upd \in [Updaters -> Updater], Down, upd' = KilledWith,
         UNCHANGED <<dir, token, script, bye, mixed, known>>
  PROVE  HostInv'
<1>1. proc' = "down" /\ nid' = FALSE BY DEF Down
<1>2. Running' \subseteq Running /\ \A u \in Running' : upd'[u] = upd[u]
  BY KilledRuns
<1>3. Alone => Alone' BY <1>2 DEF Alone
<1>4. Identity => Identity' BY <1>1 DEF Identity
<1>5. ASSUME NEW u \in Running', Progress(u) PROVE Progress(u)'
  BY <1>1, <1>2, <1>5 DEF Progress
<1> QED BY <1>1, <1>2, <1>3, <1>4, <1>5 DEF HostInv

\* The directories follow the updater, and the node id is never lost, in every
\* history in which updates, installations and the uninstall do not overlap.
THEOREM HostInvCorrect == Spec => []HostInv
<1>1. Init => HostInv
  BY DEF Init, HostInv, Alone, Identity, Running, Ended, Alive, Swapping,
     Watching, Undoing
<1>2. TypeOK /\ HostInv /\ [Next]_vars => HostInv'
  <2> SUFFICES ASSUME TypeOK, HostInv, [Next]_vars PROVE HostInv'
    OBVIOUS
  <2> USE DEF TypeOK
  <2>1. ASSUME NEW b \in Shipped, InstallFiles(b) PROVE HostInv'
    <3>1. CASE mixed'
      BY <2>1, <3>1 DEF InstallFiles, HostInv
    <3>2. CASE ~mixed'
      <4>1. ~mixed /\ Running = {} /\ UNCHANGED <<proc, nid, token, upd>>
        BY <2>1, <3>2 DEF InstallFiles
      <4>2. Running' = {} BY <4>1 DEF Running
      <4>3. Identity BY <4>1 DEF HostInv
      <4>4. dir'["cur"].id = dir["cur"].id
        BY <2>1 DEF InstallFiles, Dirs, Directory
      <4>5. script' = "off" /\ dir["cur"] = Nothing => dir'["cur"] = Nothing
        <5> SUFFICES ASSUME script' = "off", dir["cur"] = Nothing
                     PROVE  dir'["cur"] = Nothing
          OBVIOUS
        <5>1. dir' = [dir EXCEPT !["cur"].works = FALSE]
          BY <2>1 DEF InstallFiles
        <5>2. dir'["cur"] = [Nothing EXCEPT !.works = FALSE]
          BY <5>1 DEF Dirs
        <5> QED BY <5>2 DEF Nothing
      <4>6. script = "off" /\ (known' => known /\ dir["cur"] # Nothing)
        BY <2>1 DEF InstallFiles
      <4>7. Identity' BY <4>1, <4>3, <4>4, <4>5, <4>6 DEF Identity
      <4> QED BY <4>1, <4>2, <4>7, NobodyRuns DEF HostInv
    <3> QED BY <3>1, <3>2
  <2>2. ASSUME InstallUnit PROVE HostInv'
    <3>1. CASE mixed'
      BY <2>2, <3>1 DEF InstallUnit, HostInv, Down
    <3>2. CASE ~mixed'
      <4>1. ~mixed /\ Running = {}
        BY <2>2, <3>2 DEF InstallUnit
      <4>2. Running' = {} BY <2>2, <4>1, KilledRuns DEF InstallUnit
      <4>3. Identity BY <4>1 DEF HostInv
      <4>4. Identity' BY <2>2, <4>3 DEF InstallUnit, Down, Identity
      <4>5. proc' = "down" BY <2>2 DEF InstallUnit, Down
      <4> QED BY <4>2, <4>4, <4>5, NobodyRuns
    <3> QED BY <3>1, <3>2
  <2>3. ASSUME AgentStart PROVE HostInv'
    <3>1. /\ proc' = "boot" /\ nid' = dir["cur"].id
          /\ UNCHANGED <<dir, token, upd, script, bye, mixed, known>>
      BY <2>3 DEF AgentStart
    <3>2. dir["cur"].works /\ dir["cur"] # Nothing
      BY <2>3 DEF AgentStart, Nothing
    <3>3. ASSUME ~mixed
          PROVE  Alone' /\ Identity' /\ \A u \in Running' : Progress(u)'
      <4>1. Running' = Running BY <3>1 DEF Running
      <4>2. Alone' BY <3>1, <3>3, <4>1 DEF HostInv, Alone
      <4>3. Identity' BY <3>1, <3>2, <3>3 DEF HostInv, Identity
      <4>4. ASSUME NEW u \in Running' PROVE Progress(u)'
        <5>1. Progress(u) BY <3>3, <4>1, <4>4 DEF HostInv
        <5> QED BY <3>1, <3>2, <5>1 DEF Progress
      <4> QED BY <4>2, <4>3, <4>4
    <3> QED BY <3>1, <3>3 DEF HostInv
  <2>4. ASSUME AgentExit PROVE HostInv'
    BY <2>4, StoppedHost DEF AgentExit
  <2>5. ASSUME Open PROVE HostInv'
    <3>1. /\ proc = "boot" /\ proc' = "link"
          /\ UNCHANGED <<dir, nid, token, script, bye, mixed, known>>
      BY <2>5 DEF Open
    <3>2. \A u \in Updaters : /\ upd'[u].at = upd[u].at /\ upd'[u].base = upd[u].base
                              /\ upd'[u].fresh => upd[u].at = "poll"
      BY <2>5 DEF Open, Updater
    <3>3. Running' = Running BY <3>2 DEF Running
    <3>4. ASSUME ~mixed
          PROVE  Alone' /\ Identity' /\ \A u \in Running' : Progress(u)'
      <4>1. Alone' BY <3>1, <3>3, <3>4 DEF HostInv, Alone
      <4>2. Identity' BY <3>1, <3>4 DEF HostInv, Identity
      <4>3. ASSUME NEW u \in Running' PROVE Progress(u)'
        <5>1. Progress(u) /\ u \in Updaters
          BY <3>3, <3>4, <4>3 DEF HostInv, Running
        <5> QED BY <3>1, <3>2, <5>1 DEF Progress
      <4> QED BY <4>1, <4>2, <4>3
    <3> QED BY <3>1, <3>4 DEF HostInv
  <2>6. ASSUME RegisterById PROVE HostInv'
    BY <2>6, QuietHost DEF RegisterById
  <2>7. ASSUME RegisterByToken PROVE HostInv'
    <3>1. /\ proc' = "set" /\ nid' = TRUE /\ token = "fresh" /\ token' = "used"
          /\ UNCHANGED <<upd, script, bye, mixed>> /\ proc = "link"
      BY <2>7 DEF RegisterByToken
    <3>2. Running' = Running BY <3>1 DEF Running
    <3>3. ASSUME ~mixed
          PROVE  Alone' /\ Identity' /\ \A u \in Running' : Progress(u)'
      <4>1. Alone' BY <3>1, <3>2, <3>3 DEF HostInv, Alone
      <4>2. Identity BY <3>3 DEF HostInv
      <4>3. CASE UNCHANGED <<dir, known>>
        <5>1. Identity' BY <3>1, <4>2, <4>3 DEF Identity
        <5>2. ASSUME NEW u \in Running' PROVE Progress(u)'
          <6>1. Progress(u) BY <3>2, <3>3, <5>2 DEF HostInv
          <6> QED BY <3>1, <4>3, <6>1 DEF Progress
        <5> QED BY <4>1, <5>1, <5>2
      <4>4. CASE /\ dir["cur"] # Nothing
                 /\ dir' = [dir EXCEPT !["cur"].id = TRUE]
                 /\ known' = TRUE
        <5>1. dir'["cur"].id BY <4>4 DEF Dirs, Directory
        <5>2. Identity' BY <3>1, <5>1 DEF Identity
        <5>3. ASSUME NEW u \in Running' PROVE Progress(u)'
          <6>1. Progress(u) /\ upd[u].at \in Alive
            BY <3>2, <3>3, <5>3 DEF HostInv, Running
          <6>2. upd[u].base = Nothing \/ upd[u].base.id
            BY <3>1, <6>1 DEF Progress
          <6>3. dir["cur"].id
            BY <4>4, <6>1, <6>2 DEF Progress, Alive, Swapping, Watching, Undoing
          <6>4. dir' = dir
            BY <4>4, <6>3 DEF Dirs, Directory
          <6> QED BY <3>1, <6>1, <6>2, <6>4 DEF Progress
        <5> QED BY <4>1, <5>2, <5>3
      <4> QED BY <2>7, <4>3, <4>4 DEF RegisterByToken
    <3> QED BY <3>1, <3>3 DEF HostInv
  <2>7a. ASSUME AcceptLost PROVE HostInv'
    BY <2>7a, QuietHost DEF AcceptLost
  <2>8. ASSUME Rejected PROVE HostInv'
    BY <2>8, QuietHost DEF Rejected
  <2>9. ASSUME Drop PROVE HostInv'
    BY <2>9, QuietHost DEF Drop
  <2>10. ASSUME Reboot PROVE HostInv'
    <3>1. Running' = {}
      BY <2>10 DEF Reboot, Running, Ended, Alive, Swapping, Watching, Undoing
    <3>2. ASSUME ~mixed' PROVE Identity'
      BY <2>10, <3>2 DEF Reboot, Down, HostInv, Identity
    <3>3. proc' = "down" BY <2>10 DEF Reboot, Down
    <3> QED BY <3>1, <3>2, <3>3, NobodyRuns DEF HostInv
  <2>11. ASSUME NEW u \in Updaters, NEW b \in Bundles, CmdUpdate(u, b)
         PROVE  HostInv'
    <3>1. /\ proc = "set" /\ nid
          /\ UNCHANGED <<dir, proc, nid, token, script, bye, known>>
      BY <2>11 DEF CmdUpdate, Dispatched, UpdateAgent, UpdateAgentAll,
         PlanAgentUpdate, HostInv
    <3>2. CASE UNCHANGED <<upd, mixed>>
      BY <3>1, <3>2, QuietHost
    <3>3. CASE /\ upd' = [upd EXCEPT ![u] = [at |-> "download", bundle |-> b,
                                            base |-> dir["cur"], fresh |-> FALSE]]
               /\ mixed' = (mixed \/ Running # {} \/ script # "off" \/ bye # "off")
      <4>1. CASE mixed'
        BY <3>1, <4>1 DEF HostInv
      <4>2. CASE ~mixed'
        <5>1. ~mixed /\ Running = {} /\ script = "off" /\ bye = "off"
          BY <3>3, <4>2
        <5>2. Identity BY <5>1 DEF HostInv
        <5>3. Identity' BY <3>1, <5>2 DEF Identity
        <5>4. Running' = {u}
          BY <3>3, <5>1 DEF Running, Alive, Swapping
        <5>5. /\ upd'[u].at = "download" /\ upd'[u].base = dir["cur"]
              /\ upd'[u].fresh = FALSE
          BY <3>3
        <5>6. Progress(u)'
          BY <3>1, <5>1, <5>2, <5>5 DEF Progress, Identity, Swapping, Watching,
             Undoing
        <5> QED BY <3>1, <5>1, <5>3, <5>4, <5>6, OneRuns
      <4> QED BY <4>1, <4>2
    <3> QED BY <2>11, <3>2, <3>3 DEF CmdUpdate, LaunchUpdater
  <2>12. ASSUME NEW u \in Updaters, Download(u) PROVE HostInv'
    <3>1. /\ upd[u].at \in Alive /\ UNCHANGED <<token, script, bye, mixed, known>>
          /\ (proc' = proc /\ nid' = nid) \/ (proc' = "down" /\ nid' = FALSE)
      BY <2>12 DEF Download, UpdFrame, Alive, Swapping, Watching, Undoing,
         GetBundle
    <3>2. CASE mixed
      BY <3>1, <3>2 DEF HostInv
    <3>3. CASE ~mixed
      <4> USE <3>1, <3>3
      <4>1. Running = {u} /\ script = "off" /\ bye = "off" /\ Identity /\ Progress(u)
        BY Sole
      <4>2. CASE UNCHANGED <<dir, proc, nid>> /\ Goto(u, "extract")
        <5>1. /\ Running' = {u} /\ upd'[u].at = "extract"
              /\ upd'[u].base = upd[u].base /\ upd'[u].fresh = upd[u].fresh
          BY <4>2, <4>1, GotoRuns DEF Alive, Swapping, Watching, Undoing
        <5>2. UNCHANGED dir
          BY <4>2, <4>1
        <5>3. Identity'
          BY <4>2, <4>1, <5>2 DEF Identity
        <5>4. Progress(u)'
          BY <4>2, <2>12, <4>1, <5>1, <5>2 DEF Progress, Download, Swapping,
             Watching, Undoing
        <5> QED BY <4>1, <5>1, <5>3, <5>4, OneRuns DEF HostInv
      <4>3. CASE UNCHANGED <<dir, proc, nid>> /\ End(u, "failed")
        <5>1. Running' = {}
          BY <4>3, <4>1, EndRuns
        <5>2. UNCHANGED dir
          BY <4>3, <4>1
        <5>3. Identity'
          BY <4>3, <4>1, <5>2 DEF Identity
        <5> QED BY <5>1, <5>3, NobodyRuns DEF HostInv
      <4> QED BY <2>12, <4>2, <4>3 DEF Download, GetBundle
    <3> QED BY <3>2, <3>3
  <2>13. ASSUME NEW u \in Updaters, Extract(u) PROVE HostInv'
    <3>1. /\ upd[u].at \in Alive /\ UNCHANGED <<token, script, bye, mixed, known>>
          /\ (proc' = proc /\ nid' = nid) \/ (proc' = "down" /\ nid' = FALSE)
      BY <2>13 DEF Extract, UpdFrame, Alive, Swapping, Watching, Undoing
    <3>2. CASE mixed
      BY <3>1, <3>2 DEF HostInv
    <3>3. CASE ~mixed
      <4> USE <3>1, <3>3
      <4>1. Running = {u} /\ script = "off" /\ bye = "off" /\ Identity /\ Progress(u)
        BY Sole
      <4>2. CASE /\ UNCHANGED <<proc, nid>> /\ Goto(u, "verify")
                 /\ dir' = [dir EXCEPT !["new"] =
                       [ver |-> upd[u].bundle.ver, works |-> upd[u].bundle.works,
                        id |-> FALSE]]
        <5>1. /\ Running' = {u} /\ upd'[u].at = "verify"
              /\ upd'[u].base = upd[u].base /\ upd'[u].fresh = upd[u].fresh
          BY <4>2, <4>1, GotoRuns DEF Alive, Swapping, Watching, Undoing
        <5>2. dir'["cur"] = dir["cur"]
          BY <4>2, <4>1 DEF Dirs
        <5>3. Identity'
          BY <4>2, <4>1, <5>2 DEF Identity
        <5>4. Progress(u)'
          BY <4>2, <2>13, <4>1, <5>1, <5>2 DEF Progress, Extract, Swapping,
             Watching, Undoing
        <5> QED BY <4>1, <5>1, <5>3, <5>4, OneRuns DEF HostInv
      <4>3. CASE /\ UNCHANGED <<proc, nid>> /\ End(u, "failed")
                 /\ dir' = [dir EXCEPT !["new"] = Nothing]
        <5>1. Running' = {}
          BY <4>3, <4>1, EndRuns
        <5>2. dir'["cur"] = dir["cur"]
          BY <4>3, <4>1 DEF Dirs
        <5>3. Identity'
          BY <4>3, <4>1, <5>2 DEF Identity
        <5> QED BY <5>1, <5>3, NobodyRuns DEF HostInv
      <4> QED BY <2>13, <4>2, <4>3 DEF Extract
    <3> QED BY <3>2, <3>3
  <2>14. ASSUME NEW u \in Updaters, Verify(u) PROVE HostInv'
    <3>1. /\ upd[u].at \in Alive /\ UNCHANGED <<token, script, bye, mixed, known>>
          /\ (proc' = proc /\ nid' = nid) \/ (proc' = "down" /\ nid' = FALSE)
      BY <2>14 DEF Verify, UpdFrame, Alive, Swapping, Watching, Undoing,
         Preserved
    <3>2. CASE mixed
      BY <3>1, <3>2 DEF HostInv
    <3>3. CASE ~mixed
      <4> USE <3>1, <3>3
      <4>1. Running = {u} /\ script = "off" /\ bye = "off" /\ Identity /\ Progress(u)
        BY Sole
      <4>2. CASE /\ UNCHANGED <<proc, nid>> /\ Goto(u, "rmOld")
                 /\ dir["new"].ver = Target
                 /\ dir' = [dir EXCEPT !["new"].id = dir["cur"].id]
        <5>1. /\ Running' = {u} /\ upd'[u].at = "rmOld"
              /\ upd'[u].base = upd[u].base /\ upd'[u].fresh = upd[u].fresh
          BY <4>2, <4>1, GotoRuns DEF Alive, Swapping, Watching, Undoing
        <5>2. /\ dir'["cur"] = dir["cur"] /\ dir'["new"].ver = Target
              /\ dir'["new"].id = dir["cur"].id
          BY <4>2, <4>1 DEF Dirs, Directory
        <5>3. Identity'
          BY <4>2, <4>1, <5>2 DEF Identity
        <5>4. Progress(u)'
          BY <4>2, <2>14, <4>1, <5>1, <5>2 DEF Progress, Verify, Swapping,
             Watching, Undoing
        <5> QED BY <4>1, <5>1, <5>3, <5>4, OneRuns DEF HostInv
      <4>3. CASE UNCHANGED <<dir, proc, nid>> /\ End(u, "failed")
        <5>1. Running' = {}
          BY <4>3, <4>1, EndRuns
        <5>2. UNCHANGED dir
          BY <4>3, <4>1
        <5>3. Identity'
          BY <4>3, <4>1, <5>2 DEF Identity
        <5> QED BY <5>1, <5>3, NobodyRuns DEF HostInv
      <4> QED BY <2>14, <4>2, <4>3 DEF Verify, Preserved
    <3> QED BY <3>2, <3>3
  <2>15. ASSUME NEW u \in Updaters, RemoveOld(u) PROVE HostInv'
    <3>1. /\ upd[u].at \in Alive /\ UNCHANGED <<token, script, bye, mixed, known>>
          /\ (proc' = proc /\ nid' = nid) \/ (proc' = "down" /\ nid' = FALSE)
      BY <2>15 DEF RemoveOld, UpdFrame, Alive, Swapping, Watching, Undoing
    <3>2. CASE mixed
      BY <3>1, <3>2 DEF HostInv
    <3>3. CASE ~mixed
      <4> USE <3>1, <3>3
      <4>1. Running = {u} /\ script = "off" /\ bye = "off" /\ Identity /\ Progress(u)
        BY Sole
      <4>2. CASE /\ UNCHANGED <<proc, nid>> /\ Goto(u, "mvCur")
                 /\ dir' = [dir EXCEPT !["old"] = Nothing]
        <5>1. /\ Running' = {u} /\ upd'[u].at = "mvCur"
              /\ upd'[u].base = upd[u].base /\ upd'[u].fresh = upd[u].fresh
          BY <4>2, <4>1, GotoRuns DEF Alive, Swapping, Watching, Undoing
        <5>2. dir'["cur"] = dir["cur"] /\ dir'["new"] = dir["new"]
          BY <4>2, <4>1 DEF Dirs
        <5>3. Identity'
          BY <4>2, <4>1, <5>2 DEF Identity
        <5>4. Progress(u)'
          BY <4>2, <2>15, <4>1, <5>1, <5>2 DEF Progress, RemoveOld, Swapping,
             Watching, Undoing
        <5> QED BY <4>1, <5>1, <5>3, <5>4, OneRuns DEF HostInv
      <4>3. CASE UNCHANGED <<dir, proc, nid>> /\ End(u, "failed")
        <5>1. Running' = {}
          BY <4>3, <4>1, EndRuns
        <5>2. UNCHANGED dir
          BY <4>3, <4>1
        <5>3. Identity'
          BY <4>3, <4>1, <5>2 DEF Identity
        <5> QED BY <5>1, <5>3, NobodyRuns DEF HostInv
      <4> QED BY <2>15, <4>2, <4>3 DEF RemoveOld
    <3> QED BY <3>2, <3>3
  <2>16. ASSUME NEW u \in Updaters, MoveCurrent(u) PROVE HostInv'
    <3>1. /\ upd[u].at \in Alive /\ UNCHANGED <<token, script, bye, mixed, known>>
          /\ (proc' = proc /\ nid' = nid) \/ (proc' = "down" /\ nid' = FALSE)
      BY <2>16 DEF MoveCurrent, UpdFrame, Alive, Swapping, Watching, Undoing
    <3>2. CASE mixed
      BY <3>1, <3>2 DEF HostInv
    <3>3. CASE ~mixed
      <4> USE <3>1, <3>3
      <4>1. Running = {u} /\ script = "off" /\ bye = "off" /\ Identity /\ Progress(u)
        BY Sole
      <4>2. CASE /\ UNCHANGED <<proc, nid>> /\ Goto(u, "mvNew")
                 /\ dir["cur"] # Nothing /\ dir' = Moved("cur", "old")
        <5>1. /\ Running' = {u} /\ upd'[u].at = "mvNew"
              /\ upd'[u].base = upd[u].base /\ upd'[u].fresh = upd[u].fresh
          BY <4>2, <4>1, GotoRuns DEF Alive, Swapping, Watching, Undoing
        <5>2. /\ dir'["cur"] = Nothing /\ dir'["new"] = dir["new"]
              /\ dir'["old"] = dir["cur"]
          BY <4>2, <4>1 DEF Moved, Dirs
        <5>3. Identity'
          BY <4>2, <4>1, <5>2 DEF Identity
        <5>4. Progress(u)'
          BY <4>2, <2>16, <4>1, <5>1, <5>2 DEF Progress, MoveCurrent, Swapping,
             Watching, Undoing
        <5> QED BY <4>1, <5>1, <5>3, <5>4, OneRuns DEF HostInv
      <4>3. CASE UNCHANGED <<dir, proc, nid>> /\ End(u, "failed")
        <5>1. Running' = {}
          BY <4>3, <4>1, EndRuns
        <5>2. UNCHANGED dir
          BY <4>3, <4>1
        <5>3. Identity'
          BY <4>3, <4>1, <5>2 DEF Identity
        <5> QED BY <5>1, <5>3, NobodyRuns DEF HostInv
      <4> QED BY <2>16, <4>2, <4>3 DEF MoveCurrent
    <3> QED BY <3>2, <3>3
  <2>17. ASSUME NEW u \in Updaters, MoveNew(u) PROVE HostInv'
    <3>1. /\ upd[u].at \in Alive /\ UNCHANGED <<token, script, bye, mixed, known>>
          /\ (proc' = proc /\ nid' = nid) \/ (proc' = "down" /\ nid' = FALSE)
      BY <2>17 DEF MoveNew, UpdFrame, Alive, Swapping, Watching, Undoing,
         Restored
    <3>2. CASE mixed
      BY <3>1, <3>2 DEF HostInv
    <3>3. CASE ~mixed
      <4> USE <3>1, <3>3
      <4>1. Running = {u} /\ script = "off" /\ bye = "off" /\ Identity /\ Progress(u)
        BY Sole
      <4>2. CASE /\ UNCHANGED <<proc, nid>> /\ Goto(u, "restart")
                 /\ dir["new"] # Nothing /\ dir' = Moved("new", "cur")
        <5>1. /\ Running' = {u} /\ upd'[u].at = "restart"
              /\ upd'[u].base = upd[u].base /\ upd'[u].fresh = upd[u].fresh
          BY <4>2, <4>1, GotoRuns DEF Alive, Swapping, Watching, Undoing
        <5>2. dir'["cur"] = dir["new"] /\ dir'["old"] = dir["old"]
          BY <4>2, <4>1 DEF Moved, Dirs
        <5>3. Identity'
          BY <2>17, <4>2, <4>1, <5>2 DEF MoveNew, Identity, Progress, Swapping,
             Watching, Undoing
        <5>4. Progress(u)'
          BY <4>2, <2>17, <4>1, <5>1, <5>2 DEF Progress, MoveNew, Swapping,
             Watching, Undoing
        <5> QED BY <4>1, <5>1, <5>3, <5>4, OneRuns DEF HostInv
      <4>3. CASE /\ UNCHANGED <<proc, nid>> /\ End(u, "failed")
                 /\ dir["old"] # Nothing /\ dir' = Moved("old", "cur")
        <5>1. Running' = {}
          BY <4>3, <4>1, EndRuns
        <5>2. dir'["cur"] = dir["old"]
          BY <4>3, <4>1 DEF Moved, Dirs
        <5>3. Identity'
          BY <2>17, <4>3, <4>1, <5>2 DEF MoveNew, Identity, Progress, Swapping,
             Watching, Undoing
        <5> QED BY <5>1, <5>3, NobodyRuns DEF HostInv
      <4>4. CASE UNCHANGED <<dir, proc, nid>> /\ End(u, "unrestored")
        <5>1. Running' = {}
          BY <4>4, <4>1, EndRuns
        <5>2. UNCHANGED dir
          BY <4>4, <4>1
        <5>3. Identity'
          BY <4>4, <4>1, <5>2 DEF Identity
        <5> QED BY <5>1, <5>3, NobodyRuns DEF HostInv
      <4> QED BY <2>17, <4>2, <4>3, <4>4 DEF MoveNew, Restored
    <3> QED BY <3>2, <3>3
  <2>18. ASSUME NEW u \in Updaters, Restart(u) PROVE HostInv'
    <3>1. /\ upd[u].at \in Alive /\ UNCHANGED <<token, script, bye, mixed, known>>
          /\ (proc' = proc /\ nid' = nid) \/ (proc' = "down" /\ nid' = FALSE)
      BY <2>18 DEF Restart, UpdFrame, Alive, Swapping, Watching, Undoing,
         SystemctlRestart, Down
    <3>2. CASE mixed
      BY <3>1, <3>2 DEF HostInv
    <3>3. CASE ~mixed
      <4> USE <3>1, <3>3
      <4>1. Running = {u} /\ script = "off" /\ bye = "off" /\ Identity /\ Progress(u)
        BY Sole
      <4>2. CASE UNCHANGED dir /\ Down /\ killMode = "control-group" /\ upd' = KilledWith
        <5>1. Running' = {}
          BY <4>2, <4>1, KilledRuns
        <5>2. Identity'
          BY <4>2, <4>1 DEF Identity, Down
        <5> QED BY <4>2, <5>1, <5>2, NobodyRuns DEF Down
      <4>3. CASE UNCHANGED dir /\ Down /\ Goto(u, "stamp")
        <5>1. /\ Running' = {u} /\ upd'[u].at = "stamp"
              /\ upd'[u].base = upd[u].base /\ upd'[u].fresh = upd[u].fresh
          BY <4>3, <4>1, GotoRuns DEF Alive, Swapping, Watching, Undoing
        <5>2. UNCHANGED dir /\ proc' = "down" /\ nid' = FALSE
          BY <4>3, <4>1 DEF Down
        <5>3. Identity'
          BY <4>3, <4>1, <5>2 DEF Identity
        <5>4. Progress(u)'
          BY <4>3, <2>18, <4>1, <5>1, <5>2 DEF Progress, Restart, Swapping,
             Watching, Undoing
        <5> QED BY <4>1, <5>1, <5>3, <5>4, <5>2, OneRuns
      <4>4. CASE UNCHANGED <<dir, proc, nid>> /\ Goto(u, "rbRm")
        <5>1. /\ Running' = {u} /\ upd'[u].at = "rbRm"
              /\ upd'[u].base = upd[u].base /\ upd'[u].fresh = upd[u].fresh
          BY <4>4, <4>1, GotoRuns DEF Alive, Swapping, Watching, Undoing
        <5>2. UNCHANGED dir
          BY <4>4, <4>1
        <5>3. Identity'
          BY <4>4, <4>1, <5>2 DEF Identity
        <5>4. Progress(u)'
          BY <4>4, <2>18, <4>1, <5>1, <5>2 DEF Progress, Restart, Swapping,
             Watching, Undoing
        <5> QED BY <4>1, <5>1, <5>3, <5>4, OneRuns DEF HostInv
      <4> QED BY <2>18, <4>2, <4>3, <4>4 DEF Restart, SystemctlRestart, Down
    <3> QED BY <3>2, <3>3
  <2>19. ASSUME NEW u \in Updaters, Stamp(u) PROVE HostInv'
    <3>1. /\ upd[u].at = "stamp"
          /\ UNCHANGED <<dir, proc, nid, token, script, bye, mixed, known>>
      BY <2>19 DEF Stamp, UpdFrame
    <3>2. CASE mixed
      BY <3>1, <3>2 DEF HostInv
    <3>3. CASE ~mixed
      <4>1. Running = {u} /\ script = "off" /\ bye = "off" /\ Identity /\ Progress(u)
        BY <3>1, <3>3, Sole DEF Alive, Watching
      <4>2. /\ upd'[u].at = "poll" /\ upd'[u].base = upd[u].base
            /\ upd'[u].fresh = FALSE
        BY <2>19 DEF Stamp, Updater
      <4>3. Running' = {u}
        BY <2>19, <4>1, <4>2 DEF Stamp, Running, Alive, Watching
      <4>4. Identity' BY <3>1, <4>1 DEF Identity
      <4>5. Progress(u)'
        BY <3>1, <4>1, <4>2 DEF Progress, Swapping, Watching, Undoing
      <4> QED BY <3>1, <4>1, <4>3, <4>4, <4>5, OneRuns DEF HostInv
    <3> QED BY <3>2, <3>3
  <2>20. ASSUME NEW u \in Updaters, Poll(u) PROVE HostInv'
    <3>1. /\ upd[u].at \in Alive /\ UNCHANGED <<token, script, bye, mixed, known>>
          /\ (proc' = proc /\ nid' = nid) \/ (proc' = "down" /\ nid' = FALSE)
      BY <2>20 DEF Poll, UpdFrame, Alive, Swapping, Watching, Undoing
    <3>2. CASE mixed
      BY <3>1, <3>2 DEF HostInv
    <3>3. CASE ~mixed
      <4> USE <3>1, <3>3
      <4>1. Running = {u} /\ script = "off" /\ bye = "off" /\ Identity /\ Progress(u)
        BY Sole
      <4>2. CASE UNCHANGED <<dir, proc, nid>> /\ End(u, "success")
        <5>1. Running' = {}
          BY <4>2, <4>1, EndRuns
        <5>2. UNCHANGED dir
          BY <4>2, <4>1
        <5>3. Identity'
          BY <4>2, <4>1, <5>2 DEF Identity
        <5> QED BY <5>1, <5>3, NobodyRuns DEF HostInv
      <4>3. CASE UNCHANGED <<dir, proc, nid>> /\ Goto(u, "rbRm")
        <5>1. /\ Running' = {u} /\ upd'[u].at = "rbRm"
              /\ upd'[u].base = upd[u].base /\ upd'[u].fresh = upd[u].fresh
          BY <4>3, <4>1, GotoRuns DEF Alive, Swapping, Watching, Undoing
        <5>2. UNCHANGED dir
          BY <4>3, <4>1
        <5>3. Identity'
          BY <4>3, <4>1, <5>2 DEF Identity
        <5>4. Progress(u)'
          BY <4>3, <2>20, <4>1, <5>1, <5>2 DEF Progress, Poll, Swapping,
             Watching, Undoing
        <5> QED BY <4>1, <5>1, <5>3, <5>4, OneRuns DEF HostInv
      <4> QED BY <2>20, <4>2, <4>3 DEF Poll
    <3> QED BY <3>2, <3>3
  <2>21. ASSUME NEW u \in Updaters, RollbackStep(u) PROVE HostInv'
    <3>1. /\ upd[u].at \in Alive /\ UNCHANGED <<token, script, bye, mixed, known>>
          /\ (proc' = proc /\ nid' = nid) \/ (proc' = "down" /\ nid' = FALSE)
      BY <2>21 DEF RollbackStep, UpdFrame, Alive, Swapping, Watching, Undoing,
         SystemctlRestart, Down
    <3>2. CASE mixed
      BY <3>1, <3>2 DEF HostInv
    <3>3. CASE ~mixed
      <4> USE <3>1, <3>3
      <4>1. Running = {u} /\ script = "off" /\ bye = "off" /\ Identity /\ Progress(u)
        BY Sole
      <4>2. CASE UNCHANGED <<dir, proc, nid>> /\ upd[u].at = "rbRm" /\ Goto(u, "rbStash")
        <5>1. /\ Running' = {u} /\ upd'[u].at = "rbStash"
              /\ upd'[u].base = upd[u].base /\ upd'[u].fresh = upd[u].fresh
          BY <4>2, <4>1, GotoRuns DEF Alive, Swapping, Watching, Undoing
        <5>2. UNCHANGED dir
          BY <4>2, <4>1
        <5>3. Identity'
          BY <4>2, <4>1, <5>2 DEF Identity
        <5>4. Progress(u)'
          BY <4>2, <2>21, <4>1, <5>1, <5>2 DEF Progress, Swapping, Watching,
             Undoing
        <5> QED BY <4>1, <5>1, <5>3, <5>4, OneRuns DEF HostInv
      <4>3. CASE /\ UNCHANGED <<proc, nid>> /\ upd[u].at = "rbStash"
                 /\ Goto(u, "rbRestore") /\ dir' = [dir EXCEPT !["cur"] = Nothing]
        <5>1. /\ Running' = {u} /\ upd'[u].at = "rbRestore"
              /\ upd'[u].base = upd[u].base /\ upd'[u].fresh = upd[u].fresh
          BY <4>3, <4>1, GotoRuns DEF Alive, Swapping, Watching, Undoing
        <5>2. dir'["cur"] = Nothing /\ dir'["old"] = dir["old"]
          BY <4>3, <4>1 DEF Dirs
        <5>3. Identity'
          BY <4>3, <4>1, <5>2 DEF Identity
        <5>4. Progress(u)'
          BY <4>3, <2>21, <4>1, <5>1, <5>2 DEF Progress, Swapping, Watching,
             Undoing
        <5> QED BY <4>1, <5>1, <5>3, <5>4, OneRuns DEF HostInv
      <4>4. CASE /\ UNCHANGED <<proc, nid>> /\ upd[u].at = "rbRestore"
                 /\ Goto(u, "rbRestart") /\ dir' = Moved("old", "cur")
        <5>1. /\ Running' = {u} /\ upd'[u].at = "rbRestart"
              /\ upd'[u].base = upd[u].base /\ upd'[u].fresh = upd[u].fresh
          BY <4>4, <4>1, GotoRuns DEF Alive, Swapping, Watching, Undoing
        <5>2. dir'["cur"] = dir["old"]
          BY <4>4, <4>1 DEF Moved, Dirs
        <5>3. Identity'
          BY <4>4, <4>1, <5>2 DEF Identity, Progress, Swapping, Watching,
             Undoing
        <5>4. Progress(u)'
          BY <4>4, <2>21, <4>1, <5>1, <5>2 DEF Progress, Swapping, Watching,
             Undoing
        <5> QED BY <4>1, <5>1, <5>3, <5>4, OneRuns DEF HostInv
      <4>5. CASE UNCHANGED dir /\ Down /\ killMode = "control-group" /\ upd' = KilledWith
        <5>1. Running' = {}
          BY <4>5, <4>1, KilledRuns
        <5>2. Identity'
          BY <4>5, <4>1 DEF Identity, Down
        <5> QED BY <4>5, <5>1, <5>2, NobodyRuns DEF Down
      <4>6. CASE UNCHANGED dir /\ Down /\ End(u, "rolled-back")
        <5>1. Running' = {}
          BY <4>6, <4>1, EndRuns
        <5>2. UNCHANGED dir /\ proc' = "down" /\ nid' = FALSE
          BY <4>6, <4>1 DEF Down
        <5>3. Identity'
          BY <4>6, <4>1, <5>2 DEF Identity
        <5> QED BY <5>1, <5>3, <5>2, NobodyRuns
      <4>7. CASE UNCHANGED <<dir, proc, nid>> /\ End(u, "rollback-failed")
        <5>1. Running' = {}
          BY <4>7, <4>1, EndRuns
        <5>2. UNCHANGED dir
          BY <4>7, <4>1
        <5>3. Identity'
          BY <4>7, <4>1, <5>2 DEF Identity
        <5> QED BY <5>1, <5>3, NobodyRuns DEF HostInv
      <4> QED BY <2>21, <4>2, <4>3, <4>4, <4>5, <4>6, <4>7 DEF RollbackStep,
         SystemctlRestart, Down
    <3> QED BY <3>2, <3>3
  <2>22. ASSUME CmdDeprovision PROVE HostInv'
    <3>1. /\ proc = "set" /\ proc' = "boot"
          /\ UNCHANGED <<dir, nid, token, upd, script, known>>
      BY <2>22 DEF CmdDeprovision
    <3>2. CASE mixed'
      BY <3>1, <3>2 DEF HostInv
    <3>3. CASE ~mixed'
      <4>1. ~mixed /\ Running = {}
        BY <2>22, <3>3 DEF CmdDeprovision
      <4>2. Running' = {} BY <3>1, <4>1 DEF Running
      <4>3. Identity' BY <3>1, <4>1 DEF HostInv, Identity
      <4> QED BY <3>1, <4>2, <4>3, NobodyRuns
    <3> QED BY <3>2, <3>3
  <2>23. ASSUME DeprovisionStop PROVE HostInv'
    <3>1. /\ proc' = "down" /\ nid' = FALSE
          /\ UNCHANGED <<dir, token, script, mixed, known>>
      BY <2>23 DEF DeprovisionStop, Down
    <3>2. CASE mixed
      BY <3>1, <3>2 DEF HostInv
    <3>3. CASE ~mixed
      <4>1. Running = {}
        BY <2>23, <3>3 DEF DeprovisionStop, HostInv, Alone
      <4>2. Running' = {} BY <2>23, <4>1, KilledRuns DEF DeprovisionStop
      <4>3. Identity' BY <3>1, <3>3 DEF HostInv, Identity
      <4> QED BY <3>1, <4>2, <4>3, NobodyRuns
    <3> QED BY <3>2, <3>3
  <2>24. ASSUME DeprovisionUnit PROVE HostInv'
    <3>1. UNCHANGED <<dir, proc, nid, upd, script, mixed, known>> /\ token' = "none"
      BY <2>24 DEF DeprovisionUnit, Dirs
    <3>2. CASE mixed
      BY <3>1, <3>2 DEF HostInv
    <3>3. CASE ~mixed
      <4>1. Running = {}
        BY <2>24, <3>3 DEF DeprovisionUnit, HostInv, Alone
      <4>2. Running' = {} BY <3>1, <4>1 DEF Running
      <4>3. Identity' BY <3>1, <3>3 DEF HostInv, Identity
      <4> QED BY <3>1, <4>2, <4>3, NobodyRuns DEF HostInv
    <3> QED BY <3>2, <3>3
  <2>25. ASSUME DeprovisionDirs PROVE HostInv'
    <3>1. /\ UNCHANGED <<proc, nid, token, upd, script, mixed>>
          /\ dir'["cur"] = Nothing /\ known' = FALSE
      BY <2>25 DEF DeprovisionDirs, Dirs
    <3>2. CASE mixed
      BY <3>1, <3>2 DEF HostInv
    <3>3. CASE ~mixed
      <4>1. Running = {}
        BY <2>25, <3>3 DEF DeprovisionDirs, HostInv, Alone
      <4>2. Running' = {} BY <3>1, <4>1 DEF Running
      <4>3. Identity' BY <3>1, <3>3 DEF HostInv, Identity
      <4> QED BY <3>1, <4>2, <4>3, NobodyRuns DEF HostInv
    <3> QED BY <3>2, <3>3
  <2>26. ASSUME FirewallNoHost PROVE HostInv'
    BY <2>26, QuietHost DEF FirewallNoHost, FwFrame, HostInv
  <2>27. ASSUME FirewallFlush PROVE HostInv'
    BY <2>27, QuietHost DEF FirewallFlush, FwFrame, HostInv
  <2>28. ASSUME FirewallFinish PROVE HostInv'
    BY <2>28, QuietHost DEF FirewallFinish, FwFrame, HostInv
  <2>29. ASSUME FirewallRefused PROVE HostInv'
    BY <2>29, QuietHost DEF FirewallRefused, FwFrame, HostInv
  <2>30. ASSUME UNCHANGED vars PROVE HostInv'
    BY <2>30 DEF vars, HostInv, Alone, Identity, Progress, Running
  <2> QED
    BY <2>1, <2>2, <2>3, <2>4, <2>5, <2>6, <2>7, <2>7a, <2>8, <2>9, <2>10, <2>11,
       <2>12, <2>13, <2>14, <2>15, <2>16, <2>17, <2>18, <2>19, <2>20, <2>21,
       <2>22, <2>23, <2>24, <2>25, <2>26, <2>27, <2>28, <2>29, <2>30 DEF Next,
       UpdaterStep
<1> QED BY <1>1, <1>2, TypeCorrect, PTL DEF Spec

\* A machine that has stored its node id never runs an agent that does not know
\* it: updates and rollbacks carry the file along, whenever they are cut off.
THEOREM IdentityKeptCorrect == Spec => []IdentityKept
<1>1. HostInv => IdentityKept
  BY DEF HostInv, Identity, IdentityKept
<1> QED BY <1>1, HostInvCorrect, PTL

\* What an updater reports is true: after success the agent in place is one of
\* the target version that connected since the restart, after failed or
\* rolled-back it is the one the update found, node-id file and all; after a
\* swap that could not be undone or a failed rollback that one is in -old, if it
\* is not in place.
THEOREM OutcomeTrueCorrect == Spec => OutcomeTrue
<1> DEFINE True(u) ==
      /\ result' = "success" => dir'["cur"].ver = Target /\ dir'["cur"].works
      /\ result' \in {"failed", "rolled-back"} => dir'["cur"] = upd[u].base
      /\ result' \in {"unrestored", "rollback-failed"} =>
           upd[u].base \in {dir'["cur"], dir'["old"]}
<1>1. ASSUME TypeOK, HostInv, Next
      PROVE  \A u \in Updaters : u \in Running /\ upd'[u].at = "off" /\ ~mixed' =>
               True(u)
  <2> SUFFICES ASSUME NEW u \in Updaters, u \in Running, upd'[u].at = "off", ~mixed'
               PROVE  True(u)
    OBVIOUS
  <2> USE <1>1 DEF TypeOK
  <2>1. upd[u].at \in Alive /\ upd[u].at # "off" /\ upd'[u] # upd[u] /\ upd'[u].at # upd[u].at
    BY DEF Running, Alive, Swapping, Watching, Undoing
  <2>2. upd' # KilledWith
    BY <2>1 DEF KilledWith, Ended
  <2>3. PICK v \in Updaters : UpdaterStep(v)
    <3>1. ~(\E b \in Shipped : InstallFiles(b))
      BY <2>1 DEF InstallFiles
    <3>2. ~InstallUnit
      BY <2>2 DEF InstallUnit
    <3>3. ~AgentStart
      BY <2>1 DEF AgentStart
    <3>4. ~AgentExit
      BY <2>2 DEF AgentExit
    <3>5. ~Open
      BY <2>1 DEF Open, Updater
    <3>6. ~RegisterById
      BY <2>1 DEF RegisterById
    <3>7. ~RegisterByToken
      BY <2>1 DEF RegisterByToken
    <3>7a. ~AcceptLost
      BY <2>1 DEF AcceptLost
    <3>8. ~Rejected
      BY <2>1 DEF Rejected
    <3>9. ~Drop
      BY <2>1 DEF Drop
    <3>10. ~Reboot
      BY <2>1 DEF Reboot, Ended
    <3>11. ~(\E w \in Updaters, b \in Bundles : CmdUpdate(w, b))
      BY <2>1 DEF CmdUpdate, LaunchUpdater
    <3>12. ~CmdDeprovision
      BY <2>1 DEF CmdDeprovision
    <3>13. ~DeprovisionStop
      BY <2>2 DEF DeprovisionStop
    <3>14. ~DeprovisionUnit
      BY <2>1 DEF DeprovisionUnit
    <3>15. ~DeprovisionDirs
      BY <2>1 DEF DeprovisionDirs
    <3>16. ~FirewallNoHost
      BY <2>1 DEF FirewallNoHost, FwFrame
    <3>17. ~FirewallFlush
      BY <2>1 DEF FirewallFlush, FwFrame
    <3>18. ~FirewallFinish
      BY <2>1 DEF FirewallFinish, FwFrame
    <3>19. ~FirewallRefused
      BY <2>1 DEF FirewallRefused, FwFrame
    <3> QED
      BY <1>1, <3>1, <3>2, <3>3, <3>4, <3>5, <3>6, <3>7, <3>7a, <3>8, <3>9, <3>10,
         <3>11, <3>12, <3>13, <3>14, <3>15, <3>16, <3>17, <3>18, <3>19 DEF Next
  <2>4. upd[v].at \in Alive /\ mixed' = mixed
    BY <2>3 DEF UpdaterStep, Download, Extract, Verify, RemoveOld, MoveCurrent,
       MoveNew, Restart, Stamp, Poll, RollbackStep, UpdFrame, Alive, Swapping,
       Watching, Undoing
  <2>5. v = u /\ Progress(u)
    <3>1. Running = {v} /\ Progress(v) BY <2>4, Sole
    <3> QED BY <3>1
  <2>6. ASSUME NEW at \in Alive PROVE ~Goto(u, at)
    <3>1. at # "off" BY DEF Alive, Swapping, Watching, Undoing
    <3>2. [upd[u] EXCEPT !.at = at].at = at BY DEF Updater
    <3> QED BY <3>1, <3>2 DEF Goto
  <2>7. UpdaterStep(u) BY <2>3, <2>5
  <2> USE DEF Alive, Swapping, Watching, Undoing
  <2>8. ASSUME Download(u) PROVE result' = "failed" /\ dir'["cur"] = upd[u].base
    <3>1. End(u, "failed") /\ dir'["cur"] = dir["cur"]
      BY <2>8, <2>6 DEF Download, Dirs, GetBundle
    <3>2. upd[u].at \in Swapping \ {"mvNew"} BY <2>8 DEF Download
    <3> QED BY <3>1, <3>2, <2>5 DEF End, Progress
  <2>9. ASSUME Extract(u) PROVE result' = "failed" /\ dir'["cur"] = upd[u].base
    <3>1. End(u, "failed") /\ dir'["cur"] = dir["cur"]
      BY <2>9, <2>6 DEF Extract, Dirs
    <3>2. upd[u].at \in Swapping \ {"mvNew"} BY <2>9 DEF Extract
    <3> QED BY <3>1, <3>2, <2>5 DEF End, Progress
  <2>10. ASSUME Verify(u) PROVE result' = "failed" /\ dir'["cur"] = upd[u].base
    <3>1. End(u, "failed") /\ dir'["cur"] = dir["cur"]
      BY <2>10, <2>6 DEF Verify, Dirs
    <3>2. upd[u].at \in Swapping \ {"mvNew"} BY <2>10 DEF Verify
    <3> QED BY <3>1, <3>2, <2>5 DEF End, Progress
  <2>11. ASSUME RemoveOld(u)
         PROVE  result' = "failed" /\ dir'["cur"] = upd[u].base
    <3>1. End(u, "failed") /\ dir'["cur"] = dir["cur"]
      BY <2>11, <2>6 DEF RemoveOld, Dirs
    <3>2. upd[u].at \in Swapping \ {"mvNew"} BY <2>11 DEF RemoveOld
    <3> QED BY <3>1, <3>2, <2>5 DEF End, Progress
  <2>12. ASSUME MoveCurrent(u)
         PROVE  result' = "failed" /\ dir'["cur"] = upd[u].base
    <3>1. End(u, "failed") /\ dir'["cur"] = dir["cur"]
      BY <2>12, <2>6 DEF MoveCurrent, Dirs
    <3>2. upd[u].at \in Swapping \ {"mvNew"} BY <2>12 DEF MoveCurrent
    <3> QED BY <3>1, <3>2, <2>5 DEF End, Progress
  <2>13. ASSUME MoveNew(u) PROVE True(u)
    <3>1. dir["old"] = upd[u].base BY <2>5, <2>13 DEF MoveNew, Progress
    <3>2. CASE End(u, "failed") /\ dir' = Moved("old", "cur")
      BY <3>1, <3>2 DEF Moved, Dirs, End
    <3>3. CASE End(u, "unrestored") /\ dir' = dir
      BY <3>1, <3>3 DEF End
    <3> QED BY <2>13, <2>6, <3>2, <3>3 DEF MoveNew, Restored
  <2>14. ~Restart(u)
    BY <2>2, <2>6 DEF Restart, SystemctlRestart
  <2>15. ~Stamp(u)
    BY <2>1 DEF Stamp, Updater
  <2>16. ASSUME Poll(u)
         PROVE  result' = "success" /\ dir'["cur"].ver = Target /\ dir'["cur"].works
    <3>1. End(u, "success") /\ upd[u].at = "poll" /\ upd[u].fresh /\ dir' = dir
      BY <2>6, <2>16 DEF Poll, HealthCheckPasses
    <3> QED BY <2>5, <3>1 DEF End, Progress
  <2>17. ASSUME RollbackStep(u) PROVE True(u)
    <3>1. CASE End(u, "rolled-back") /\ upd[u].at = "rbRestart" /\ dir' = dir
      BY <2>5, <3>1 DEF End, Progress
    <3>2. CASE End(u, "rollback-failed") /\ upd[u].at \in Undoing /\ dir' = dir
      BY <2>5, <3>2 DEF End, Progress
    <3> QED BY <2>2, <2>6, <2>17, <3>1, <3>2 DEF RollbackStep, SystemctlRestart
  <2> QED BY <2>7, <2>8, <2>9, <2>10, <2>11, <2>12, <2>13, <2>14, <2>15, <2>16,
             <2>17 DEF UpdaterStep
<1>2. TypeOK /\ HostInv /\ [Next]_vars
        => [\A u \in Updaters : u \in Running /\ upd'[u].at = "off" /\ ~mixed' =>
              True(u)]_vars
  BY <1>1
<1> QED BY <1>2, TypeCorrect, HostInvCorrect, PTL DEF Spec, OutcomeTrue

=============================================================================
