---------------------------- MODULE Ollama_proofs ----------------------------
(***************************************************************************)
(* Machine-checked proofs about Ollama, for any deployments and models of  *)
(* the node and any number of commands and faults.                         *)
(***************************************************************************)
EXTENDS Ollama, TLAPS

\* An undeploy of d that has not yet cleared the memory and the store.
Undeploying(d) ==
  \E i \in Ids : task[i].dep = d /\ task[i].at \in {"unload", "unloaded"}

\* A deleted row: its command was lost, its undeploy still runs, or nothing of
\* it is left on the node.
GoneRows ==
  \A d \in Deps : row[d] = "gone" =>
    d \in lost \/ Undeploying(d) \/ d \notin active \cup Stored

\* No handler has the number of a command that was not sent yet.
NewNumbers == \A i \in Ids : i > budget.cmds => task[i].at = "over"

\* The inductive invariant behind GoneIsForgotten.
GoneInv == GoneRows /\ NewNumbers

\* The inductive invariant behind NoFalseEviction: what is resident, what the tick
\* has an opinion of, and what it has just read as loaded, is counted as resident
\* since the last deploy.
FreshInv ==
  \A d \in Deps : /\ Resident(d) => d \in fresh
                  /\ last[d] # "none" => d \in fresh
                  /\ Overtaken(d) => d \in fresh

USE DEF manager, memory, ollama, Aside

-----------------------------------------------------------------------------
(* Types, and the parts the actions share.                                 *)

\* The handler that is over.
LEMMA NoTaskType == NoTask \in Handler /\ NoTask.at = "over"
BY DEF NoTask, Handler

\* The loop that does not run.
LEMMA IdleType == Idle \in Loop /\ Idle.at = "off"
BY DEF Idle, Loop

\* The number of the next command is one of Ids.
LEMMA NumberType ==
  ASSUME budget \in [cmds : Nat, faults : Nat, moves : Nat],
         budget.cmds < MaxCmds
  PROVE  Number \in Ids /\ Number > budget.cmds
BY OllamaAssumption DEF Number, Ids, OllamaAssumption

\* A report takes one row to what it says, and deletes it only when a deletion
\* is confirmed.
LEMMA TellType ==
  ASSUME row \in [Deps -> Rows], NEW d \in Deps, NEW s \in Reported,
         NEW del \in BOOLEAN, Tell(d, s, del)
  PROVE  /\ row' \in [Deps -> Rows]
         /\ \A e \in Deps : row'[e] = "gone" /\ row[e] # "gone"
                              => e = d /\ s = "stopped" /\ del
<1>1. CASE ~link \/ row[d] = "gone"
  BY <1>1 DEF Tell, Handled
<1>2. CASE link /\ row[d] # "gone" /\ s = "stopped" /\ del
  <2>1. row' = [row EXCEPT ![d] = "gone"]
    BY <1>2 DEF Tell, Handled
  <2> QED BY <1>2, <2>1 DEF Rows
<1>3. CASE link /\ row[d] # "gone" /\ ~(s = "stopped" /\ del)
  <2>1. row' = [row EXCEPT ![d] = s]
    BY <1>3 DEF Tell, Handled
  <2>2. s \in Rows /\ s # "gone" BY DEF Rows, Reported
  <2> QED BY <1>3, <2>1, <2>2
<1> QED BY <1>1, <1>2, <1>3

\* A handler that goes on, and one that is over.
LEMMA PlaceType ==
  ASSUME TypeOK, NEW i \in Ids, task[i].at # "over",
         NEW x \in {"pull", "load", "verify", "unloaded"},
         task' = [task EXCEPT ![i].at = x]
  PROVE  /\ task' \in [Ids -> Handler]
         /\ task'[i].at = x /\ task'[i].dep = task[i].dep
         /\ \A j \in Ids : j # i => task'[j] = task[j]
         /\ \A j \in Ids : task'[j].at # "over" => task'[j].dep \in Deps
<1>1. /\ [task[i] EXCEPT !.at = x] \in Handler
      /\ [task[i] EXCEPT !.at = x].at = x
      /\ [task[i] EXCEPT !.at = x].dep = task[i].dep
  BY DEF Handler, TypeOK
<1> QED BY <1>1 DEF TypeOK

\* A handler that ends leaves the others as they are.
LEMMA OverType ==
  ASSUME TypeOK, NEW i \in Ids, task' = [task EXCEPT ![i] = NoTask]
  PROVE  /\ task' \in [Ids -> Handler]
         /\ task'[i].at = "over"
         /\ \A j \in Ids : j # i => task'[j] = task[j]
         /\ \A j \in Ids : task'[j].at # "over" => task'[j].dep \in Deps
BY NoTaskType DEF TypeOK

\* deployModel's catch.
LEMMA FailType ==
  ASSUME TypeOK, NEW i \in Ids, task[i].at # "over", Fail(i)
  PROVE  /\ task[i].dep \in Deps
         /\ active' = active \ {task[i].dep}
         /\ store' = [store EXCEPT ![task[i].dep] = "none"]
         /\ store' \in [Deps -> {"none", "kept", "stopping"}]
         /\ task' = [task EXCEPT ![i] = NoTask]
         /\ row' \in [Deps -> Rows]
         /\ \A e \in Deps : row'[e] = "gone" => row[e] = "gone"
<1>1. task[i].dep \in Deps BY DEF TypeOK
<1>2. Tell(task[i].dep, "failed", FALSE) BY DEF Fail
<1>3. /\ row' \in [Deps -> Rows]
      /\ \A e \in Deps : row'[e] = "gone" => row[e] = "gone"
  BY <1>1, <1>2, TellType DEF TypeOK, Reported
<1> QED BY <1>1, <1>3 DEF Fail, TypeOK

\* A step of the reconcile loop: it tracks only what the store keeps.
LEMMA AdvanceType ==
  ASSUME TypeOK, NEW todo \in SUBSET Deps, NEW failed \in SUBSET Deps,
         Advance(todo, failed)
  PROVE  /\ rec' \in Loop
         /\ rec'.at \in {"probe", "report", "restore"} => rec'.dep \in Deps
         /\ pending' \subseteq Deps
         /\ active' \subseteq active \cup {e \in Deps : store[e] = "kept"}
<1> DEFINE there == {d \in todo : StillThere(d)}
<1>1. CASE there = {}
  <2>1. rec' = Idle /\ pending' = failed \ todo /\ active' = active
    BY <1>1 DEF Advance
  <2> QED BY <2>1, IdleType
<1>2. CASE there # {}
  <2>1. PICK d \in there :
          /\ rec' = [Idle EXCEPT !.at = "probe", !.dep = d, !.todo = there \ {d}]
          /\ pending' = failed \ (todo \ there)
          /\ active' = active \cup {d}
    BY <1>2 DEF Advance, Track
  <2>2. d \in Deps /\ store[d] = "kept" /\ there \ {d} \in SUBSET Deps
    BY <2>1 DEF StillThere
  <2>3. rec' = [at |-> "probe", todo |-> there \ {d}, dep |-> d]
    BY <2>1 DEF Idle
  <2>4. rec' \in Loop /\ rec'.dep \in Deps
    BY <2>2, <2>3 DEF Loop
  <2> QED BY <2>1, <2>2, <2>4
<1> QED BY <1>1, <1>2

\* What the beginning of a reconcile leaves behind.
LEMMA ReconcileType ==
  ASSUME TypeOK, Reconcile
  PROVE  /\ rec' \in Loop
         /\ rec'.at \in {"probe", "report", "restore"} => rec'.dep \in Deps
         /\ pending' \subseteq Deps
         /\ active' \subseteq active \cup {e \in Deps : store[e] = "kept"}
<1>1. CASE UNCHANGED <<rec, pending, active>>
  BY <1>1 DEF TypeOK
<1>2. CASE Advance(Stored, pending)
  <2>1. Stored \in SUBSET Deps /\ pending \in SUBSET Deps
    BY DEF Stored, TypeOK
  <2> QED BY <1>2, <2>1, AdvanceType
<1>3. CASE /\ rec' = [Idle EXCEPT !.at = "others", !.todo = Stored]
           /\ UNCHANGED <<pending, active>>
  <2>1. rec' = [at |-> "others", todo |-> Stored, dep |-> "none"]
    BY <1>3 DEF Idle
  <2>2. rec' \in Loop
    BY <2>1 DEF Loop, Stored
  <2> QED BY <1>3, <2>1, <2>2 DEF TypeOK
<1> QED BY <1>1, <1>2, <1>3 DEF Reconcile

\* What the loop says of its deployment before it goes on.
LEMMA RecSaysType ==
  ASSUME TypeOK, rec.at \in {"report", "restore"}, NEW s \in {"running", "failed"},
         NEW failed \in SUBSET Deps, RecSays(s, failed)
  PROVE  /\ TypeOK'
         /\ active' \subseteq active \cup {e \in Deps : store[e] = "kept"}
         /\ \A e \in Deps : row'[e] = "gone" => row[e] = "gone"
<1>1. rec.dep \in Deps /\ rec.todo \in SUBSET Deps
  BY DEF TypeOK, Loop
<1>2. Tell(rec.dep, s, FALSE) /\ Advance(rec.todo, failed)
  BY DEF RecSays
<1>3. /\ row' \in [Deps -> Rows]
      /\ \A e \in Deps : row'[e] = "gone" => row[e] = "gone"
  <2>1. s \in Reported /\ FALSE \in BOOLEAN BY DEF Reported
  <2>2. row \in [Deps -> Rows] BY DEF TypeOK
  <2> QED BY <1>1, <1>2, <2>1, <2>2, TellType
<1>4. /\ rec' \in Loop /\ pending' \subseteq Deps
      /\ rec'.at \in {"probe", "report", "restore"} => rec'.dep \in Deps
      /\ active' \subseteq active \cup {e \in Deps : store[e] = "kept"}
  BY <1>1, <1>2, AdvanceType
<1>5. active' \subseteq Deps BY <1>4 DEF TypeOK
<1> QED BY <1>3, <1>4, <1>5 DEF RecSays, TypeOK

\* How the loop reports on a deployment and goes on.
LEMMA RecSaysCases ==
  ASSUME TypeOK, RecReport \/ RecGivesUp
  PROVE  \E s \in {"running", "failed"}, failed \in SUBSET Deps :
           rec.at \in {"report", "restore"} /\ RecSays(s, failed)
<1>1. CASE RecReport
  <2>1. pending \ {rec.dep} \in SUBSET Deps BY DEF TypeOK
  <2> QED BY <1>1, <2>1 DEF RecReport
<1>2. CASE RecGivesUp
  <2>1. pending \cup {rec.dep} \in SUBSET Deps BY <1>2 DEF RecGivesUp, TypeOK
  <2> QED BY <1>2, <2>1 DEF RecGivesUp
<1> QED BY <1>1, <1>2

\* A request in progress: the command arrives, or it is lost.
LEMMA RequestType ==
  ASSUME TypeOK, NEW d \in Deps, budget.cmds < MaxCmds,
         budget' = [budget EXCEPT !.cmds = @ + 1],
         NEW x \in Rows, row' = [row EXCEPT ![d] = x],
         NEW h \in Handler, h.dep = d,
         wipe' \subseteq Deps, lost' \subseteq Deps,
         task' \in [Ids -> Handler],
         \A i \in Ids : i # Number => task'[i].at = task[i].at
                                      /\ task'[i].dep = task[i].dep,
         task'[Number] = h \/ task'[Number] = task[Number],
         ctl' \in [Deps -> 0..MaxCmds],
         active' \subseteq Deps, fresh' \subseteq Deps,
         store' \in [Deps -> {"none", "kept", "stopping"}],
         last' \in [Deps -> {"none", "running", "evicted"}],
         UNCHANGED <<hub, link, look, pending, rec, service, loaded>>
  PROVE  TypeOK'
<1>1. budget' \in [cmds : Nat, faults : Nat, moves : Nat] BY DEF TypeOK
<1>2. row' \in [Deps -> Rows] BY DEF TypeOK
<1>3. \A i \in Ids : task'[i].at # "over" => task'[i].dep \in Deps
  BY DEF TypeOK
<1> QED BY <1>1, <1>2, <1>3 DEF TypeOK

\* Sending a deploy keeps the types.
LEMMA DeployType ==
  ASSUME TypeOK, NEW d \in Deps, NEW to \in {"pending", "restarting"},
         Request(d, to, "starting", CmdDeploy(d, Number)), wipe' \subseteq Deps
  PROVE  TypeOK'
<1> DEFINE h == [at |-> "ensure", dep |-> d, del |-> FALSE, aborted |-> FALSE]
<1>1. Number \in Ids BY NumberType DEF Request, TypeOK
<1>2. h \in Handler /\ h.dep = d BY DEF Handler
<1>3. {"starting", "pending", "restarting"} \subseteq Rows
  BY DEF Rows, Reported
<1>4. CASE link
  <2>1. task' = [task EXCEPT ![Number] = h]
    BY <1>4 DEF Request, CmdDeploy, DeployModel, NoTask
  <2>2. /\ task' \in [Ids -> Handler] /\ task'[Number] = h
        /\ \A i \in Ids : i # Number => task'[i] = task[i]
    BY <1>1, <1>2, <2>1 DEF TypeOK
  <2>3. /\ ctl' \in [Deps -> 0..MaxCmds]
        /\ store' \in [Deps -> {"none", "kept", "stopping"}]
        /\ last' \in [Deps -> {"none", "running", "evicted"}]
        /\ active' \subseteq Deps /\ fresh' \subseteq Deps
    <3>1. CmdDeploy(d, Number) BY <1>4 DEF Request
    <3>2. Number \in 0..MaxCmds
      BY <1>1, OllamaAssumption DEF Ids, OllamaAssumption
    <3>3. ctl' \in [Deps -> 0..MaxCmds]
      BY <3>1, <3>2 DEF CmdDeploy, DeployModel, TypeOK
    <3> QED BY <3>1, <3>3 DEF CmdDeploy, DeployModel, ResetLast, TypeOK
  <2>4. /\ row' = [row EXCEPT ![d] = "starting"] /\ lost' = lost
        /\ budget.cmds < MaxCmds /\ budget' = [budget EXCEPT !.cmds = @ + 1]
        /\ UNCHANGED <<hub, link, look, pending, rec, service, loaded>>
    BY <1>4 DEF Request
  <2>5. lost' \subseteq Deps BY <2>4 DEF TypeOK
  <2> HIDE DEF h
  <2> QED BY <1>2, <1>3, <2>2, <2>3, <2>4, <2>5, RequestType
<1>5. CASE ~link
  <2>1. /\ row' = [row EXCEPT ![d] = to] /\ lost' = lost \cup {d}
        /\ UNCHANGED <<task, ctl, last, active, store, fresh>>
        /\ budget.cmds < MaxCmds /\ budget' = [budget EXCEPT !.cmds = @ + 1]
        /\ UNCHANGED <<hub, link, look, pending, rec, service, loaded>>
    BY <1>5 DEF Request
  <2>2. lost' \subseteq Deps BY <2>1 DEF TypeOK
  <2> HIDE DEF h
  <2> QED BY <1>2, <1>3, <2>1, <2>2, RequestType DEF TypeOK
<1> QED BY <1>4, <1>5

\* A reading the tick has still to use is of one of the deployments.
LEMMA LookType ==
  ASSUME TypeOK, look # NoLook
  PROVE  look \in [dep : Deps, loaded : BOOLEAN]
BY DEF TypeOK

\* What the tick makes of its reading: nothing, or a report.
LEMMA TickApplyType ==
  ASSUME TypeOK, TickApply
  PROVE  /\ look.dep \in Deps /\ look' = NoLook
         /\ row' \in [Deps -> Rows]
         /\ \A e \in Deps : row'[e] = "gone" => row[e] = "gone"
         /\ \/ last' = last
            \/ \E s \in {"running", "evicted"} :
                 /\ s = Transition(look.loaded, last[look.dep])
                 /\ last' = [last EXCEPT ![look.dep] = s]
<1> DEFINE d == look.dep
           s == Transition(look.loaded, last[d])
<1>1. d \in Deps /\ look' = NoLook
  BY LookType DEF TickApply
<1>2. CASE s = "none"
  <2>1. last' = last /\ row' = row BY <1>2 DEF TickApply
  <2> QED BY <1>1, <2>1 DEF TypeOK
<1>3. CASE s # "none"
  <2>1. s \in {"running", "evicted"} /\ s \in Reported /\ FALSE \in BOOLEAN
    BY <1>3 DEF Transition, Reported
  <2>2. Tell(d, s, FALSE) /\ last' = [last EXCEPT ![d] = s]
    BY <1>3 DEF TickApply
  <2>3. /\ row' \in [Deps -> Rows]
        /\ \A e \in Deps : row'[e] = "gone" => row[e] = "gone"
    <3> HIDE DEF s, d
    <3>1. row \in [Deps -> Rows] BY DEF TypeOK
    <3> QED BY <1>1, <2>1, <2>2, <3>1, TellType
  <2> QED BY <1>1, <2>1, <2>2, <2>3
<1> QED BY <1>2, <1>3

\* The handlers when an undeploy begins: its own, and the pull it aborts.
LEMMA UndeployTask ==
  ASSUME TypeOK, NEW d \in Deps, NEW n \in Ids, NEW del \in BOOLEAN,
         CmdUndeploy(d, n, del)
  PROVE  /\ task' \in [Ids -> Handler]
         /\ task'[n] = [at |-> "unload", dep |-> d, del |-> del, aborted |-> FALSE]
         /\ \A i \in Ids : i # n => task'[i].at = task[i].at
                                     /\ task'[i].dep = task[i].dep
<1> DEFINE h == [at |-> "unload", dep |-> d, del |-> del, aborted |-> FALSE]
           s == IF ctl[d] = 0 \/ task[ctl[d]].at = "over" THEN task
                ELSE [task EXCEPT ![ctl[d]].aborted = TRUE]
<1>1. h \in Handler BY DEF Handler
<1>2. /\ s \in [Ids -> Handler]
      /\ \A i \in Ids : s[i].at = task[i].at /\ s[i].dep = task[i].dep
  <2>1. CASE ctl[d] = 0 \/ task[ctl[d]].at = "over"
    BY <2>1 DEF TypeOK
  <2>2. CASE ~(ctl[d] = 0 \/ task[ctl[d]].at = "over")
    <3>1. ctl[d] \in Ids
      BY <2>2, OllamaAssumption DEF TypeOK, Ids, OllamaAssumption
    <3>2. LET t == [task[ctl[d]] EXCEPT !.aborted = TRUE]
          IN  t \in Handler /\ t.at = task[ctl[d]].at /\ t.dep = task[ctl[d]].dep
      BY <3>1 DEF TypeOK, Handler
    <3> QED BY <2>2, <3>1, <3>2 DEF TypeOK
  <2> QED BY <2>1, <2>2
<1>3. task' = [s EXCEPT ![n] = h] BY DEF CmdUndeploy
<1> HIDE DEF h, s
<1>4. /\ task' \in [Ids -> Handler] /\ task'[n] = h
      /\ \A i \in Ids : i # n => task'[i] = s[i]
  BY <1>1, <1>2, <1>3
<1> QED BY <1>2, <1>4 DEF h

\* Sending an undeploy keeps the types.
LEMMA UndeployType ==
  ASSUME TypeOK, NEW d \in Deps, NEW to \in {"removing", "gone"},
         NEW del \in BOOLEAN,
         Request(d, to, "stopping", CmdUndeploy(d, Number, del)),
         wipe' \subseteq Deps
  PROVE  TypeOK'
<1> DEFINE h == [at |-> "unload", dep |-> d, del |-> del, aborted |-> FALSE]
<1>1. Number \in Ids BY NumberType DEF Request, TypeOK
<1>2. h \in Handler /\ h.dep = d BY DEF Handler
<1>3. {"stopping", "removing", "gone"} \subseteq Rows
  BY DEF Rows, Reported
<1>4. CASE link
  <2>1. CmdUndeploy(d, Number, del) BY <1>4 DEF Request
  <2>2. /\ task' \in [Ids -> Handler] /\ task'[Number] = h
        /\ \A i \in Ids : i # Number => task'[i].at = task[i].at
                                         /\ task'[i].dep = task[i].dep
    BY <1>1, <2>1, UndeployTask
  <2>3. /\ ctl' \in [Deps -> 0..MaxCmds]
        /\ store' \in [Deps -> {"none", "kept", "stopping"}]
        /\ last' \in [Deps -> {"none", "running", "evicted"}]
        /\ active' \subseteq Deps /\ fresh' \subseteq Deps
    BY <2>1, OllamaAssumption DEF CmdUndeploy, TypeOK, OllamaAssumption
  <2>4. /\ row' = [row EXCEPT ![d] = IF to = "gone" THEN to ELSE "stopping"]
        /\ lost' = lost
        /\ budget.cmds < MaxCmds /\ budget' = [budget EXCEPT !.cmds = @ + 1]
        /\ UNCHANGED <<hub, link, look, pending, rec, service, loaded>>
    BY <1>4 DEF Request
  <2>5. lost' \subseteq Deps BY <2>4 DEF TypeOK
  <2>6. (IF to = "gone" THEN to ELSE "stopping") \in Rows BY <1>3
  <2> HIDE DEF h
  <2> QED BY <1>2, <2>2, <2>3, <2>4, <2>5, <2>6, RequestType
<1>5. CASE ~link
  <2>1. /\ row' = [row EXCEPT ![d] = to] /\ lost' = lost \cup {d}
        /\ UNCHANGED <<task, ctl, last, active, store, fresh>>
        /\ budget.cmds < MaxCmds /\ budget' = [budget EXCEPT !.cmds = @ + 1]
        /\ UNCHANGED <<hub, link, look, pending, rec, service, loaded>>
    BY <1>5 DEF Request
  <2>2. lost' \subseteq Deps BY <2>1 DEF TypeOK
  <2> HIDE DEF h
  <2> QED BY <1>2, <1>3, <2>1, <2>2, RequestType DEF TypeOK
<1> QED BY <1>4, <1>5

\* Every variable keeps its type.
THEOREM TypeCorrect == Spec => []TypeOK
<1>1. Init => TypeOK
  <2> SUFFICES ASSUME Init PROVE TypeOK
    OBVIOUS
  <2>1. row \in [Deps -> Rows] /\ store \in [Deps -> {"none", "kept", "stopping"}]
    BY DEF Init, Rows, Reported
  <2>2. service \in {"down", "queued", "up"} /\ loaded \subseteq Models
    BY OllamaAssumption DEF Init, OllamaAssumption
  <2>3. task \in [Ids -> Handler] /\ \A i \in Ids : task[i].at = "over"
    BY NoTaskType DEF Init
  <2>4. ctl \in [Deps -> 0..MaxCmds]
    BY OllamaAssumption DEF Init, OllamaAssumption
  <2> QED BY <2>1, <2>2, <2>3, <2>4, IdleType DEF Init, TypeOK
<1>2. TypeOK /\ [Next]_vars => TypeOK'
  <2> SUFFICES ASSUME TypeOK, [Next]_vars PROVE TypeOK'
    OBVIOUS
  <2>1. ASSUME NEW d \in Deps, Create(d) PROVE TypeOK'
    BY <2>1, DeployType DEF Create, TypeOK
  <2>2. ASSUME NEW d \in Deps, Restart(d) PROVE TypeOK'
    BY <2>2, DeployType DEF Restart, TypeOK
  <2>3. ASSUME NEW d \in Deps, Stop(d) PROVE TypeOK'
    BY <2>3, UndeployType DEF Stop, TypeOK
  <2>4. ASSUME NEW d \in Deps, Delete(d) PROVE TypeOK'
    <3>1. wipe' \subseteq Deps
      BY <2>4 DEF Delete, TypeOK
    <3> QED BY <2>4, <3>1, UndeployType DEF Delete
  <2>5. ASSUME HubPsWrite PROVE TypeOK'
    <3>1. PICK w \in hub :
            IF row[w[1]] = "gone" THEN row' = row /\ hub' = {}
            ELSE row' = [row EXCEPT ![w[1]] = w[2]] /\ hub' = hub \ {w}
      BY <2>5 DEF HubPsWrite
    <3>2. w[1] \in Deps /\ w[2] \in Rows
      BY DEF TypeOK, Rows, Reported
    <3>3. row' \in [Deps -> Rows] /\ hub' \subseteq hub
      BY <3>1, <3>2 DEF TypeOK
    <3> QED BY <2>5, <3>3 DEF HubPsWrite, TypeOK
  <2>6. ASSUME RecOthers PROVE TypeOK'
    <3>1. rec.todo \in SUBSET Deps /\ pending \in SUBSET Deps
      BY DEF TypeOK, Loop
    <3>2. /\ rec' \in Loop /\ pending' \subseteq Deps /\ active' \subseteq Deps
          /\ rec'.at \in {"probe", "report", "restore"} => rec'.dep \in Deps
      BY <2>6, <3>1, AdvanceType DEF RecOthers, TypeOK
    <3> QED BY <2>6, <3>2 DEF RecOthers, TypeOK
  <2>7. ASSUME RecProbe PROVE TypeOK'
    <3>1. /\ rec' \in Loop /\ service' \in {"down", "queued", "up"}
          /\ rec'.at \in {"report", "restore"} /\ rec'.dep = rec.dep
      BY <2>7 DEF RecProbe, TypeOK, Loop
    <3>2. rec.dep \in Deps BY <2>7 DEF RecProbe, TypeOK
    <3> QED BY <2>7, <3>1, <3>2 DEF RecProbe, TypeOK
  <2>8. ASSUME RecReport PROVE TypeOK'
    BY <2>8, RecSaysCases, RecSaysType
  <2>9. ASSUME RecGivesUp PROVE TypeOK'
    BY <2>9, RecSaysCases, RecSaysType
  <2>10. ASSUME TickBegin PROVE TypeOK'
    <3>1. hub' \subseteq Deps \X {"running", "evicted"}
      BY <2>10 DEF TickBegin, Corrections, Believed
    <3>2. /\ rec' \in Loop /\ pending' \subseteq Deps /\ active' \subseteq Deps
          /\ rec'.at \in {"probe", "report", "restore"} => rec'.dep \in Deps
      <4>1. CASE Reconcile BY <4>1, ReconcileType DEF TypeOK
      <4>2. CASE UNCHANGED <<rec, pending, active>> BY <4>2 DEF TypeOK
      <4> QED BY <2>10, <4>1, <4>2 DEF TickBegin
    <3> QED BY <2>10, <3>1, <3>2 DEF TickBegin, TypeOK
  <2>11. ASSUME NEW d \in Deps, TickLook(d) PROVE TypeOK'
    <3>1. look' \in [dep : Deps, loaded : BOOLEAN]
      <4>1. PICK b \in BOOLEAN : look' = [dep |-> d, loaded |-> b]
        BY <2>11 DEF TickLook
      <4> QED BY <4>1
    <3>2. budget' \in [cmds : Nat, faults : Nat, moves : Nat]
      BY <2>11 DEF TickLook, Fault, TypeOK
    <3> QED BY <2>11, <3>1, <3>2 DEF TickLook, TypeOK
  <2>27. ASSUME TickApply PROVE TypeOK'
    <3>1. last' \in [Deps -> {"none", "running", "evicted"}]
      BY <2>27, TickApplyType DEF TypeOK
    <3> QED BY <2>27, <3>1, TickApplyType DEF TickApply, TypeOK
  <2>12. ASSUME NEW i \in Ids, EnsureStart(i) PROVE TypeOK'
    BY <2>12 DEF EnsureStart, TypeOK
  <2>13. ASSUME NEW i \in Ids, EnsureGivesUp(i) PROVE TypeOK'
    <3>1. task[i].at # "over" /\ Fail(i)
      BY <2>13 DEF EnsureGivesUp
    <3> QED BY <2>13, <3>1, FailType, OverType DEF EnsureGivesUp, TypeOK
  <2>14. ASSUME NEW i \in Ids, EnsureDone(i) PROVE TypeOK'
    <3>1. CASE task[i].aborted
      <4>1. task[i].at # "over" /\ Fail(i) BY <2>14, <3>1 DEF EnsureDone
      <4> QED BY <2>14, <4>1, FailType, OverType DEF EnsureDone, TypeOK
    <3>2. CASE ~task[i].aborted
      <4>1. /\ task[i].at # "over" /\ Tell(task[i].dep, "downloading", FALSE)
            /\ task' = [task EXCEPT ![i].at = "pull"] /\ UNCHANGED <<active, store>>
        BY <2>14, <3>2 DEF EnsureDone
      <4>2. row' \in [Deps -> Rows]
        BY <4>1, TellType DEF TypeOK, Reported
      <4> QED BY <2>14, <4>1, <4>2, PlaceType, OverType DEF EnsureDone, TypeOK
    <3> QED BY <3>1, <3>2
  <2>15. ASSUME NEW i \in Ids, PullDone(i) PROVE TypeOK'
    <3>1. CASE task[i].aborted
      <4>1. /\ task[i].at # "over" /\ Tell(task[i].dep, "running", FALSE)
            /\ task' = [task EXCEPT ![i] = NoTask] /\ UNCHANGED <<active, store>>
        BY <2>15, <3>1 DEF PullDone
      <4>2. row' \in [Deps -> Rows]
        BY <4>1, TellType DEF TypeOK, Reported
      <4> QED BY <2>15, <4>1, <4>2, PlaceType, OverType DEF PullDone, TypeOK
    <3>2. CASE ~task[i].aborted
      <4>1. /\ task[i].at # "over" /\ Tell(task[i].dep, "loading", FALSE)
            /\ task' = [task EXCEPT ![i].at = "load"] /\ UNCHANGED <<active, store>>
        BY <2>15, <3>2 DEF PullDone
      <4>2. row' \in [Deps -> Rows]
        BY <4>1, TellType DEF TypeOK, Reported
      <4> QED BY <2>15, <4>1, <4>2, PlaceType, OverType DEF PullDone, TypeOK
    <3> QED BY <3>1, <3>2
  <2>16. ASSUME NEW i \in Ids, CallFails(i) PROVE TypeOK'
    <3>1. task[i].at # "over" /\ Fail(i)
      BY <2>16 DEF CallFails
    <3> QED BY <2>16, <3>1, FailType, OverType DEF CallFails, TypeOK
  <2>17. ASSUME NEW i \in Ids, Load(i) PROVE TypeOK'
    <3>1. task[i].at # "over" /\ task' = [task EXCEPT ![i].at = "verify"]
      BY <2>17 DEF Load
    <3>2. loaded' \subseteq Models /\ fresh' \subseteq Deps
      BY <2>17, <3>1, OllamaAssumption DEF Load, TypeOK, Sharing,
         OllamaAssumption
    <3> QED BY <2>17, <3>1, <3>2, PlaceType DEF Load, TypeOK
  <2>18. ASSUME NEW i \in Ids, Verify(i) PROVE TypeOK'
    <3>1. /\ task[i].at # "over" /\ Tell(task[i].dep, "running", FALSE)
          /\ task' = [task EXCEPT ![i] = NoTask]
      BY <2>18 DEF Verify
    <3>2. row' \in [Deps -> Rows]
      BY <3>1, TellType DEF TypeOK, Reported
    <3> QED BY <2>18, <3>1, <3>2, OverType DEF Verify, TypeOK
  <2>19. ASSUME NEW i \in Ids, Unload(i) PROVE TypeOK'
    <3>1. task[i].at # "over" /\ task' = [task EXCEPT ![i].at = "unloaded"]
      BY <2>19 DEF Unload
    <3>2. loaded' \subseteq Models /\ budget' \in [cmds : Nat, faults : Nat, moves : Nat]
      BY <2>19 DEF Unload, Fault, TypeOK
    <3> QED BY <2>19, <3>1, <3>2, PlaceType DEF Unload, TypeOK
  <2>20. ASSUME NEW i \in Ids, StopDone(i) PROVE TypeOK'
    <3>1. /\ task[i].at # "over" /\ task[i].dep \in Deps /\ task[i].del \in BOOLEAN
          /\ Tell(task[i].dep, "stopped", task[i].del)
          /\ task' = [task EXCEPT ![i] = NoTask]
      BY <2>20 DEF StopDone, Confirm, TypeOK, Handler
    <3>2. row' \in [Deps -> Rows]
      BY <3>1, TellType DEF TypeOK, Reported
    <3>3. store' \in [Deps -> {"none", "kept", "stopping"}] /\ active' \subseteq Deps
      BY <2>20 DEF StopDone, Forget, TypeOK
    <3> QED BY <2>20, <3>1, <3>2, <3>3, OverType DEF StopDone, TypeOK
  <2>21. ASSUME NEW m \in Models, Move(m) PROVE TypeOK'
    <3>1. /\ loaded' \subseteq Models /\ fresh' \subseteq Deps
          /\ budget' \in [cmds : Nat, faults : Nat, moves : Nat]
      BY <2>21 DEF Move, Sharing, TypeOK
    <3> QED BY <2>21, <3>1 DEF Move, TypeOK
  <2>22. ASSUME ServiceStarts PROVE TypeOK'
    BY <2>22 DEF ServiceStarts, TypeOK
  <2>23. ASSUME LinkLoss PROVE TypeOK'
    <3>1. budget' \in [cmds : Nat, faults : Nat, moves : Nat]
      BY <2>23 DEF LinkLoss, Fault, TypeOK
    <3> QED BY <2>23, <3>1 DEF LinkLoss, TypeOK
  <2>24. ASSUME AgentDies PROVE TypeOK'
    <3>1. budget' \in [cmds : Nat, faults : Nat, moves : Nat]
      BY <2>24 DEF AgentDies, Fault, TypeOK
    <3>2. /\ task' \in [Ids -> Handler]
          /\ \A j \in Ids : task'[j].at # "over" => task'[j].dep \in Deps
      BY <2>24, NoTaskType DEF AgentDies
    <3>3. rec' \in Loop /\ rec'.at = "off"
      BY <2>24, IdleType DEF AgentDies
    <3>4. lost' \subseteq Deps
      BY <2>24 DEF AgentDies, TypeOK
    <3>5. ctl' \in [Deps -> 0..MaxCmds] /\ last' \in [Deps -> {"none", "running", "evicted"}]
      BY <2>24, OllamaAssumption DEF AgentDies, OllamaAssumption
    <3>6. service' \in {"down", "queued", "up"} /\ loaded' \subseteq Models
      BY <2>24 DEF AgentDies, TypeOK
    <3> QED BY <2>24, <3>1, <3>2, <3>3, <3>4, <3>5, <3>6 DEF AgentDies, TypeOK
  <2>25. ASSUME Reconnect PROVE TypeOK'
    <3>1. /\ rec' \in Loop /\ pending' \subseteq Deps /\ active' \subseteq Deps
          /\ rec'.at \in {"probe", "report", "restore"} => rec'.dep \in Deps
      BY <2>25, ReconcileType DEF Reconnect, TypeOK
    <3> QED BY <2>25, <3>1 DEF Reconnect, TypeOK
  <2>26. ASSUME UNCHANGED vars PROVE TypeOK'
    BY <2>26 DEF vars, TypeOK
  <2> QED
    BY <2>1, <2>2, <2>3, <2>4, <2>5, <2>6, <2>7, <2>8, <2>9, <2>10, <2>11,
       <2>12, <2>13, <2>14, <2>15, <2>16, <2>17, <2>18, <2>19, <2>20, <2>21,
       <2>22, <2>23, <2>24, <2>25, <2>26, <2>27 DEF Next, Requests, Rec, Task
<1> QED BY <1>1, <1>2, PTL DEF Spec

-----------------------------------------------------------------------------
(* Memory and store.                                                       *)

\* The reconcile never tracks a deployment that was torn down meanwhile: what
\* the agent has in memory it has on disk, however the loop, the handlers and
\* the restarts interleave.
THEOREM NoGhostCorrect == Spec => []NoGhost
<1>1. Init => NoGhost
  BY DEF Init, NoGhost
<1>2. TypeOK /\ NoGhost /\ [Next]_vars => NoGhost'
  <2> SUFFICES ASSUME TypeOK, NoGhost, [Next]_vars PROVE NoGhost'
    OBVIOUS
  <2>1. ASSUME NEW d \in Deps, Create(d) PROVE NoGhost'
    BY <2>1 DEF Create, Request, CmdDeploy, DeployModel, NoGhost, Stored, TypeOK
  <2>2. ASSUME NEW d \in Deps, Restart(d) PROVE NoGhost'
    BY <2>2 DEF Restart, Request, CmdDeploy, DeployModel, NoGhost, Stored,
       TypeOK
  <2>3. ASSUME NEW d \in Deps, Stop(d) PROVE NoGhost'
    BY <2>3 DEF Stop, Request, CmdUndeploy, NoGhost, Stored, TypeOK
  <2>4. ASSUME NEW d \in Deps, Delete(d) PROVE NoGhost'
    BY <2>4 DEF Delete, Request, CmdUndeploy, NoGhost, Stored, TypeOK
  <2>5. ASSUME HubPsWrite PROVE NoGhost'
    BY <2>5 DEF HubPsWrite, NoGhost, Stored
  <2>6. ASSUME RecOthers PROVE NoGhost'
    <3>1. rec.todo \in SUBSET Deps /\ pending \in SUBSET Deps /\ store' = store
      BY <2>6 DEF RecOthers, TypeOK, Loop
    <3>2. active' \subseteq active \cup {e \in Deps : store[e] = "kept"}
      BY <2>6, <3>1, AdvanceType DEF RecOthers
    <3> QED BY <3>1, <3>2 DEF NoGhost, Stored
  <2>7. ASSUME RecProbe PROVE NoGhost'
    BY <2>7 DEF RecProbe, NoGhost, Stored
  <2>8. ASSUME RecReport PROVE NoGhost'
    <3>1. active' \subseteq active \cup {e \in Deps : store[e] = "kept"}
      BY <2>8, RecSaysCases, RecSaysType
    <3>2. store' = store BY <2>8 DEF RecReport, RecSays
    <3> QED BY <3>1, <3>2 DEF NoGhost, Stored
  <2>9. ASSUME RecGivesUp PROVE NoGhost'
    <3>1. active' \subseteq active \cup {e \in Deps : store[e] = "kept"}
      BY <2>9, RecSaysCases, RecSaysType
    <3>2. store' = store BY <2>9 DEF RecGivesUp, RecSays
    <3> QED BY <3>1, <3>2 DEF NoGhost, Stored
  <2>10. ASSUME TickBegin PROVE NoGhost'
    <3>1. active' \subseteq active \cup {e \in Deps : store[e] = "kept"}
      BY <2>10, ReconcileType DEF TickBegin
    <3>2. store' = store BY <2>10 DEF TickBegin
    <3> QED BY <3>1, <3>2 DEF NoGhost, Stored
  <2>11. ASSUME NEW d \in Deps, TickLook(d) PROVE NoGhost'
    BY <2>11 DEF TickLook, NoGhost, Stored
  <2>27. ASSUME TickApply PROVE NoGhost'
    BY <2>27 DEF TickApply, NoGhost, Stored
  <2>12. ASSUME NEW i \in Ids, EnsureStart(i) PROVE NoGhost'
    BY <2>12 DEF EnsureStart, NoGhost, Stored
  <2>13. ASSUME NEW i \in Ids, EnsureGivesUp(i) PROVE NoGhost'
    <3>1. task[i].at # "over" /\ Fail(i) BY <2>13 DEF EnsureGivesUp
    <3>2. /\ task[i].dep \in Deps /\ active' = active \ {task[i].dep}
          /\ store' = [store EXCEPT ![task[i].dep] = "none"]
      BY <3>1, FailType
    <3> QED BY <3>2 DEF NoGhost, Stored, TypeOK
  <2>14. ASSUME NEW i \in Ids, EnsureDone(i) PROVE NoGhost'
    <3>1. CASE task[i].aborted
      <4>1. task[i].at # "over" /\ Fail(i) BY <2>14, <3>1 DEF EnsureDone
      <4>2. /\ task[i].dep \in Deps /\ active' = active \ {task[i].dep}
            /\ store' = [store EXCEPT ![task[i].dep] = "none"]
        BY <4>1, FailType
      <4> QED BY <4>2 DEF NoGhost, Stored, TypeOK
    <3>2. CASE ~task[i].aborted
      BY <2>14, <3>2 DEF EnsureDone, NoGhost, Stored
    <3> QED BY <3>1, <3>2
  <2>15. ASSUME NEW i \in Ids, PullDone(i) PROVE NoGhost'
    BY <2>15 DEF PullDone, NoGhost, Stored
  <2>16. ASSUME NEW i \in Ids, CallFails(i) PROVE NoGhost'
    <3>1. task[i].at # "over" /\ Fail(i) BY <2>16 DEF CallFails
    <3>2. /\ task[i].dep \in Deps /\ active' = active \ {task[i].dep}
          /\ store' = [store EXCEPT ![task[i].dep] = "none"]
      BY <3>1, FailType
    <3> QED BY <3>2 DEF NoGhost, Stored, TypeOK
  <2>17. ASSUME NEW i \in Ids, Load(i) PROVE NoGhost'
    BY <2>17 DEF Load, NoGhost, Stored
  <2>18. ASSUME NEW i \in Ids, Verify(i) PROVE NoGhost'
    BY <2>18 DEF Verify, NoGhost, Stored
  <2>19. ASSUME NEW i \in Ids, Unload(i) PROVE NoGhost'
    BY <2>19 DEF Unload, NoGhost, Stored
  <2>20. ASSUME NEW i \in Ids, StopDone(i) PROVE NoGhost'
    BY <2>20 DEF StopDone, Forget, NoGhost, Stored, TypeOK
  <2>21. ASSUME NEW m \in Models, Move(m) PROVE NoGhost'
    BY <2>21 DEF Move, NoGhost, Stored
  <2>22. ASSUME ServiceStarts PROVE NoGhost'
    BY <2>22 DEF ServiceStarts, NoGhost, Stored
  <2>23. ASSUME LinkLoss PROVE NoGhost'
    BY <2>23 DEF LinkLoss, NoGhost, Stored
  <2>24. ASSUME AgentDies PROVE NoGhost'
    BY <2>24 DEF AgentDies, NoGhost
  <2>25. ASSUME Reconnect PROVE NoGhost'
    <3>1. active' \subseteq active \cup {e \in Deps : store[e] = "kept"}
      BY <2>25, ReconcileType DEF Reconnect
    <3>2. store' = store BY <2>25 DEF Reconnect
    <3> QED BY <3>1, <3>2 DEF NoGhost, Stored
  <2>26. ASSUME UNCHANGED vars PROVE NoGhost'
    BY <2>26 DEF vars, NoGhost, Stored
  <2> QED
    BY <2>1, <2>2, <2>3, <2>4, <2>5, <2>6, <2>7, <2>8, <2>9, <2>10, <2>11,
       <2>12, <2>13, <2>14, <2>15, <2>16, <2>17, <2>18, <2>19, <2>20, <2>21,
       <2>22, <2>23, <2>24, <2>25, <2>26, <2>27 DEF Next, Requests, Rec, Task
<1> QED BY <1>1, <1>2, TypeCorrect, PTL DEF Spec

-----------------------------------------------------------------------------
(* Evictions.                                                              *)

\* The health tick never takes the load of a deploy for an eviction, unless the
\* deploy came between the tick's reading of the model as loaded and its use.
THEOREM NoFalseEvictionCorrect == Spec => []NoFalseEviction
<1>1. Init => FreshInv
  BY DEF Init, FreshInv
<1>2. TypeOK /\ FreshInv /\ [Next]_vars => FreshInv'
  <2> SUFFICES ASSUME TypeOK, FreshInv, [Next]_vars PROVE FreshInv'
    OBVIOUS
  <2>1. ASSUME NEW d \in Deps, Create(d) PROVE FreshInv'
    BY <2>1 DEF Create, Request, CmdDeploy, ResetLast, FreshInv, Resident, Overtaken,
       TypeOK
  <2>2. ASSUME NEW d \in Deps, Restart(d) PROVE FreshInv'
    BY <2>2 DEF Restart, Request, CmdDeploy, ResetLast, FreshInv, Resident, Overtaken,
       TypeOK
  <2>3. ASSUME NEW d \in Deps, Stop(d) PROVE FreshInv'
    BY <2>3 DEF Stop, Request, CmdUndeploy, FreshInv, Resident, Overtaken
  <2>4. ASSUME NEW d \in Deps, Delete(d) PROVE FreshInv'
    BY <2>4 DEF Delete, Request, CmdUndeploy, FreshInv, Resident, Overtaken
  <2>5. ASSUME HubPsWrite PROVE FreshInv'
    BY <2>5 DEF HubPsWrite, FreshInv, Resident, Overtaken
  <2>6. ASSUME RecOthers PROVE FreshInv'
    BY <2>6 DEF RecOthers, FreshInv, Resident, Overtaken
  <2>7. ASSUME RecProbe PROVE FreshInv'
    BY <2>7 DEF RecProbe, FreshInv, Resident, Overtaken
  <2>8. ASSUME RecReport PROVE FreshInv'
    BY <2>8 DEF RecReport, RecSays, FreshInv, Resident, Overtaken
  <2>9. ASSUME RecGivesUp PROVE FreshInv'
    BY <2>9 DEF RecGivesUp, RecSays, FreshInv, Resident, Overtaken
  <2>10. ASSUME TickBegin PROVE FreshInv'
    BY <2>10 DEF TickBegin, FreshInv, Resident, Overtaken
  <2>11. ASSUME NEW d \in Deps, TickLook(d) PROVE FreshInv'
    <3>1. UNCHANGED <<loaded, fresh, last>> BY <2>11 DEF TickLook
    <3>2. ASSUME NEW e \in Deps, Overtaken(e)' PROVE e = d /\ Resident(d)
      BY <2>11, <3>2 DEF TickLook, Overtaken
    <3> QED BY <3>1, <3>2 DEF FreshInv, Resident
  <2>27. ASSUME TickApply PROVE FreshInv'
    <3>1. UNCHANGED <<loaded, fresh>> BY <2>27 DEF TickApply
    <3>2. ~look'.loaded BY <2>27 DEF TickApply, NoLook
    <3>3. \A e \in Deps : last'[e] # "none" => e \in fresh
      <4>1. CASE last' = last BY <4>1 DEF FreshInv
      <4>2. CASE last' # last
        <5>1. PICK s \in {"running", "evicted"} :
                /\ s = Transition(look.loaded, last[look.dep])
                /\ last' = [last EXCEPT ![look.dep] = s]
          BY <2>27, <4>2, TickApplyType
        <5>2. look.dep \in Deps BY <2>27, TickApplyType
        <5>3. look.loaded \/ last[look.dep] # "none"
          BY <5>1 DEF Transition
        <5>4. look.dep \in fresh
          BY <5>2, <5>3 DEF FreshInv, Overtaken
        <5> QED BY <5>1, <5>2, <5>4 DEF FreshInv, TypeOK
      <4> QED BY <4>1, <4>2
    <3> QED BY <3>1, <3>2, <3>3 DEF FreshInv, Resident, Overtaken
  <2>12. ASSUME NEW i \in Ids, EnsureStart(i) PROVE FreshInv'
    BY <2>12 DEF EnsureStart, FreshInv, Resident, Overtaken
  <2>13. ASSUME NEW i \in Ids, EnsureGivesUp(i) PROVE FreshInv'
    BY <2>13 DEF EnsureGivesUp, FreshInv, Resident, Overtaken
  <2>14. ASSUME NEW i \in Ids, EnsureDone(i) PROVE FreshInv'
    BY <2>14 DEF EnsureDone, FreshInv, Resident, Overtaken
  <2>15. ASSUME NEW i \in Ids, PullDone(i) PROVE FreshInv'
    BY <2>15 DEF PullDone, FreshInv, Resident, Overtaken
  <2>16. ASSUME NEW i \in Ids, CallFails(i) PROVE FreshInv'
    BY <2>16 DEF CallFails, FreshInv, Resident, Overtaken
  <2>17. ASSUME NEW i \in Ids, Load(i) PROVE FreshInv'
    BY <2>17 DEF Load, Sharing, FreshInv, Resident, Overtaken
  <2>18. ASSUME NEW i \in Ids, Verify(i) PROVE FreshInv'
    BY <2>18 DEF Verify, FreshInv, Resident, Overtaken
  <2>19. ASSUME NEW i \in Ids, Unload(i) PROVE FreshInv'
    BY <2>19 DEF Unload, FreshInv, Resident, Overtaken
  <2>20. ASSUME NEW i \in Ids, StopDone(i) PROVE FreshInv'
    BY <2>20 DEF StopDone, FreshInv, Resident, Overtaken
  <2>21. ASSUME NEW m \in Models, Move(m) PROVE FreshInv'
    BY <2>21 DEF Move, Sharing, FreshInv, Resident, Overtaken
  <2>22. ASSUME ServiceStarts PROVE FreshInv'
    BY <2>22 DEF ServiceStarts, FreshInv, Resident, Overtaken
  <2>23. ASSUME LinkLoss PROVE FreshInv'
    BY <2>23 DEF LinkLoss, FreshInv, Resident, Overtaken
  <2>24. ASSUME AgentDies PROVE FreshInv'
    BY <2>24 DEF AgentDies, NoLook, FreshInv, Resident, Overtaken
  <2>25. ASSUME Reconnect PROVE FreshInv'
    BY <2>25 DEF Reconnect, FreshInv, Resident, Overtaken
  <2>26. ASSUME UNCHANGED vars PROVE FreshInv'
    BY <2>26 DEF vars, FreshInv, Resident, Overtaken
  <2> QED
    BY <2>1, <2>2, <2>3, <2>4, <2>5, <2>6, <2>7, <2>8, <2>9, <2>10, <2>11,
       <2>12, <2>13, <2>14, <2>15, <2>16, <2>17, <2>18, <2>19, <2>20, <2>21,
       <2>22, <2>23, <2>24, <2>25, <2>26, <2>27 DEF Next, Requests, Rec, Task
<1>3. FreshInv => NoFalseEviction
  BY DEF FreshInv, NoFalseEviction
<1> QED BY <1>1, <1>2, <1>3, TypeCorrect, PTL DEF Spec

-----------------------------------------------------------------------------
(* Deleted rows.                                                           *)

\* A step that starts and ends no handler, and deletes no row.
LEMMA GoneQuiet ==
  ASSUME GoneInv, \A e \in Deps : row'[e] = "gone" => row[e] = "gone",
         UNCHANGED <<lost, task, store>>, budget'.cmds = budget.cmds,
         active' \subseteq active \cup {e \in Deps : store[e] = "kept"}
  PROVE  GoneInv'
<1>1. NewNumbers' BY DEF GoneInv, NewNumbers
<1>2. \A e \in Deps : Undeploying(e) => Undeploying(e)' BY DEF Undeploying
<1>3. Stored' = Stored BY DEF Stored
<1>4. \A e \in Deps : e \in active' => e \in active \cup Stored BY DEF Stored
<1> QED BY <1>1, <1>2, <1>3, <1>4 DEF GoneInv, GoneRows

\* A step of a deploy's handler.
LEMMA GoneDeploy ==
  ASSUME GoneInv, NEW i \in Ids, task[i].at \notin {"over", "unload", "unloaded"},
         \A e \in Deps : row'[e] = "gone" => row[e] = "gone",
         \A j \in Ids : j # i => task'[j] = task[j],
         active' \subseteq active,
         \A e \in Deps : store[e] = "none" => store'[e] = "none",
         UNCHANGED <<lost, budget>>
  PROVE  GoneInv'
<1>1. NewNumbers' BY DEF GoneInv, NewNumbers
<1>2. \A e \in Deps : Undeploying(e) => Undeploying(e)' BY DEF Undeploying
<1>3. \A e \in Deps : e \notin Stored => e \notin Stored' BY DEF Stored
<1> QED BY <1>1, <1>2, <1>3 DEF GoneInv, GoneRows

\* The handler of a new command takes a number nobody has.
LEMMA NewTask ==
  ASSUME TypeOK, GoneInv, budget.cmds < MaxCmds, budget'.cmds = Number,
         \A i \in Ids \ {Number} : task'[i].at = task[i].at
                                   /\ task'[i].dep = task[i].dep
  PROVE  NewNumbers' /\ \A e \in Deps : Undeploying(e) => Undeploying(e)'
<1>1. Number \in Ids /\ Number > budget.cmds /\ budget.cmds \in Nat
  BY NumberType DEF TypeOK
<1>2. task[Number].at = "over" BY <1>1 DEF GoneInv, NewNumbers
<1>3. NewNumbers' BY <1>1 DEF GoneInv, NewNumbers, Number, Ids
<1>4. \A e \in Deps : Undeploying(e) => Undeploying(e)' BY <1>2 DEF Undeploying
<1> QED BY <1>3, <1>4

\* An undeploy: it is under way or lost, also when the row goes at once.
LEMMA GoneUndeploy ==
  ASSUME TypeOK, GoneInv, NEW d \in Deps, NEW to \in {"removing", "gone"},
         NEW del \in BOOLEAN,
         Request(d, to, "stopping", CmdUndeploy(d, Number, del))
  PROVE  GoneInv'
<1>1. budget.cmds < MaxCmds /\ budget'.cmds = Number
  BY DEF Request, Number, TypeOK
<1>2. Number \in Ids BY <1>1, NumberType DEF TypeOK
<1>3. \A e \in Deps : e # d /\ row'[e] = "gone" => row[e] = "gone"
  BY DEF Request, TypeOK
<1>4. CASE link
  <2>1. CmdUndeploy(d, Number, del) /\ lost' = lost BY <1>4 DEF Request
  <2>2. /\ task'[Number].at = "unload" /\ task'[Number].dep = d
        /\ \A i \in Ids : i # Number => task'[i].at = task[i].at
                                         /\ task'[i].dep = task[i].dep
    <3>1. /\ task'[Number] = [at |-> "unload", dep |-> d, del |-> del, aborted |-> FALSE]
          /\ \A i \in Ids : i # Number => task'[i].at = task[i].at
                                           /\ task'[i].dep = task[i].dep
      BY <1>2, <2>1, UndeployTask
    <3> QED BY <3>1
  <2>3. Undeploying(d)' BY <1>2, <2>2 DEF Undeploying
  <2>4. NewNumbers' /\ \A e \in Deps : Undeploying(e) => Undeploying(e)'
    BY <1>1, <2>2, NewTask
  <2>5. Stored' = Stored /\ active' = active
    BY <2>1 DEF CmdUndeploy, Stored, TypeOK
  <2> QED BY <1>3, <2>1, <2>3, <2>4, <2>5 DEF GoneInv, GoneRows
<1>5. CASE ~link
  <2>1. lost' = lost \cup {d} /\ UNCHANGED <<task, active, store>>
    BY <1>5 DEF Request
  <2>2. NewNumbers' /\ \A e \in Deps : Undeploying(e) => Undeploying(e)'
    BY <1>1, <2>1, NewTask
  <2> QED BY <1>3, <2>1, <2>2 DEF GoneInv, GoneRows, Stored
<1> QED BY <1>4, <1>5

\* Once a row is deleted and its undeploy has run, neither the memory the tick
\* reads nor the store the next reconcile reads would bring it back.
THEOREM GoneIsForgottenCorrect == Spec => []GoneIsForgotten
<1>1. Init => GoneInv
  BY NoTaskType DEF Init, GoneInv, GoneRows, NewNumbers
<1>2. TypeOK /\ GoneInv /\ [Next]_vars => GoneInv'
  <2> SUFFICES ASSUME TypeOK, GoneInv, [Next]_vars PROVE GoneInv'
    OBVIOUS
  <2>1. ASSUME NEW d \in Deps, Create(d) PROVE GoneInv'
    <3>1. PICK x \in Rows \ {"gone"} : row' = [row EXCEPT ![d] = x]
      BY <2>1 DEF Create, Request, Rows, Reported
    <3>2. row'[d] # "gone" BY <3>1 DEF TypeOK
    <3>3. NewNumbers' /\ \A e \in Deps \ {d} : Undeploying(e) => Undeploying(e)'
      <4>1. \/ task' = task
            \/ task' = [task EXCEPT ![Number] = [NoTask EXCEPT !.at = "ensure", !.dep = d]]
        BY <2>1 DEF Create, Request, CmdDeploy, DeployModel
      <4>2. budget.cmds < MaxCmds /\ budget'.cmds = Number
        BY <2>1 DEF Create, Request, Number, TypeOK
      <4>3. \A i \in Ids \ {Number} : task'[i].at = task[i].at
                                      /\ task'[i].dep = task[i].dep
        BY <4>1 DEF TypeOK
      <4> QED BY <4>2, <4>3, NewTask
    <3>4. lost \subseteq lost' /\ \A e \in Deps \ {d} : store'[e] = store[e]
      BY <2>1 DEF Create, Request, CmdDeploy, DeployModel, TypeOK
    <3>5. active' \subseteq active \cup {d}
      BY <2>1 DEF Create, Request, CmdDeploy, DeployModel
    <3> QED BY <3>1, <3>2, <3>3, <3>4, <3>5
      DEF GoneInv, GoneRows, Stored, TypeOK
  <2>2. ASSUME NEW d \in Deps, Restart(d) PROVE GoneInv'
    <3>1. PICK x \in Rows \ {"gone"} : row' = [row EXCEPT ![d] = x]
      BY <2>2 DEF Restart, Request, Rows, Reported
    <3>2. row'[d] # "gone" BY <3>1 DEF TypeOK
    <3>3. NewNumbers' /\ \A e \in Deps \ {d} : Undeploying(e) => Undeploying(e)'
      <4>1. \/ task' = task
            \/ task' = [task EXCEPT ![Number] = [NoTask EXCEPT !.at = "ensure", !.dep = d]]
        BY <2>2 DEF Restart, Request, CmdDeploy, DeployModel
      <4>2. budget.cmds < MaxCmds /\ budget'.cmds = Number
        BY <2>2 DEF Restart, Request, Number, TypeOK
      <4>3. \A i \in Ids \ {Number} : task'[i].at = task[i].at
                                      /\ task'[i].dep = task[i].dep
        BY <4>1 DEF TypeOK
      <4> QED BY <4>2, <4>3, NewTask
    <3>4. lost \subseteq lost' /\ \A e \in Deps \ {d} : store'[e] = store[e]
      BY <2>2 DEF Restart, Request, CmdDeploy, DeployModel, TypeOK
    <3>5. active' \subseteq active \cup {d}
      BY <2>2 DEF Restart, Request, CmdDeploy, DeployModel
    <3> QED BY <3>1, <3>2, <3>3, <3>4, <3>5
      DEF GoneInv, GoneRows, Stored, TypeOK
  <2>3. ASSUME NEW d \in Deps, Stop(d) PROVE GoneInv'
    <3>1. PICK to \in {"removing", "gone"}, del \in BOOLEAN :
            Request(d, to, "stopping", CmdUndeploy(d, Number, del))
      BY <2>3 DEF Stop
    <3> QED BY <3>1, GoneUndeploy
  <2>4. ASSUME NEW d \in Deps, Delete(d) PROVE GoneInv'
    <3>1. PICK to \in {"removing", "gone"}, del \in BOOLEAN :
            Request(d, to, "stopping", CmdUndeploy(d, Number, del))
      BY <2>4 DEF Delete
    <3> QED BY <3>1, GoneUndeploy
  <2>5. ASSUME HubPsWrite PROVE GoneInv'
    <3>1. /\ \A e \in Deps : row'[e] = "gone" => row[e] = "gone"
          /\ UNCHANGED <<lost, task, store>> /\ budget'.cmds = budget.cmds
          /\ active' \subseteq active \cup {e \in Deps : store[e] = "kept"}
      <4>1. PICK w \in hub :
              IF row[w[1]] = "gone" THEN row' = row
              ELSE row' = [row EXCEPT ![w[1]] = w[2]]
        BY <2>5 DEF HubPsWrite
      <4>2. w[1] \in Deps /\ w[2] # "gone" BY DEF TypeOK
      <4> QED BY <2>5, <4>1, <4>2 DEF HubPsWrite, TypeOK
    <3> QED BY <3>1, GoneQuiet
  <2>6. ASSUME RecOthers PROVE GoneInv'
    <3>1. /\ \A e \in Deps : row'[e] = "gone" => row[e] = "gone"
          /\ UNCHANGED <<lost, task, store>> /\ budget'.cmds = budget.cmds
          /\ active' \subseteq active \cup {e \in Deps : store[e] = "kept"}
      <4>1. rec.todo \in SUBSET Deps /\ pending \in SUBSET Deps
        BY DEF TypeOK, Loop
      <4> QED BY <2>6, <4>1, AdvanceType DEF RecOthers
    <3> QED BY <3>1, GoneQuiet
  <2>7. ASSUME RecProbe PROVE GoneInv'
    <3>1. /\ \A e \in Deps : row'[e] = "gone" => row[e] = "gone"
          /\ UNCHANGED <<lost, task, store>> /\ budget'.cmds = budget.cmds
          /\ active' \subseteq active \cup {e \in Deps : store[e] = "kept"}
      BY <2>7 DEF RecProbe
    <3> QED BY <3>1, GoneQuiet
  <2>8. ASSUME RecReport PROVE GoneInv'
    <3>1. /\ \A e \in Deps : row'[e] = "gone" => row[e] = "gone"
          /\ UNCHANGED <<lost, task, store>> /\ budget'.cmds = budget.cmds
          /\ active' \subseteq active \cup {e \in Deps : store[e] = "kept"}
      <4>1. UNCHANGED <<lost, task, store, budget>>
        BY <2>8 DEF RecReport, RecSays
      <4> QED BY <2>8, <4>1, RecSaysCases, RecSaysType
    <3> QED BY <3>1, GoneQuiet
  <2>9. ASSUME RecGivesUp PROVE GoneInv'
    <3>1. /\ \A e \in Deps : row'[e] = "gone" => row[e] = "gone"
          /\ UNCHANGED <<lost, task, store>> /\ budget'.cmds = budget.cmds
          /\ active' \subseteq active \cup {e \in Deps : store[e] = "kept"}
      <4>1. UNCHANGED <<lost, task, store, budget>>
        BY <2>9 DEF RecGivesUp, RecSays
      <4> QED BY <2>9, <4>1, RecSaysCases, RecSaysType
    <3> QED BY <3>1, GoneQuiet
  <2>10. ASSUME TickBegin PROVE GoneInv'
    <3>1. /\ \A e \in Deps : row'[e] = "gone" => row[e] = "gone"
          /\ UNCHANGED <<lost, task, store>> /\ budget'.cmds = budget.cmds
          /\ active' \subseteq active \cup {e \in Deps : store[e] = "kept"}
      BY <2>10, ReconcileType DEF TickBegin
    <3> QED BY <3>1, GoneQuiet
  <2>11. ASSUME NEW d \in Deps, TickLook(d) PROVE GoneInv'
    <3>1. /\ \A e \in Deps : row'[e] = "gone" => row[e] = "gone"
          /\ UNCHANGED <<lost, task, store>> /\ budget'.cmds = budget.cmds
          /\ active' \subseteq active \cup {e \in Deps : store[e] = "kept"}
      BY <2>11 DEF TickLook, Fault, TypeOK
    <3> QED BY <3>1, GoneQuiet
  <2>27. ASSUME TickApply PROVE GoneInv'
    <3>1. /\ \A e \in Deps : row'[e] = "gone" => row[e] = "gone"
          /\ UNCHANGED <<lost, task, store>> /\ budget'.cmds = budget.cmds
          /\ active' \subseteq active \cup {e \in Deps : store[e] = "kept"}
      BY <2>27, TickApplyType DEF TickApply
    <3> QED BY <3>1, GoneQuiet
  <2>12. ASSUME NEW i \in Ids, EnsureStart(i) PROVE GoneInv'
    <3>1. /\ \A e \in Deps : row'[e] = "gone" => row[e] = "gone"
          /\ UNCHANGED <<lost, task, store>> /\ budget'.cmds = budget.cmds
          /\ active' \subseteq active \cup {e \in Deps : store[e] = "kept"}
      BY <2>12 DEF EnsureStart
    <3> QED BY <3>1, GoneQuiet
  <2>13. ASSUME NEW i \in Ids, EnsureGivesUp(i) PROVE GoneInv'
    <3>1. /\ \A e \in Deps : row'[e] = "gone" => row[e] = "gone"
          /\ \A j \in Ids : j # i => task'[j] = task[j]
          /\ task[i].at \notin {"over", "unload", "unloaded"}
          /\ active' \subseteq active
          /\ \A e \in Deps : store[e] = "none" => store'[e] = "none"
          /\ UNCHANGED <<lost, budget>>
      <4>1. task[i].at \notin {"over", "unload", "unloaded"} /\ Fail(i)
        BY <2>13 DEF EnsureGivesUp
      <4> QED BY <2>13, <4>1, FailType, OverType DEF EnsureGivesUp, TypeOK
    <3> QED BY <3>1, GoneDeploy
  <2>14. ASSUME NEW i \in Ids, EnsureDone(i) PROVE GoneInv'
    <3>1. /\ \A e \in Deps : row'[e] = "gone" => row[e] = "gone"
          /\ \A j \in Ids : j # i => task'[j] = task[j]
          /\ task[i].at \notin {"over", "unload", "unloaded"}
          /\ active' \subseteq active
          /\ \A e \in Deps : store[e] = "none" => store'[e] = "none"
          /\ UNCHANGED <<lost, budget>>
      <4>1. CASE task[i].aborted
        <5>1. task[i].at \notin {"over", "unload", "unloaded"} /\ Fail(i)
          BY <2>14, <4>1 DEF EnsureDone
        <5> QED BY <2>14, <5>1, FailType, OverType DEF EnsureDone, TypeOK
      <4>2. CASE ~task[i].aborted
        <5>1. /\ task[i].at \notin {"over", "unload", "unloaded"} /\ task[i].dep \in Deps
              /\ task' = [task EXCEPT ![i].at = "pull"] /\ Tell(task[i].dep, "downloading", FALSE)
              /\ UNCHANGED <<active, store>>
          BY <2>14, <4>2 DEF EnsureDone, TypeOK
        <5>2. "downloading" \in Reported /\ FALSE \in BOOLEAN BY DEF Reported
        <5>3. \A e \in Deps : row'[e] = "gone" => row[e] = "gone"
          BY <5>1, <5>2, TellType DEF TypeOK
        <5> QED BY <2>14, <5>1, <5>3, PlaceType DEF EnsureDone
      <4> QED BY <4>1, <4>2
    <3> QED BY <3>1, GoneDeploy
  <2>15. ASSUME NEW i \in Ids, PullDone(i) PROVE GoneInv'
    <3>1. /\ \A e \in Deps : row'[e] = "gone" => row[e] = "gone"
          /\ \A j \in Ids : j # i => task'[j] = task[j]
          /\ task[i].at \notin {"over", "unload", "unloaded"}
          /\ active' \subseteq active
          /\ \A e \in Deps : store[e] = "none" => store'[e] = "none"
          /\ UNCHANGED <<lost, budget>>
      <4>1. CASE task[i].aborted
        <5>1. /\ task[i].at \notin {"over", "unload", "unloaded"} /\ task[i].dep \in Deps
              /\ task' = [task EXCEPT ![i] = NoTask] /\ Tell(task[i].dep, "running", FALSE)
              /\ UNCHANGED <<active, store>>
          BY <2>15, <4>1 DEF PullDone, TypeOK
        <5>2. "running" \in Reported /\ FALSE \in BOOLEAN BY DEF Reported
        <5>3. \A e \in Deps : row'[e] = "gone" => row[e] = "gone"
          BY <5>1, <5>2, TellType DEF TypeOK
        <5> QED BY <2>15, <5>1, <5>3, OverType DEF PullDone
      <4>2. CASE ~task[i].aborted
        <5>1. /\ task[i].at \notin {"over", "unload", "unloaded"} /\ task[i].dep \in Deps
              /\ task' = [task EXCEPT ![i].at = "load"] /\ Tell(task[i].dep, "loading", FALSE)
              /\ UNCHANGED <<active, store>>
          BY <2>15, <4>2 DEF PullDone, TypeOK
        <5>2. "loading" \in Reported /\ FALSE \in BOOLEAN BY DEF Reported
        <5>3. \A e \in Deps : row'[e] = "gone" => row[e] = "gone"
          BY <5>1, <5>2, TellType DEF TypeOK
        <5> QED BY <2>15, <5>1, <5>3, PlaceType DEF PullDone
      <4> QED BY <4>1, <4>2
    <3> QED BY <3>1, GoneDeploy
  <2>16. ASSUME NEW i \in Ids, CallFails(i) PROVE GoneInv'
    <3>1. /\ \A e \in Deps : row'[e] = "gone" => row[e] = "gone"
          /\ \A j \in Ids : j # i => task'[j] = task[j]
          /\ task[i].at \notin {"over", "unload", "unloaded"}
          /\ active' \subseteq active
          /\ \A e \in Deps : store[e] = "none" => store'[e] = "none"
          /\ UNCHANGED <<lost, budget>>
      <4>1. task[i].at \notin {"over", "unload", "unloaded"} /\ Fail(i)
        BY <2>16 DEF CallFails
      <4> QED BY <2>16, <4>1, FailType, OverType DEF CallFails, TypeOK
    <3> QED BY <3>1, GoneDeploy
  <2>17. ASSUME NEW i \in Ids, Load(i) PROVE GoneInv'
    <3>1. /\ \A e \in Deps : row'[e] = "gone" => row[e] = "gone"
          /\ \A j \in Ids : j # i => task'[j] = task[j]
          /\ task[i].at \notin {"over", "unload", "unloaded"}
          /\ active' \subseteq active
          /\ \A e \in Deps : store[e] = "none" => store'[e] = "none"
          /\ UNCHANGED <<lost, budget>>
      <4>1. task[i].at = "load" /\ task' = [task EXCEPT ![i].at = "verify"]
        BY <2>17 DEF Load
      <4> QED BY <2>17, <4>1, PlaceType DEF Load
    <3> QED BY <3>1, GoneDeploy
  <2>18. ASSUME NEW i \in Ids, Verify(i) PROVE GoneInv'
    <3>1. /\ \A e \in Deps : row'[e] = "gone" => row[e] = "gone"
          /\ \A j \in Ids : j # i => task'[j] = task[j]
          /\ task[i].at \notin {"over", "unload", "unloaded"}
          /\ active' \subseteq active
          /\ \A e \in Deps : store[e] = "none" => store'[e] = "none"
          /\ UNCHANGED <<lost, budget>>
      <4>1. CASE TRUE
        <5>1. /\ task[i].at \notin {"over", "unload", "unloaded"} /\ task[i].dep \in Deps
              /\ task' = [task EXCEPT ![i] = NoTask] /\ Tell(task[i].dep, "running", FALSE)
              /\ UNCHANGED <<active, store>>
          BY <2>18, <4>1 DEF Verify, TypeOK
        <5>2. "running" \in Reported /\ FALSE \in BOOLEAN BY DEF Reported
        <5>3. \A e \in Deps : row'[e] = "gone" => row[e] = "gone"
          BY <5>1, <5>2, TellType DEF TypeOK
        <5> QED BY <2>18, <5>1, <5>3, OverType DEF Verify
      <4> QED BY <4>1
    <3> QED BY <3>1, GoneDeploy
  <2>19. ASSUME NEW i \in Ids, Unload(i) PROVE GoneInv'
    <3>1. task[i].at = "unload" /\ task' = [task EXCEPT ![i].at = "unloaded"]
      BY <2>19 DEF Unload
    <3>2. /\ task'[i].at = "unloaded" /\ task'[i].dep = task[i].dep
          /\ \A j \in Ids : j # i => task'[j] = task[j]
      BY <3>1, PlaceType
    <3>3. \A e \in Deps : Undeploying(e) => Undeploying(e)'
      BY <3>1, <3>2 DEF Undeploying
    <3>4. budget'.cmds = budget.cmds /\ UNCHANGED <<row, lost, active, store>>
      BY <2>19 DEF Unload, Fault, TypeOK
    <3>5. NewNumbers'
      BY <3>1, <3>2, <3>4 DEF GoneInv, NewNumbers
    <3> QED BY <3>3, <3>4, <3>5 DEF GoneInv, GoneRows, Stored
  <2>20. ASSUME NEW i \in Ids, StopDone(i) PROVE GoneInv'
    <3>1. /\ task[i].at = "unloaded" /\ task[i].dep \in Deps
          /\ task[i].del \in BOOLEAN /\ Tell(task[i].dep, "stopped", task[i].del)
          /\ task' = [task EXCEPT ![i] = NoTask]
          /\ active' = active \ {task[i].dep}
          /\ store' = [store EXCEPT ![task[i].dep] = "none"]
          /\ UNCHANGED <<lost, budget>>
      BY <2>20 DEF StopDone, Confirm, Forget, TypeOK, Handler
    <3>2. /\ task'[i].at = "over" /\ \A j \in Ids : j # i => task'[j] = task[j]
      BY <3>1, OverType
    <3>3. NewNumbers'
      BY <3>1, <3>2 DEF GoneInv, NewNumbers
    <3>4. ASSUME NEW e \in Deps, row'[e] = "gone"
          PROVE  e \in lost' \/ Undeploying(e)' \/ e \notin active' \cup Stored'
      <4>1. CASE e = task[i].dep
        BY <3>1, <4>1 DEF Stored, TypeOK
      <4>2. CASE e # task[i].dep
        <5>1. "stopped" \in Reported BY DEF Reported
        <5>2. row[e] = "gone" BY <3>1, <3>4, <4>2, <5>1, TellType DEF TypeOK
        <5>3. Undeploying(e) => Undeploying(e)'
          BY <3>2, <4>2 DEF Undeploying
        <5>4. e \in Stored' => e \in Stored
          BY <3>1, <4>2 DEF Stored, TypeOK
        <5> QED BY <3>1, <5>2, <5>3, <5>4 DEF GoneInv, GoneRows
      <4> QED BY <4>1, <4>2
    <3> QED BY <3>3, <3>4 DEF GoneInv, GoneRows
  <2>21. ASSUME NEW m \in Models, Move(m) PROVE GoneInv'
    <3>1. /\ \A e \in Deps : row'[e] = "gone" => row[e] = "gone"
          /\ UNCHANGED <<lost, task, store>> /\ budget'.cmds = budget.cmds
          /\ active' \subseteq active \cup {e \in Deps : store[e] = "kept"}
      BY <2>21 DEF Move, TypeOK
    <3> QED BY <3>1, GoneQuiet
  <2>22. ASSUME ServiceStarts PROVE GoneInv'
    <3>1. /\ \A e \in Deps : row'[e] = "gone" => row[e] = "gone"
          /\ UNCHANGED <<lost, task, store>> /\ budget'.cmds = budget.cmds
          /\ active' \subseteq active \cup {e \in Deps : store[e] = "kept"}
      BY <2>22 DEF ServiceStarts
    <3> QED BY <3>1, GoneQuiet
  <2>23. ASSUME LinkLoss PROVE GoneInv'
    <3>1. /\ \A e \in Deps : row'[e] = "gone" => row[e] = "gone"
          /\ UNCHANGED <<lost, task, store>> /\ budget'.cmds = budget.cmds
          /\ active' \subseteq active \cup {e \in Deps : store[e] = "kept"}
      BY <2>23 DEF LinkLoss, Fault, TypeOK
    <3> QED BY <3>1, GoneQuiet
  <2>24. ASSUME AgentDies PROVE GoneInv'
    <3>1. /\ task' = [j \in Ids |-> NoTask] /\ active' = {}
          /\ lost' = lost \cup {task[j].dep : j \in {k \in Ids : task[k].at # "over"}}
          /\ UNCHANGED <<row, store>>
      BY <2>24 DEF AgentDies
    <3>2. NewNumbers' BY <3>1, NoTaskType DEF NewNumbers
    <3>3. \A e \in Deps : Undeploying(e) => e \in lost'
      BY <3>1 DEF Undeploying
    <3> QED BY <3>1, <3>2, <3>3 DEF GoneInv, GoneRows, Stored
  <2>25. ASSUME Reconnect PROVE GoneInv'
    <3>1. /\ \A e \in Deps : row'[e] = "gone" => row[e] = "gone"
          /\ UNCHANGED <<lost, task, store>> /\ budget'.cmds = budget.cmds
          /\ active' \subseteq active \cup {e \in Deps : store[e] = "kept"}
      BY <2>25, ReconcileType DEF Reconnect
    <3> QED BY <3>1, GoneQuiet
  <2>26. ASSUME UNCHANGED vars PROVE GoneInv'
    BY <2>26 DEF vars, GoneInv, GoneRows, NewNumbers, Undeploying, Stored
  <2> QED
    BY <2>1, <2>2, <2>3, <2>4, <2>5, <2>6, <2>7, <2>8, <2>9, <2>10, <2>11,
       <2>12, <2>13, <2>14, <2>15, <2>16, <2>17, <2>18, <2>19, <2>20, <2>21,
       <2>22, <2>23, <2>24, <2>25, <2>26, <2>27 DEF Next, Requests, Rec, Task
<1>3. GoneInv => GoneIsForgotten
  BY DEF GoneInv, GoneRows, GoneIsForgotten, Settled, Undeploying
<1> QED BY <1>1, <1>2, <1>3, TypeCorrect, PTL DEF Spec

=============================================================================
