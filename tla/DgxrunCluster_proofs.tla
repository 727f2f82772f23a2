------------------------ MODULE DgxrunCluster_proofs ------------------------
(***************************************************************************)
(* Machine-checked proofs about DgxrunCluster, for any number of ranks,    *)
(* requests, faults and dropped sockets.                                   *)
(***************************************************************************)
EXTENDS DgxrunCluster, TLAPS

USE DEF agentVars, serverVars, requestVars

-----------------------------------------------------------------------------
(* Queues.                                                                 *)

\* A message at the end of a queue.
LEMMA Appended ==
  ASSUME NEW S, NEW q \in Seq(S), NEW e \in S
  PROVE  /\ Append(q, e) \in Seq(S) /\ Append(q, e) # <<>>
         /\ Len(Append(q, e)) = Len(q) + 1
         /\ Append(q, e)[Len(q) + 1] = e
         /\ \A i \in 1 .. Len(q) : Append(q, e)[i] = q[i]
OBVIOUS

\* A queue without its first message.
LEMMA Taken ==
  ASSUME NEW S, NEW q \in Seq(S), q # <<>>
  PROVE  /\ Tail(q) \in Seq(S) /\ Head(q) \in S /\ Head(q) = q[1]
         /\ Len(q) \in Nat \ {0} /\ Len(Tail(q)) = Len(q) - 1
         /\ \A i \in 1 .. Len(q) - 1 : Tail(q)[i] = q[i + 1]
OBVIOUS

\* A queue of length zero is the empty queue.
LEMMA Emptied ==
  ASSUME NEW S, NEW q \in Seq(S), Len(q) = 0
  PROVE  q = <<>>
OBVIOUS

\* Two queues in a row.
LEMMA Joined ==
  ASSUME NEW S, NEW q \in Seq(S), NEW r \in Seq(S)
  PROVE  /\ q \o r \in Seq(S) /\ Len(q \o r) = Len(q) + Len(r)
         /\ \A i \in 1 .. Len(q) : (q \o r)[i] = q[i]
         /\ \A i \in 1 .. Len(r) : (q \o r)[Len(q) + i] = r[i]
OBVIOUS

-----------------------------------------------------------------------------
(* Types.                                                                  *)

\* The commands the manager sends.
LEMMA CommandTypes ==
  /\ Deploy \in Commands /\ Deploy.kind = "deploy" /\ ~Deploy.delete
  /\ \A b, k \in BOOLEAN : /\ Undeploy(b, k) \in Commands
                           /\ Undeploy(b, k).kind = "undeploy"
                           /\ Undeploy(b, k).delete = b
BY DEF Deploy, Undeploy, Commands

\* sendToAgent to every node.
LEMMA SendAllType ==
  ASSUME TypeOK, NEW cmd \in Commands
  PROVE  SendAll(cmd) \in [Nodes -> Seq(Commands)]
<1>1. \A n \in Nodes : Append(toAgent[n], cmd) \in Seq(Commands)
  BY Appended DEF TypeOK
<1> QED BY <1>1 DEF SendAll, TypeOK

\* sendMsg.
LEMMA ReplyType ==
  ASSUME TypeOK, NEW n \in Nodes, NEW msgs \in Seq(StatusReports),
         Reply(n, msgs)
  PROVE  toServer' \in [Nodes -> Seq(StatusReports)]
<1>1. toServer[n] \o msgs \in Seq(StatusReports) BY Joined DEF TypeOK
<1> QED BY <1>1 DEF Reply, TypeOK

\* The reports an agent sends, singly and in pairs.
LEMMA MsgTypes ==
  ASSUME NEW x \in Statuses, NEW y \in Statuses, NEW b \in BOOLEAN, NEW c \in BOOLEAN
  PROVE  /\ Msg(x, b) \in StatusReports
         /\ <<Msg(x, b)>> \in Seq(StatusReports)
         /\ <<Msg(x, b), Msg(y, c)>> \in Seq(StatusReports)
<1>1. Msg(x, b) \in StatusReports /\ Msg(y, c) \in StatusReports
  BY DEF Msg, StatusReports
<1> QED BY <1>1

\* The row, after each of its updates.
LEMMA RowTypes ==
  ASSUME TypeOK, NEW x \in Statuses
  PROVE  /\ NoRow \in Rows /\ StatusUpdate(row, x) \in Rows
         /\ [row EXCEPT !.status = x] \in Rows
         /\ [row EXCEPT !.status = x, !.named = FALSE] \in Rows
         /\ [row EXCEPT !.named = TRUE] \in Rows
         /\ StatusUpdate(row, x).exists = row.exists
         /\ [row EXCEPT !.status = x].exists = row.exists
         /\ [row EXCEPT !.status = x, !.named = FALSE].exists = row.exists
         /\ [row EXCEPT !.named = TRUE].exists = row.exists
         /\ ~NoRow.exists
BY DEF TypeOK, Rows, NoRow, StatusUpdate, Statuses

\* reportPhase.
LEMMA PhaseType ==
  ASSUME TypeOK, NEW phase \in {"starting", "running"}, ReportPhase(phase)
  PROVE  /\ phaseTold' \in {"none", "starting", "running"}
         /\ toServer' \in [Nodes -> Seq(StatusReports)]
<1>1. HeadNode \in Nodes BY ClusterAssumption DEF ClusterAssumption
<1>2. <<Msg(phase, FALSE)>> \in Seq(StatusReports)
  BY MsgTypes DEF Statuses
<1>3. CASE phaseTold' = phase /\ Reply(HeadNode, <<Msg(phase, FALSE)>>)
  BY <1>1, <1>2, <1>3, ReplyType
<1>4. CASE UNCHANGED <<toServer, phaseTold>> BY <1>4 DEF TypeOK
<1> QED BY <1>3, <1>4 DEF ReportPhase

\* Every variable keeps its type.
THEOREM TypeCorrect == Spec => []TypeOK
<1> USE ClusterAssumption DEF ClusterAssumption
<1>1. Init => TypeOK
  <2> SUFFICES ASSUME Init PROVE TypeOK
    OBVIOUS
  <2>1. row \in Rows BY DEF Init, Rows, Statuses
  <2>2. toAgent \in [Nodes -> Seq(Commands)]
    <3>1. <<Deploy>> \in Seq(Commands) BY CommandTypes
    <3> QED BY <3>1 DEF Init
  <2>3. toServer \in [Nodes -> Seq(StatusReports)] BY DEF Init
  <2>4. ops \in 0..MaxOps /\ faults \in 0..MaxFaults /\ drops \in 0..MaxDrops
    BY DEF Init
  <2>5. tasks \in [Nodes -> SUBSET Tasks] BY DEF Init
  <2>6. /\ ready \in BOOLEAN /\ failedFan \in BOOLEAN /\ deleting \in BOOLEAN
        /\ link \in [Nodes -> BOOLEAN] /\ tracked \in [Nodes -> BOOLEAN]
    BY DEF Init
  <2> QED BY <2>1, <2>2, <2>3, <2>4, <2>5, <2>6 DEF Init, TypeOK
<1>2. TypeOK /\ [Next]_vars => TypeOK'
  <2> SUFFICES ASSUME TypeOK, [Next]_vars PROVE TypeOK'
    OBVIOUS
  <2>1. ASSUME RestartSend PROVE TypeOK'
    <3>1. toAgent' \in [Nodes -> Seq(Commands)]
      BY <2>1, SendAllType, CommandTypes DEF RestartSend
    <3>2. ops' \in 0..MaxOps
      BY <2>1 DEF RestartSend, TypeOK
    <3> QED BY <2>1, <3>1, <3>2 DEF RestartSend, TypeOK
  <2>2. ASSUME EraseSend PROVE TypeOK'
    <3>1. toAgent' \in [Nodes -> Seq(Commands)]
      BY <2>2, SendAllType, CommandTypes DEF EraseSend
    <3>2. ops' \in 0..MaxOps
      BY <2>2 DEF EraseSend, TypeOK
    <3> QED BY <2>2, <3>1, <3>2 DEF EraseSend, TypeOK
  <2>3. ASSUME NEW delete \in BOOLEAN, RemoveSend(delete) PROVE TypeOK'
    <3>1. toAgent' \in [Nodes -> Seq(Commands)]
      BY <2>3, SendAllType, CommandTypes DEF RemoveSend
    <3>2. ops' \in 0..MaxOps
      BY <2>3 DEF RemoveSend, TypeOK
    <3>3. deleting' \in BOOLEAN
      BY <2>3 DEF RemoveSend, TypeOK
    <3> QED BY <2>3, <3>1, <3>2, <3>3 DEF RemoveSend, TypeOK
  <2>4. ASSUME RestartWrite PROVE TypeOK'
    <3>1. row' \in Rows
      BY <2>4, RowTypes DEF RestartWrite, Statuses, TypeOK
    <3> QED BY <2>4, <3>1 DEF RestartWrite, TypeOK
  <2>5. ASSUME RemoveWrite PROVE TypeOK'
    <3>1. row' \in Rows
      BY <2>5, RowTypes DEF RemoveWrite, RemovingStatus, Statuses, TypeOK
    <3> QED BY <2>5, <3>1 DEF RemoveWrite, TypeOK
  <2>6. ASSUME EraseWrite PROVE TypeOK'
    <3>1. row' \in Rows
      BY <2>6, RowTypes DEF EraseWrite, Statuses
    <3> QED BY <2>6, <3>1 DEF EraseWrite, TypeOK
  <2>7. ASSUME NEW n \in Nodes, HandleReport(n) PROVE TypeOK'
    <3>1. /\ Tail(toServer[n]) \in Seq(StatusReports)
          /\ Head(toServer[n]) \in StatusReports
      BY <2>7, Taken DEF HandleReport, TypeOK
    <3>2. Head(toServer[n]).status \in Statuses BY <3>1 DEF StatusReports
    <3>3. row' \in Rows BY <2>7, <3>2, RowTypes DEF HandleReport, TypeOK
    <3>4. toServer' \in [Nodes -> Seq(StatusReports)]
      BY <2>7, <3>1 DEF HandleReport, TypeOK
    <3>5. tasks' \in [Nodes -> SUBSET Tasks]
      <4>1. FollowUp(Head(toServer[n])) \subseteq Tasks BY DEF FollowUp, Tasks
      <4>2. tasks[n] \cup FollowUp(Head(toServer[n])) \in SUBSET Tasks
        BY <4>1 DEF TypeOK
      <4> QED BY <2>7, <4>2 DEF HandleReport, TypeOK
    <3> QED BY <2>7, <3>3, <3>4, <3>5 DEF HandleReport, TypeOK
  <2>8. ASSUME NEW n \in Nodes, PublishName(n) PROVE TypeOK'
    <3>1. tasks' \in [Nodes -> SUBSET Tasks]
      BY <2>8 DEF PublishName, Done, TypeOK
    <3>2. row' \in Rows BY <2>8, RowTypes DEF PublishName, TypeOK, Statuses
    <3> QED BY <2>8, <3>1, <3>2 DEF PublishName, TypeOK
  <2>9. ASSUME NEW n \in Nodes, Teardown(n) PROVE TypeOK'
    <3>1. tasks' \in [Nodes -> SUBSET Tasks] BY <2>9 DEF Teardown, Done, TypeOK
    <3>2. toAgent' \in [Nodes -> Seq(Commands)]
      BY <2>9, SendAllType, CommandTypes DEF Teardown, TypeOK
    <3>3. failedFan' \in BOOLEAN BY <2>9 DEF Teardown, AllLinked, TypeOK
    <3> QED BY <2>9, <3>1, <3>2, <3>3 DEF Teardown, TypeOK
  <2>10. ASSUME NEW n \in Nodes, DeleteConfirmed(n) PROVE TypeOK'
    <3>1. tasks' \in [Nodes -> SUBSET Tasks]
      BY <2>10 DEF DeleteConfirmed, Done, TypeOK
    <3>2. row' \in Rows BY <2>10, RowTypes DEF DeleteConfirmed, Statuses
    <3> QED BY <2>10, <3>1, <3>2 DEF DeleteConfirmed, TypeOK
  <2>11. ASSUME NEW n \in Nodes, HandleCommand(n) PROVE TypeOK'
    <3>1. /\ Tail(toAgent[n]) \in Seq(Commands)
          /\ Head(toAgent[n]) \in Commands
      BY <2>11, Taken DEF HandleCommand, TypeOK
    <3>2. toAgent' \in [Nodes -> Seq(Commands)]
      BY <2>11, <3>1 DEF HandleCommand, TypeOK
    <3>3. CASE DoDeploy(n)
      <4>1. /\ phaseTold' \in {"none", "starting", "running"}
            /\ toServer' \in [Nodes -> Seq(StatusReports)]
        <5>1. CASE ReportPhase("starting") BY <5>1, PhaseType
        <5>2. CASE UNCHANGED <<toServer, phaseTold>> BY <5>2 DEF TypeOK
        <5> QED BY <3>3, <5>1, <5>2 DEF DoDeploy
      <4>2. /\ rank' \in [Nodes -> {"none", "starting", "up", "dead"}]
            /\ tracked' \in [Nodes -> BOOLEAN] /\ ready' \in BOOLEAN
        BY <3>3 DEF DoDeploy, TypeOK
      <4> QED BY <2>11, <3>2, <4>1, <4>2 DEF HandleCommand, TypeOK
    <3>4. CASE DoUndeploy(n, Head(toAgent[n]))
      <4>1. Head(toAgent[n]).delete \in BOOLEAN BY <3>1 DEF Commands
      <4>2. <<Msg("stopping", FALSE), StoppedReply(Head(toAgent[n]))>>
              \in Seq(StatusReports)
        BY <4>1, MsgTypes DEF StoppedReply, Statuses
      <4>3. toServer' \in [Nodes -> Seq(StatusReports)]
        BY <3>4, <4>2, ReplyType DEF DoUndeploy
      <4>4. /\ rank' \in [Nodes -> {"none", "starting", "up", "dead"}]
            /\ tracked' \in [Nodes -> BOOLEAN] /\ ready' \in BOOLEAN
            /\ phaseTold' \in {"none", "starting", "running"}
        BY <3>4 DEF DoUndeploy, TypeOK
      <4> QED BY <2>11, <3>2, <4>3, <4>4 DEF HandleCommand, TypeOK
    <3> QED BY <2>11, <3>3, <3>4 DEF HandleCommand
  <2>12. ASSUME NEW n \in Nodes, LaunchSucceeds(n) PROVE TypeOK'
    <3> QED BY <2>12 DEF LaunchSucceeds, TypeOK
  <2>13. ASSUME NEW n \in Nodes, LaunchFails(n) PROVE TypeOK'
    <3>1. toServer' \in [Nodes -> Seq(StatusReports)]
      BY <2>13, ReplyType, MsgTypes DEF LaunchFails, Statuses
    <3>2. faults' \in 0..MaxFaults BY <2>13 DEF LaunchFails, TypeOK
    <3> QED BY <2>13, <3>1, <3>2 DEF LaunchFails, TypeOK
  <2>14. ASSUME NEW n \in Nodes, TickDead(n) PROVE TypeOK'
    <3>1. toServer' \in [Nodes -> Seq(StatusReports)]
      BY <2>14, ReplyType, MsgTypes DEF TickDead, Statuses
    <3> QED BY <2>14, <3>1 DEF TickDead, TypeOK
  <2>15. ASSUME NEW n \in Nodes, RankDies(n) PROVE TypeOK'
    <3>1. faults' \in 0..MaxFaults
      BY <2>15 DEF RankDies, TypeOK
    <3> QED BY <2>15, <3>1 DEF RankDies, TypeOK
  <2>16. ASSUME NEW n \in Nodes, LinkDown(n) PROVE TypeOK'
    <3>1. drops' \in 0..MaxDrops BY <2>16 DEF LinkDown, TypeOK
    <3>2. /\ toAgent' \in [Nodes -> Seq(Commands)]
          /\ toServer' \in [Nodes -> Seq(StatusReports)]
      BY <2>16 DEF LinkDown, TypeOK
    <3> QED BY <2>16, <3>1, <3>2 DEF LinkDown, TypeOK
  <2>17. ASSUME NEW n \in Nodes, LinkUp(n) PROVE TypeOK'
    <3>1. ReconcileReport(n) \in Seq(StatusReports)
      <4>1. /\ <<Msg("failed", FALSE)>> \in Seq(StatusReports)
            /\ <<Msg("running", FALSE)>> \in Seq(StatusReports)
        BY MsgTypes DEF Statuses
      <4>2. <<>> \in Seq(StatusReports) OBVIOUS
      <4> QED BY <4>1, <4>2 DEF ReconcileReport
    <3>2. toServer' \in [Nodes -> Seq(StatusReports)]
      BY <2>17, <3>1 DEF LinkUp, TypeOK
    <3>3. tasks' \in [Nodes -> SUBSET Tasks]
      <4>1. tasks[n] \cup {"publish"} \in SUBSET Tasks BY DEF TypeOK, Tasks
      <4> QED BY <2>17, <4>1 DEF LinkUp, Registered, TypeOK
    <3> QED BY <2>17, <3>2, <3>3 DEF LinkUp, TypeOK
  <2>18. ASSUME BecomeReady PROVE TypeOK'
    <3> QED BY <2>18 DEF BecomeReady, TypeOK
  <2>19. ASSUME LogReady PROVE TypeOK'
    <3>1. /\ phaseTold' \in {"none", "starting", "running"}
          /\ toServer' \in [Nodes -> Seq(StatusReports)]
      BY <2>19, PhaseType DEF LogReady
    <3> QED BY <2>19, <3>1 DEF LogReady, TypeOK
  <2>20. ASSUME TickHead PROVE TypeOK'
    <3>1. toServer' \in [Nodes -> Seq(StatusReports)]
      BY <2>20, ReplyType, MsgTypes DEF TickHead, Statuses
    <3> QED BY <2>20, <3>1 DEF TickHead, TypeOK
  <2>21. ASSUME UNCHANGED vars PROVE TypeOK'
    BY <2>21 DEF vars, TypeOK
  <2> QED
    BY <2>1, <2>2, <2>3, <2>4, <2>5, <2>6, <2>7, <2>8, <2>9, <2>10, <2>11,
       <2>12, <2>13, <2>14, <2>15, <2>16, <2>17, <2>18, <2>19, <2>20, <2>21 DEF
       Next, Server, FollowUpStep, AgentStep, LaunchEnds
<1> QED BY <1>1, <1>2, PTL DEF Spec


-----------------------------------------------------------------------------
(* The coordinated teardown.                                               *)

\* The last command on its way to n takes the rank down; without one, it is.
GoingDown(n) ==
  IF toAgent[n] = <<>> THEN ~Live(n)
  ELSE toAgent[n][Len(toAgent[n])].kind = "undeploy"

\* The inductive invariant behind TeardownComplete.
FanInv == failedFan => \A n \in Nodes : GoingDown(n)

\* Nothing was sent to the rank and it did not come up.
LEMMA DownKept ==
  ASSUME NEW n \in Nodes, GoingDown(n), toAgent'[n] = toAgent[n],
         rank'[n] \in {"starting", "up"} => rank[n] \in {"starting", "up"}
  PROVE  GoingDown(n)'
BY DEF GoingDown, Live

\* A cmd:undeploy was sent to every rank.
LEMMA DownTold ==
  ASSUME TypeOK, NEW n \in Nodes, NEW cmd \in Commands, cmd.kind = "undeploy",
         toAgent' = SendAll(cmd), rank' = rank, link[n] \/ GoingDown(n)
  PROVE  GoingDown(n)'
<1>1. CASE link[n]
  <2>1. toAgent'[n] = Append(toAgent[n], cmd) /\ toAgent[n] \in Seq(Commands)
    BY <1>1 DEF SendAll, TypeOK
  <2>2. toAgent'[n] # <<>> /\ toAgent'[n][Len(toAgent'[n])] = cmd
    BY <2>1, Appended
  <2> QED BY <2>2 DEF GoingDown
<1>2. CASE ~link[n]
  BY <1>2, DownKept DEF SendAll
<1> QED BY <1>1, <1>2

\* The agent of m handles its next command.
LEMMA DownHandled ==
  ASSUME TypeOK, NEW n \in Nodes, NEW m \in Nodes, GoingDown(n), HandleCommand(m)
  PROVE  GoingDown(n)'
<1>1. CASE n # m
  <2>1. toAgent'[n] = toAgent[n] /\ rank'[n] = rank[n]
    BY <1>1 DEF HandleCommand, DoDeploy, DoUndeploy, TypeOK
  <2> QED BY <2>1, DownKept
<1>2. CASE n = m
  <2>1. PICK q \in Seq(Commands) : q = toAgent[n] /\ q # <<>>
    BY <1>2 DEF HandleCommand, TypeOK
  <2>2. toAgent'[n] = Tail(q) BY <1>2, <2>1 DEF HandleCommand, TypeOK
  <2>3. q[Len(q)].kind = "undeploy" BY <2>1 DEF GoingDown
  <2>4. /\ Len(q) \in Nat \ {0} /\ Len(Tail(q)) = Len(q) - 1 /\ Head(q) = q[1]
        /\ Tail(q) \in Seq(Commands)
        /\ \A i \in 1 .. Len(q) - 1 : Tail(q)[i] = q[i + 1]
    BY <2>1, Taken
  <2>5. CASE Len(q) = 1
    <3>0. Len(Tail(q)) = 0 /\ Tail(q) \in Seq(Commands) BY <2>4, <2>5
    <3>1. Tail(q) = <<>> BY <3>0, Emptied
    <3>2. DoUndeploy(n, Head(q))
      BY <1>2, <2>1, <2>3, <2>4, <2>5 DEF HandleCommand
    <3>3. rank'[n] \in {"none", "dead"} BY <3>2 DEF DoUndeploy, TypeOK
    <3> QED BY <2>2, <3>1, <3>3 DEF GoingDown, Live
  <2>6. CASE Len(q) # 1
    <3>1. Tail(q) # <<>> /\ Len(q) - 1 \in 1 .. Len(q) - 1
      BY <2>4, <2>6
    <3>2. Tail(q)[Len(q) - 1] = q[Len(q)] BY <2>4, <3>1
    <3>3. Tail(q)[Len(Tail(q))].kind = "undeploy" BY <2>3, <2>4, <3>2
    <3> QED BY <2>2, <3>1, <3>3 DEF GoingDown
  <2> QED BY <2>5, <2>6
<1> QED BY <1>1, <1>2

\* Only a fresh cmd:deploy or a lost command keeps a rank from going down.
LEMMA DownStep ==
  ASSUME TypeOK, [Next]_vars, ~RestartSend, \A m \in Nodes : ~LinkDown(m),
         NEW n \in Nodes, GoingDown(n)
  PROVE  GoingDown(n)'
<1>1. CASE RestartSend
  BY <1>1
<1>2. CASE EraseSend
  BY <1>2, DownTold, CommandTypes DEF EraseSend
<1>3. ASSUME NEW delete \in BOOLEAN, RemoveSend(delete) PROVE GoingDown(n)'
  BY <1>3, DownTold, CommandTypes DEF RemoveSend
<1>4. CASE RestartWrite
  BY <1>4, DownKept DEF RestartWrite, TypeOK
<1>5. CASE RemoveWrite
  BY <1>5, DownKept DEF RemoveWrite, TypeOK
<1>6. CASE EraseWrite
  BY <1>6, DownKept DEF EraseWrite, TypeOK
<1>7. ASSUME NEW m \in Nodes, HandleReport(m) PROVE GoingDown(n)'
  BY <1>7, DownKept DEF HandleReport, TypeOK
<1>8. ASSUME NEW m \in Nodes, PublishName(m) PROVE GoingDown(n)'
  BY <1>8, DownKept DEF PublishName, TypeOK
<1>9. ASSUME NEW m \in Nodes, Teardown(m) PROVE GoingDown(n)'
  <2>1. CASE toAgent' = SendAll(Undeploy(FALSE, TRUE))
    BY <1>9, <2>1, DownTold, CommandTypes DEF Teardown
  <2>2. CASE toAgent' = toAgent BY <1>9, <2>2, DownKept DEF Teardown
  <2> QED BY <1>9, <2>1, <2>2 DEF Teardown
<1>10. ASSUME NEW m \in Nodes, DeleteConfirmed(m) PROVE GoingDown(n)'
  BY <1>10, DownKept DEF DeleteConfirmed, TypeOK
<1>11. ASSUME NEW m \in Nodes, HandleCommand(m) PROVE GoingDown(n)'
  BY <1>11, DownHandled
<1>12. ASSUME NEW m \in Nodes, LaunchSucceeds(m) PROVE GoingDown(n)'
  BY <1>12, DownKept DEF LaunchSucceeds, TypeOK
<1>13. ASSUME NEW m \in Nodes, LaunchFails(m) PROVE GoingDown(n)'
  BY <1>13, DownKept DEF LaunchFails, TypeOK
<1>14. ASSUME NEW m \in Nodes, TickDead(m) PROVE GoingDown(n)'
  BY <1>14, DownKept DEF TickDead, TypeOK
<1>15. ASSUME NEW m \in Nodes, RankDies(m) PROVE GoingDown(n)'
  BY <1>15, DownKept DEF RankDies, TypeOK
<1>16. ASSUME NEW m \in Nodes, LinkDown(m) PROVE GoingDown(n)'
  BY <1>16
<1>17. ASSUME NEW m \in Nodes, LinkUp(m) PROVE GoingDown(n)'
  BY <1>17, DownKept DEF LinkUp, TypeOK
<1>18. CASE BecomeReady
  BY <1>18, DownKept DEF BecomeReady, TypeOK
<1>19. CASE LogReady
  BY <1>19, DownKept DEF LogReady, TypeOK
<1>20. CASE TickHead
  BY <1>20, DownKept DEF TickHead, TypeOK
<1>21. CASE UNCHANGED vars BY <1>21, DownKept DEF vars
<1> QED
  BY <1>1, <1>2, <1>3, <1>4, <1>5, <1>6, <1>7, <1>8, <1>9, <1>10, <1>11, <1>12,
     <1>13, <1>14, <1>15, <1>16, <1>17, <1>18, <1>19, <1>20, <1>21 DEF Next,
     Server, FollowUpStep, AgentStep, LaunchEnds

\* Once a failure of any rank was fanned out over open sockets and everything
\* has drained, every rank is down, whatever launch or command was under way.
THEOREM TeardownCompleteCorrect == Spec => []TeardownComplete
<1>1. Init => FanInv BY DEF Init, FanInv
<1>2. TypeOK /\ FanInv /\ [Next]_vars => FanInv'
  <2> SUFFICES ASSUME TypeOK, FanInv, [Next]_vars, failedFan', NEW n \in Nodes
               PROVE  GoingDown(n)'
    BY DEF FanInv
  <2>1. ~RestartSend /\ \A m \in Nodes : ~LinkDown(m)
    BY DEF RestartSend, LinkDown
  <2>2. CASE failedFan BY <2>1, <2>2, DownStep DEF FanInv
  <2>3. CASE ~failedFan
    <3>1. PICK m \in Nodes : Teardown(m)
      BY <2>1, <2>3 DEF Next, Server, FollowUpStep, AgentStep, LaunchEnds, vars,
         EraseSend, RemoveSend, RestartWrite, RemoveWrite, EraseWrite,
         HandleReport, PublishName, DeleteConfirmed, HandleCommand,
         LaunchSucceeds, LaunchFails, TickDead, RankDies, LinkUp, BecomeReady,
         LogReady, TickHead
    <3>2. toAgent' = SendAll(Undeploy(FALSE, TRUE)) /\ link[n] /\ rank' = rank
      BY <2>3, <3>1 DEF Teardown, AllLinked
    <3> QED BY <3>2, DownTold, CommandTypes
  <2> QED BY <2>2, <2>3
<1>3. FanInv => TeardownComplete
  BY DEF FanInv, TeardownComplete, Drained, GoingDown
<1> QED BY <1>1, <1>2, <1>3, TypeCorrect, PTL DEF Spec

-----------------------------------------------------------------------------
(* A delete on its way.                                                    *)

Carries(q, S) == \E i \in 1 .. Len(q) : q[i] \in S

\* What a queue carries after one more message.
LEMMA CarriesAppended ==
  ASSUME NEW S, NEW D, NEW q \in Seq(S), NEW e \in S
  PROVE  Carries(Append(q, e), D) <=> Carries(q, D) \/ e \in D
<1>1. /\ Len(Append(q, e)) = Len(q) + 1 /\ Append(q, e)[Len(q) + 1] = e
      /\ \A i \in 1 .. Len(q) : Append(q, e)[i] = q[i] /\ Len(q) \in Nat
  BY Appended
<1>2. ASSUME Carries(Append(q, e), D) PROVE Carries(q, D) \/ e \in D
  <2>1. PICK i \in 1 .. Len(q) + 1 : Append(q, e)[i] \in D
    BY <1>1, <1>2 DEF Carries
  <2>2. CASE i = Len(q) + 1 BY <1>1, <2>1, <2>2
  <2>3. CASE i \in 1 .. Len(q) BY <1>1, <2>1, <2>3 DEF Carries
  <2> QED BY <2>1, <2>2, <2>3
<1>3. ASSUME Carries(q, D) PROVE Carries(Append(q, e), D)
  <2>1. PICK i \in 1 .. Len(q) : q[i] \in D BY <1>3 DEF Carries
  <2>2. i \in 1 .. Len(Append(q, e)) /\ Append(q, e)[i] \in D BY <1>1, <2>1
  <2> QED BY <2>2 DEF Carries
<1>4. ASSUME e \in D PROVE Carries(Append(q, e), D)
  <2>1. Len(q) + 1 \in 1 .. Len(Append(q, e)) BY <1>1
  <2> QED BY <1>1, <1>4, <2>1 DEF Carries
<1> QED BY <1>2, <1>3, <1>4

\* What a queue carries after its head was taken.
LEMMA CarriesTaken ==
  ASSUME NEW S, NEW D, NEW q \in Seq(S), q # <<>>
  PROVE  Carries(q, D) <=> Head(q) \in D \/ Carries(Tail(q), D)
<1>1. /\ Head(q) = q[1] /\ Len(q) \in Nat \ {0} /\ Len(Tail(q)) = Len(q) - 1
      /\ \A i \in 1 .. Len(q) - 1 : Tail(q)[i] = q[i + 1]
  BY Taken
<1>2. ASSUME Carries(q, D) PROVE Head(q) \in D \/ Carries(Tail(q), D)
  <2>1. PICK i \in 1 .. Len(q) : q[i] \in D BY <1>2 DEF Carries
  <2>2. CASE i = 1 BY <1>1, <2>1, <2>2
  <2>3. CASE i # 1
    <3>1. i - 1 \in 1 .. Len(q) - 1 /\ (i - 1) + 1 = i BY <1>1, <2>1, <2>3
    <3>2. Tail(q)[i - 1] = q[i] BY <1>1, <3>1
    <3> QED BY <1>1, <2>1, <3>1, <3>2 DEF Carries
  <2> QED BY <2>2, <2>3
<1>3. ASSUME Head(q) \in D PROVE Carries(q, D)
  <2>1. 1 \in 1 .. Len(q) BY <1>1
  <2> QED BY <1>1, <1>3, <2>1 DEF Carries
<1>4. ASSUME Carries(Tail(q), D) PROVE Carries(q, D)
  <2>1. PICK i \in 1 .. Len(q) - 1 : Tail(q)[i] \in D
    BY <1>1, <1>4 DEF Carries
  <2>2. i + 1 \in 1 .. Len(q) /\ q[i + 1] \in D BY <1>1, <2>1
  <2> QED BY <2>2 DEF Carries
<1> QED BY <1>2, <1>3, <1>4

\* What two queues carry together.
LEMMA CarriesJoined ==
  ASSUME NEW S, NEW D, NEW q \in Seq(S), NEW r \in Seq(S)
  PROVE  Carries(q \o r, D) <=> Carries(q, D) \/ Carries(r, D)
<1>1. /\ Len(q \o r) = Len(q) + Len(r) /\ Len(q) \in Nat /\ Len(r) \in Nat
      /\ \A i \in 1 .. Len(q) : (q \o r)[i] = q[i]
      /\ \A i \in 1 .. Len(r) : (q \o r)[Len(q) + i] = r[i]
  BY Joined
<1>2. ASSUME Carries(q \o r, D) PROVE Carries(q, D) \/ Carries(r, D)
  <2>1. PICK i \in 1 .. Len(q) + Len(r) : (q \o r)[i] \in D
    BY <1>1, <1>2 DEF Carries
  <2>2. CASE i \in 1 .. Len(q) BY <1>1, <2>1, <2>2 DEF Carries
  <2>3. CASE i \notin 1 .. Len(q)
    <3>1. i - Len(q) \in 1 .. Len(r) /\ Len(q) + (i - Len(q)) = i
      BY <1>1, <2>1, <2>3
    <3>2. r[i - Len(q)] \in D BY <1>1, <2>1, <3>1
    <3> QED BY <3>1, <3>2 DEF Carries
  <2> QED BY <2>2, <2>3
<1>3. ASSUME Carries(q, D) PROVE Carries(q \o r, D)
  <2>1. PICK i \in 1 .. Len(q) : q[i] \in D BY <1>3 DEF Carries
  <2>2. i \in 1 .. Len(q \o r) /\ (q \o r)[i] \in D BY <1>1, <2>1
  <2> QED BY <2>2 DEF Carries
<1>4. ASSUME Carries(r, D) PROVE Carries(q \o r, D)
  <2>1. PICK i \in 1 .. Len(r) : r[i] \in D BY <1>4 DEF Carries
  <2>2. Len(q) + i \in 1 .. Len(q \o r) /\ (q \o r)[Len(q) + i] \in D
    BY <1>1, <2>1
  <2> QED BY <2>2 DEF Carries
<1> QED BY <1>2, <1>3, <1>4

\* cmd:undeploy with delete set, and the confirmation it is answered with.
DeleteCommands == {c \in Commands : c.kind = "undeploy" /\ c.delete}
DeleteReports == {r \in StatusReports : r.status = "stopped" /\ r.delete}

\* A delete is on its way to n, on its way back, or handled but not written.
Flagged(n) ==
  \/ "erase" \in tasks[n]
  \/ Carries(toAgent[n], DeleteCommands)
  \/ Carries(toServer[n], DeleteReports)

\* A delete stays under way at a rank whose queues and follow-ups stay.
LEMMA FlagSame ==
  ASSUME NEW n \in Nodes,
         "erase" \in tasks'[n] <=> "erase" \in tasks[n],
         Carries(toAgent'[n], DeleteCommands)
           <=> Carries(toAgent[n], DeleteCommands),
         Carries(toServer'[n], DeleteReports)
           <=> Carries(toServer[n], DeleteReports)
  PROVE  Flagged(n)' <=> Flagged(n)
BY Zenon DEF Flagged

\* A command that deletes nothing is sent to every rank.
LEMMA SentPlain ==
  ASSUME TypeOK, NEW n \in Nodes, NEW cmd \in Commands, cmd \notin DeleteCommands,
         toAgent' = SendAll(cmd)
  PROVE  Carries(toAgent'[n], DeleteCommands)
           <=> Carries(toAgent[n], DeleteCommands)
<1>1. toAgent[n] \in Seq(Commands) BY DEF TypeOK
<1>2. CASE link[n]
  <2>1. toAgent'[n] = Append(toAgent[n], cmd) BY <1>2 DEF SendAll
  <2> QED BY <1>1, <2>1, CarriesAppended
<1>3. CASE ~link[n] BY <1>3 DEF SendAll
<1> QED BY <1>2, <1>3

\* Reports that confirm no delete.
LEMMA RepliedPlain ==
  ASSUME TypeOK, NEW n \in Nodes, NEW m \in Nodes,
         NEW msgs \in Seq(StatusReports), ~Carries(msgs, DeleteReports),
         Reply(m, msgs)
  PROVE  Carries(toServer'[n], DeleteReports)
           <=> Carries(toServer[n], DeleteReports)
<1>1. toServer[n] \in Seq(StatusReports) BY DEF TypeOK
<1>2. CASE n = m /\ link[m]
  <2>1. toServer'[n] = toServer[n] \o msgs BY <1>2 DEF Reply, TypeOK
  <2> QED BY <1>1, <2>1, CarriesJoined
<1>3. CASE ~(n = m /\ link[m])
  <2>1. toServer'[n] = toServer[n] BY <1>3 DEF Reply, TypeOK
  <2> QED BY <2>1
<1> QED BY <1>2, <1>3

\* Only a "stopped" with the delete flag confirms a delete.
LEMMA PlainReport ==
  ASSUME NEW x \in Statuses, NEW b \in BOOLEAN
  PROVE  /\ x # "stopped" => ~Carries(<<Msg(x, b)>>, DeleteReports)
         /\ ~Carries(<<>>, DeleteReports)
         /\ Carries(<<Msg("stopping", FALSE), Msg("stopped", b)>>, DeleteReports)
              <=> b
<1>1. /\ Msg(x, b).status = x /\ Msg("stopped", b).status = "stopped"
      /\ Msg("stopped", b).delete = b /\ Msg("stopping", FALSE).delete = FALSE
      /\ Msg("stopped", b) \in StatusReports
  BY DEF Msg, StatusReports, Statuses
<1>2. x # "stopped" => ~Carries(<<Msg(x, b)>>, DeleteReports)
  BY <1>1 DEF Carries, DeleteReports
<1>3. ~Carries(<<>>, DeleteReports) BY DEF Carries
<1>4. Msg("stopping", FALSE) \notin DeleteReports BY <1>1 DEF DeleteReports
<1>5. Msg("stopped", b) \in DeleteReports <=> b BY <1>1 DEF DeleteReports
<1>6. ASSUME NEW u, NEW v
      PROVE  Carries(<<u, v>>, DeleteReports)
               <=> u \in DeleteReports \/ v \in DeleteReports
  <2>1. /\ Len(<<u, v>>) = 2 /\ <<u, v>>[1] = u /\ <<u, v>>[2] = v
        /\ \A i \in 1 .. 2 : i = 1 \/ i = 2
        /\ 1 \in 1 .. 2 /\ 2 \in 1 .. 2
    OBVIOUS
  <2> QED BY <2>1 DEF Carries
<1> QED BY <1>2, <1>3, <1>4, <1>5, <1>6

\* reportPhase.
LEMMA PhasePlain ==
  ASSUME TypeOK, NEW n \in Nodes, NEW phase \in {"starting", "running"},
         ReportPhase(phase)
  PROVE  Carries(toServer'[n], DeleteReports)
           <=> Carries(toServer[n], DeleteReports)
<1>1. HeadNode \in Nodes BY ClusterAssumption DEF ClusterAssumption
<1>2. /\ <<Msg(phase, FALSE)>> \in Seq(StatusReports)
      /\ ~Carries(<<Msg(phase, FALSE)>>, DeleteReports)
  BY MsgTypes, PlainReport DEF Statuses
<1>3. CASE Reply(HeadNode, <<Msg(phase, FALSE)>>)
  BY <1>1, <1>2, <1>3, RepliedPlain
<1>4. CASE UNCHANGED toServer BY <1>4
<1> QED BY <1>3, <1>4 DEF ReportPhase

\* A delete starts with a DELETE request, and one on its way over an open
\* socket stays on its way until the row is gone.
FlagFact(n) ==
  /\ Flagged(n)' => Flagged(n) \/ deleting'
  /\ Flagged(n) /\ link[n] /\ row.exists /\ drops' = drops
       => Flagged(n)' \/ ~row'.exists

\* The manager handles the next report of m.
LEMMA FlagReport ==
  ASSUME TypeOK, NEW n \in Nodes, NEW m \in Nodes, HandleReport(m)
  PROVE  FlagFact(n)
<1>1. UNCHANGED <<toAgent, link, drops, deleting>> BY DEF HandleReport
<1>2. CASE n # m
  <2>1. toServer'[n] = toServer[n] /\ tasks'[n] = tasks[n]
    BY <1>2 DEF HandleReport, TypeOK
  <2> QED BY <1>1, <2>1, FlagSame DEF FlagFact
<1>3. CASE n = m
  <2>1. toServer[n] \in Seq(StatusReports) /\ toServer[n] # <<>>
    BY <1>3 DEF HandleReport, TypeOK
  <2>2. toServer'[n] = Tail(toServer[n]) BY <1>3 DEF HandleReport, TypeOK
  <2>3. Carries(toServer[n], DeleteReports)
          <=> \/ Head(toServer[n]) \in DeleteReports
              \/ Carries(toServer'[n], DeleteReports)
    BY <2>1, <2>2, CarriesTaken
  <2>4. Head(toServer[n]) \in StatusReports BY <2>1, Taken
  <2>5. "erase" \in FollowUp(Head(toServer[n]))
          <=> Head(toServer[n]) \in DeleteReports
    BY <2>4 DEF FollowUp, DeleteReports
  <2>6. CASE row.exists
    <3>1. tasks'[n] = tasks[n] \cup FollowUp(Head(toServer[n]))
      BY <1>3, <2>6 DEF HandleReport, TypeOK
    <3>2. "erase" \in tasks'[n] <=> \/ "erase" \in tasks[n]
                                    \/ Head(toServer[n]) \in DeleteReports
      BY <2>5, <3>1
    <3> QED BY <1>1, <2>3, <3>2, Zenon DEF FlagFact, Flagged
  <2>7. CASE ~row.exists
    <3>1. tasks'[n] = tasks[n] BY <1>3, <2>7 DEF HandleReport
    <3> QED BY <1>1, <2>3, <2>7, <3>1, Zenon DEF FlagFact, Flagged
  <2> QED BY <2>6, <2>7
<1> QED BY <1>2, <1>3

\* The agent of m handles its next command.
LEMMA FlagCommand ==
  ASSUME TypeOK, NEW n \in Nodes, NEW m \in Nodes, HandleCommand(m)
  PROVE  FlagFact(n)
<1>1. UNCHANGED <<tasks, link, drops, deleting, row>> BY DEF HandleCommand
<1>2. CASE n # m
  <2>1. toAgent'[n] = toAgent[n] BY <1>2 DEF HandleCommand, TypeOK
  <2>2. Carries(toServer'[n], DeleteReports)
          <=> Carries(toServer[n], DeleteReports)
    <3>1. CASE DoDeploy(m)
      <4>1. CASE ReportPhase("starting") BY <4>1, PhasePlain
      <4>2. CASE UNCHANGED toServer BY <4>2
      <4> QED BY <3>1, <4>1, <4>2 DEF DoDeploy
    <3>2. CASE DoUndeploy(m, Head(toAgent[m]))
      <4>1. toServer'[n] = toServer[n]
        BY <1>2, <3>2 DEF DoUndeploy, Reply, TypeOK
      <4> QED BY <4>1
    <3> QED BY <3>1, <3>2 DEF HandleCommand
  <2> QED BY <1>1, <2>1, <2>2, FlagSame DEF FlagFact
<1>3. CASE n = m
  <2>1. toAgent[n] \in Seq(Commands) /\ toAgent[n] # <<>>
    BY <1>3 DEF HandleCommand, TypeOK
  <2>2. toAgent'[n] = Tail(toAgent[n]) BY <1>3 DEF HandleCommand, TypeOK
  <2>3. Carries(toAgent[n], DeleteCommands)
          <=> \/ Head(toAgent[n]) \in DeleteCommands
              \/ Carries(toAgent'[n], DeleteCommands)
    BY <2>1, <2>2, CarriesTaken
  <2>4. Head(toAgent[n]) \in Commands BY <2>1, Taken
  <2>5. CASE Head(toAgent[n]).kind = "deploy" /\ DoDeploy(n)
    <3>1. Head(toAgent[n]) \notin DeleteCommands BY <2>5 DEF DeleteCommands
    <3>2. Carries(toServer'[n], DeleteReports)
            <=> Carries(toServer[n], DeleteReports)
      <4>1. CASE ReportPhase("starting") BY <4>1, PhasePlain
      <4>2. CASE UNCHANGED toServer BY <4>2
      <4> QED BY <2>5, <4>1, <4>2 DEF DoDeploy
    <3> QED BY <1>1, <2>3, <3>1, <3>2, FlagSame DEF FlagFact
  <2>6. CASE /\ Head(toAgent[n]).kind = "undeploy"
             /\ DoUndeploy(n, Head(toAgent[n]))
    <3>1. PICK c \in Commands : c = Head(toAgent[n]) BY <2>4
    <3>2. c \in DeleteCommands <=> c.delete
      BY <2>6, <3>1 DEF DeleteCommands
    <3>3. c.delete \in BOOLEAN BY DEF Commands
    <3>4. PICK w \in Seq(StatusReports) :
            w = <<Msg("stopping", FALSE), Msg("stopped", c.delete)>>
      BY <3>3, MsgTypes DEF Statuses
    <3>5. Carries(w, DeleteReports) <=> c.delete
      BY <3>3, <3>4, PlainReport DEF Statuses
    <3>6. Reply(n, w) BY <2>6, <3>1, <3>4 DEF DoUndeploy, StoppedReply
    <3>7. CASE link[n]
      <4>1. PICK q \in Seq(StatusReports) : q = toServer[n] BY DEF TypeOK
      <4>2. toServer'[n] = q \o w BY <3>6, <3>7, <4>1 DEF Reply, TypeOK
      <4>3. Carries(q \o w, DeleteReports)
              <=> Carries(q, DeleteReports) \/ Carries(w, DeleteReports)
        BY CarriesJoined
      <4>4. Carries(toServer'[n], DeleteReports)
              <=> Carries(toServer[n], DeleteReports) \/ c.delete
        BY <3>5, <4>1, <4>2, <4>3
      <4> QED BY <1>1, <2>3, <3>1, <3>2, <4>4, Zenon DEF FlagFact, Flagged
    <3>8. CASE ~link[n]
      <4>1. toServer'[n] = toServer[n] BY <3>6, <3>8 DEF Reply, TypeOK
      <4> QED BY <1>1, <2>3, <3>8, <4>1, Zenon DEF FlagFact, Flagged
    <3> QED BY <3>7, <3>8
  <2> QED BY <1>3, <2>5, <2>6 DEF HandleCommand
<1> QED BY <1>2, <1>3

\* A socket drops.
LEMMA FlagDown ==
  ASSUME TypeOK, NEW n \in Nodes, NEW m \in Nodes, LinkDown(m)
  PROVE  FlagFact(n)
<1>1. UNCHANGED <<tasks, deleting, row>> /\ drops' # drops
  BY ClusterAssumption DEF LinkDown, TypeOK, ClusterAssumption
<1>2. CASE n = m
  <2>1. toAgent'[n] = <<>> /\ toServer'[n] = <<>>
    BY <1>2 DEF LinkDown, TypeOK
  <2>2. ~Carries(toAgent'[n], DeleteCommands) BY <2>1 DEF Carries
  <2>3. ~Carries(toServer'[n], DeleteReports) BY <2>1 DEF Carries
  <2> QED BY <1>1, <2>2, <2>3, Zenon DEF FlagFact, Flagged
<1>3. CASE n # m
  <2>1. toAgent'[n] = toAgent[n] /\ toServer'[n] = toServer[n]
    BY <1>3 DEF LinkDown, TypeOK
  <2> QED BY <1>1, <2>1, FlagSame DEF FlagFact
<1> QED BY <1>2, <1>3

\* An agent reconnects.
LEMMA FlagUp ==
  ASSUME TypeOK, NEW n \in Nodes, NEW m \in Nodes, LinkUp(m)
  PROVE  FlagFact(n)
<1>1. UNCHANGED <<toAgent, deleting, row>> /\ ~link[m] BY DEF LinkUp
<1>2. "erase" \in tasks'[n] <=> "erase" \in tasks[n]
  BY DEF LinkUp, Registered, TypeOK
<1>3. CASE toServer'[n] = toServer[n]
  BY <1>1, <1>2, <1>3, FlagSame DEF FlagFact
<1>4. CASE toServer'[n] = ReconcileReport(m) /\ n = m
  <2>1. ~Carries(ReconcileReport(m), DeleteReports)
    <3>1. /\ ~Carries(<<Msg("failed", FALSE)>>, DeleteReports)
          /\ ~Carries(<<Msg("running", FALSE)>>, DeleteReports)
          /\ ~Carries(<<>>, DeleteReports)
      BY PlainReport DEF Statuses
    <3> QED BY <3>1 DEF ReconcileReport
  <2> QED BY <1>1, <1>2, <1>4, <2>1, Zenon DEF FlagFact, Flagged
<1> QED BY <1>3, <1>4 DEF LinkUp, TypeOK

\* What each step does to a delete under way at a rank.
LEMMA FlagStep ==
  ASSUME TypeOK, [Next]_vars, NEW n \in Nodes
  PROVE  FlagFact(n)
<1>1. CASE RestartSend
  <2>1. Deploy \in Commands /\ Deploy \notin DeleteCommands
    BY CommandTypes DEF DeleteCommands
  <2>2. /\ toAgent' = SendAll(Deploy) /\ UNCHANGED <<tasks, toServer>>
    BY <1>1 DEF RestartSend
  <2> QED BY <2>1, <2>2, SentPlain, FlagSame DEF FlagFact
<1>2. CASE EraseSend
  <2>1. /\ Undeploy(FALSE, FALSE) \in Commands
        /\ Undeploy(FALSE, FALSE) \notin DeleteCommands
    BY CommandTypes DEF DeleteCommands
  <2>2. /\ toAgent' = SendAll(Undeploy(FALSE, FALSE))
        /\ UNCHANGED <<tasks, toServer>>
    BY <1>2 DEF EraseSend
  <2> QED BY <2>1, <2>2, SentPlain, FlagSame DEF FlagFact
<1>3. ASSUME NEW delete \in BOOLEAN, RemoveSend(delete) PROVE FlagFact(n)
  <2>1. PICK c \in Commands : c = Undeploy(delete, FALSE) BY CommandTypes
  <2>2. c \in DeleteCommands <=> delete BY <2>1, CommandTypes DEF DeleteCommands
  <2>3. /\ toAgent' = SendAll(c) /\ UNCHANGED <<tasks, toServer>>
    BY <1>3, <2>1 DEF RemoveSend
  <2>4. CASE delete
    <3>1. deleting' BY <1>3, <2>4 DEF RemoveSend
    <3>2. CASE link[n]
      <4>1. PICK q \in Seq(Commands) : q = toAgent[n] BY DEF TypeOK
      <4>2. toAgent'[n] = Append(q, c) BY <2>3, <3>2, <4>1 DEF SendAll
      <4>3. Carries(Append(q, c), DeleteCommands)
              <=> Carries(q, DeleteCommands) \/ c \in DeleteCommands
        BY CarriesAppended
      <4>4. Carries(toAgent'[n], DeleteCommands)
        BY <2>2, <2>4, <4>2, <4>3
      <4> QED BY <3>1, <4>4, Zenon DEF FlagFact, Flagged
    <3>3. CASE ~link[n] BY <3>1, <3>3 DEF FlagFact
    <3> QED BY <3>2, <3>3
  <2>5. CASE ~delete BY <2>2, <2>3, <2>5, SentPlain, FlagSame DEF FlagFact
  <2> QED BY <2>4, <2>5
<1>4. CASE RestartWrite
  <2>1. UNCHANGED <<tasks, toAgent, toServer>> BY <1>4 DEF RestartWrite
  <2> QED BY <2>1, FlagSame DEF FlagFact
<1>5. CASE RemoveWrite
  <2>1. UNCHANGED <<tasks, toAgent, toServer>> BY <1>5 DEF RemoveWrite
  <2> QED BY <2>1, FlagSame DEF FlagFact
<1>6. CASE EraseWrite
  <2>1. UNCHANGED <<tasks, toAgent, toServer>> /\ ~row'.exists
    BY <1>6, RowTypes DEF EraseWrite, Statuses
  <2> QED BY <2>1, FlagSame DEF FlagFact
<1>7. ASSUME NEW m \in Nodes, HandleReport(m) PROVE FlagFact(n)
  BY <1>7, FlagReport
<1>8. ASSUME NEW m \in Nodes, PublishName(m) PROVE FlagFact(n)
  <2>1. UNCHANGED <<toAgent, toServer>> BY <1>8 DEF PublishName
  <2>2. "erase" \in tasks'[n] <=> "erase" \in tasks[n]
    BY <1>8 DEF PublishName, Done, TypeOK
  <2> QED BY <2>1, <2>2, FlagSame DEF FlagFact
<1>9. ASSUME NEW m \in Nodes, Teardown(m) PROVE FlagFact(n)
  <2>1. "erase" \in tasks'[n] <=> "erase" \in tasks[n]
    BY <1>9 DEF Teardown, Done, TypeOK
  <2>2. Carries(toAgent'[n], DeleteCommands)
          <=> Carries(toAgent[n], DeleteCommands)
    <3>1. /\ Undeploy(FALSE, TRUE) \in Commands
          /\ Undeploy(FALSE, TRUE) \notin DeleteCommands
      BY CommandTypes DEF DeleteCommands
    <3>2. CASE toAgent' = SendAll(Undeploy(FALSE, TRUE))
      BY <3>1, <3>2, SentPlain
    <3>3. CASE UNCHANGED toAgent BY <3>3
    <3> QED BY <1>9, <3>2, <3>3 DEF Teardown
  <2>3. UNCHANGED toServer BY <1>9 DEF Teardown
  <2> QED BY <2>1, <2>2, <2>3, FlagSame DEF FlagFact
<1>10. ASSUME NEW m \in Nodes, DeleteConfirmed(m) PROVE FlagFact(n)
  <2>1. UNCHANGED <<toAgent, toServer>> /\ ~row'.exists
    BY <1>10, RowTypes DEF DeleteConfirmed, Statuses
  <2>2. "erase" \in tasks'[n] => "erase" \in tasks[n]
    BY <1>10 DEF DeleteConfirmed, Done, TypeOK
  <2> QED BY <2>1, <2>2, Zenon DEF FlagFact, Flagged
<1>11. ASSUME NEW m \in Nodes, HandleCommand(m) PROVE FlagFact(n)
  BY <1>11, FlagCommand
<1>12. ASSUME NEW m \in Nodes, LaunchSucceeds(m) PROVE FlagFact(n)
  <2>1. UNCHANGED <<tasks, toAgent, toServer>> BY <1>12 DEF LaunchSucceeds
  <2> QED BY <2>1, FlagSame DEF FlagFact
<1>13. ASSUME NEW m \in Nodes, LaunchFails(m) PROVE FlagFact(n)
  <2>1. /\ <<Msg("failed", FALSE)>> \in Seq(StatusReports)
        /\ ~Carries(<<Msg("failed", FALSE)>>, DeleteReports)
    BY MsgTypes, PlainReport DEF Statuses
  <2>2. Reply(m, <<Msg("failed", FALSE)>>) /\ UNCHANGED <<tasks, toAgent>>
    BY <1>13 DEF LaunchFails
  <2> QED BY <2>1, <2>2, RepliedPlain, FlagSame DEF FlagFact
<1>14. ASSUME NEW m \in Nodes, TickDead(m) PROVE FlagFact(n)
  <2>1. /\ <<Msg("failed", FALSE)>> \in Seq(StatusReports)
        /\ ~Carries(<<Msg("failed", FALSE)>>, DeleteReports)
    BY MsgTypes, PlainReport DEF Statuses
  <2>2. Reply(m, <<Msg("failed", FALSE)>>) /\ UNCHANGED <<tasks, toAgent>>
    BY <1>14 DEF TickDead
  <2> QED BY <2>1, <2>2, RepliedPlain, FlagSame DEF FlagFact
<1>15. ASSUME NEW m \in Nodes, RankDies(m) PROVE FlagFact(n)
  <2>1. UNCHANGED <<tasks, toAgent, toServer>> BY <1>15 DEF RankDies
  <2> QED BY <2>1, FlagSame DEF FlagFact
<1>16. ASSUME NEW m \in Nodes, LinkDown(m) PROVE FlagFact(n)
  BY <1>16, FlagDown
<1>17. ASSUME NEW m \in Nodes, LinkUp(m) PROVE FlagFact(n)
  BY <1>17, FlagUp
<1>18. CASE BecomeReady
  <2>1. UNCHANGED <<tasks, toAgent, toServer>> BY <1>18 DEF BecomeReady
  <2> QED BY <2>1, FlagSame DEF FlagFact
<1>19. CASE LogReady
  <2>1. UNCHANGED <<tasks, toAgent>> /\ ReportPhase("running")
    BY <1>19 DEF LogReady
  <2> QED BY <2>1, PhasePlain, FlagSame DEF FlagFact
<1>20. CASE TickHead
  <2>1. HeadNode \in Nodes BY ClusterAssumption DEF ClusterAssumption
  <2>2. PICK s \in {"running", "starting"} : Reply(HeadNode, <<Msg(s, FALSE)>>)
    BY <1>20 DEF TickHead
  <2>3. /\ <<Msg(s, FALSE)>> \in Seq(StatusReports)
        /\ ~Carries(<<Msg(s, FALSE)>>, DeleteReports)
    BY <2>2, MsgTypes, PlainReport DEF Statuses
  <2>4. UNCHANGED <<tasks, toAgent>> BY <1>20 DEF TickHead
  <2> QED BY <2>1, <2>2, <2>3, <2>4, RepliedPlain, FlagSame DEF FlagFact
<1>21. CASE UNCHANGED vars
  <2>1. UNCHANGED <<tasks, toAgent, toServer>> BY <1>21 DEF vars
  <2> QED BY <2>1, FlagSame DEF FlagFact
<1> QED
  BY <1>1, <1>2, <1>3, <1>4, <1>5, <1>6, <1>7, <1>8, <1>9, <1>10, <1>11, <1>12,
     <1>13, <1>14, <1>15, <1>16, <1>17, <1>18, <1>19, <1>20, <1>21 DEF Next,
     Server, FollowUpStep, AgentStep, LaunchEnds

\* Only the two deletes end the row, and nothing brings it back.
LEMMA RowStep ==
  ASSUME TypeOK, [Next]_vars, ~EraseWrite, \A m \in Nodes : ~DeleteConfirmed(m)
  PROVE  row'.exists = row.exists
<1>1. ASSUME RestartSend PROVE row'.exists = row.exists
  BY <1>1 DEF RestartSend
<1>2. ASSUME EraseSend PROVE row'.exists = row.exists
  BY <1>2 DEF EraseSend
<1>3. ASSUME NEW d \in BOOLEAN, RemoveSend(d) PROVE row'.exists = row.exists
  BY <1>3 DEF RemoveSend
<1>4. ASSUME RestartWrite PROVE row'.exists = row.exists
  BY <1>4, RowTypes DEF RestartWrite, Statuses
<1>5. ASSUME RemoveWrite PROVE row'.exists = row.exists
  BY <1>5, RowTypes DEF RemoveWrite, Statuses, RemovingStatus
<1>6. ASSUME EraseWrite PROVE row'.exists = row.exists
  BY <1>6
<1>7. ASSUME NEW m \in Nodes, HandleReport(m) PROVE row'.exists = row.exists
  <2>1. Head(toServer[m]) \in StatusReports
    BY <1>7, Taken DEF HandleReport, TypeOK
  <2>2. Head(toServer[m]).status \in Statuses BY <2>1 DEF StatusReports
  <2> QED BY <1>7, <2>2, RowTypes DEF HandleReport
<1>8. ASSUME NEW m \in Nodes, PublishName(m) PROVE row'.exists = row.exists
  BY <1>8, RowTypes DEF PublishName, Statuses
<1>9. ASSUME NEW m \in Nodes, Teardown(m) PROVE row'.exists = row.exists
  BY <1>9 DEF Teardown
<1>10. ASSUME NEW m \in Nodes, DeleteConfirmed(m) PROVE row'.exists = row.exists
  BY <1>10
<1>11. ASSUME NEW m \in Nodes, HandleCommand(m) PROVE row'.exists = row.exists
  BY <1>11 DEF HandleCommand
<1>12. ASSUME NEW m \in Nodes, LaunchSucceeds(m) PROVE row'.exists = row.exists
  BY <1>12 DEF LaunchSucceeds
<1>13. ASSUME NEW m \in Nodes, LaunchFails(m) PROVE row'.exists = row.exists
  BY <1>13 DEF LaunchFails
<1>14. ASSUME NEW m \in Nodes, TickDead(m) PROVE row'.exists = row.exists
  BY <1>14 DEF TickDead
<1>15. ASSUME NEW m \in Nodes, RankDies(m) PROVE row'.exists = row.exists
  BY <1>15 DEF RankDies
<1>16. ASSUME NEW m \in Nodes, LinkDown(m) PROVE row'.exists = row.exists
  BY <1>16 DEF LinkDown
<1>17. ASSUME NEW m \in Nodes, LinkUp(m) PROVE row'.exists = row.exists
  BY <1>17 DEF LinkUp
<1>18. ASSUME BecomeReady PROVE row'.exists = row.exists
  BY <1>18 DEF BecomeReady
<1>19. ASSUME LogReady PROVE row'.exists = row.exists
  BY <1>19 DEF LogReady
<1>20. ASSUME TickHead PROVE row'.exists = row.exists
  BY <1>20 DEF TickHead
<1>21. ASSUME UNCHANGED vars PROVE row'.exists = row.exists
  BY <1>21 DEF vars
<1> QED
  BY <1>1, <1>2, <1>3, <1>4, <1>5, <1>6, <1>7, <1>8, <1>9, <1>10, <1>11, <1>12,
     <1>13, <1>14, <1>15, <1>16, <1>17, <1>18, <1>19, <1>20, <1>21 DEF Next,
     Server, FollowUpStep, AgentStep, LaunchEnds

\* What starts and what ends a delete, and that no socket drops unseen.
RequestFacts ==
  /\ pending = "erase" /\ ~EraseWrite => pending' = "erase"
  /\ pending' = "erase" /\ ~EraseSend => pending = "erase"
  /\ deleting' /\ ~EraseSend /\ ~RemoveSend(TRUE) => deleting
  /\ deleting /\ ~EraseWrite /\ (\A k \in Nodes : ~DeleteConfirmed(k)) => deleting'
  /\ drops' = 0 => drops = 0
  /\ drops' = 0 => \A k \in Nodes : ~LinkDown(k)

\* What each step does to the request in progress and to the row.
LEMMA RequestStep ==
  ASSUME TypeOK, [Next]_vars
  PROVE  RequestFacts
<1>1. ASSUME RestartSend PROVE RequestFacts
  BY <1>1 DEF RestartSend, RequestFacts, LinkDown, TypeOK
<1>2. ASSUME EraseSend PROVE RequestFacts
  BY <1>2 DEF EraseSend, RequestFacts, LinkDown, TypeOK
<1>3. ASSUME NEW d \in BOOLEAN, RemoveSend(d) PROVE RequestFacts
  <2>1. CASE d BY <1>3, <2>1 DEF RemoveSend, RequestFacts, LinkDown, TypeOK
  <2>2. CASE ~d BY <1>3, <2>2 DEF RemoveSend, RequestFacts, LinkDown, TypeOK
  <2> QED BY <2>1, <2>2
<1>4. ASSUME RestartWrite PROVE RequestFacts
  BY <1>4 DEF RestartWrite, RequestFacts, LinkDown, TypeOK
<1>5. ASSUME RemoveWrite PROVE RequestFacts
  BY <1>5 DEF RemoveWrite, RequestFacts, LinkDown, TypeOK
<1>6. ASSUME EraseWrite PROVE RequestFacts
  BY <1>6 DEF EraseWrite, RequestFacts, LinkDown, TypeOK
<1>7. ASSUME NEW m \in Nodes, HandleReport(m) PROVE RequestFacts
  BY <1>7 DEF HandleReport, RequestFacts, LinkDown, TypeOK
<1>8. ASSUME NEW m \in Nodes, PublishName(m) PROVE RequestFacts
  BY <1>8 DEF PublishName, RequestFacts, LinkDown, TypeOK
<1>9. ASSUME NEW m \in Nodes, Teardown(m) PROVE RequestFacts
  BY <1>9 DEF Teardown, RequestFacts, LinkDown, TypeOK
<1>10. ASSUME NEW m \in Nodes, DeleteConfirmed(m) PROVE RequestFacts
  BY <1>10 DEF DeleteConfirmed, RequestFacts, LinkDown, TypeOK
<1>11. ASSUME NEW m \in Nodes, HandleCommand(m) PROVE RequestFacts
  BY <1>11 DEF HandleCommand, RequestFacts, LinkDown, TypeOK
<1>12. ASSUME NEW m \in Nodes, LaunchSucceeds(m) PROVE RequestFacts
  BY <1>12 DEF LaunchSucceeds, RequestFacts, LinkDown, TypeOK
<1>13. ASSUME NEW m \in Nodes, LaunchFails(m) PROVE RequestFacts
  BY <1>13 DEF LaunchFails, RequestFacts, LinkDown, TypeOK
<1>14. ASSUME NEW m \in Nodes, TickDead(m) PROVE RequestFacts
  BY <1>14 DEF TickDead, RequestFacts, LinkDown, TypeOK
<1>15. ASSUME NEW m \in Nodes, RankDies(m) PROVE RequestFacts
  BY <1>15 DEF RankDies, RequestFacts, LinkDown, TypeOK
<1>16. ASSUME NEW m \in Nodes, LinkDown(m) PROVE RequestFacts
  <2>1. drops' # 0 BY <1>16 DEF LinkDown, TypeOK
  <2>2. UNCHANGED <<pending, deleting>> BY <1>16 DEF LinkDown
  <2> QED BY <2>1, <2>2 DEF RequestFacts
<1>17. ASSUME NEW m \in Nodes, LinkUp(m) PROVE RequestFacts
  BY <1>17 DEF LinkUp, RequestFacts, LinkDown, TypeOK
<1>18. ASSUME BecomeReady PROVE RequestFacts
  BY <1>18 DEF BecomeReady, RequestFacts, LinkDown, TypeOK
<1>19. ASSUME LogReady PROVE RequestFacts
  BY <1>19 DEF LogReady, RequestFacts, LinkDown, TypeOK
<1>20. ASSUME TickHead PROVE RequestFacts
  BY <1>20 DEF TickHead, RequestFacts, LinkDown, TypeOK
<1>21. ASSUME UNCHANGED vars PROVE RequestFacts
  BY <1>21 DEF vars, RequestFacts, LinkDown, TypeOK
<1> QED
  BY <1>1, <1>2, <1>3, <1>4, <1>5, <1>6, <1>7, <1>8, <1>9, <1>10, <1>11, <1>12,
     <1>13, <1>14, <1>15, <1>16, <1>17, <1>18, <1>19, <1>20, <1>21 DEF Next,
     Server, FollowUpStep, AgentStep, LaunchEnds

-----------------------------------------------------------------------------
(* Deletion.                                                               *)

\* While no socket has dropped every socket is open.
LinkInv == drops = 0 => AllLinked

\* The inductive invariant behind DeleteCarriedThrough: a delete that is not
\* confirmed is still under way at the manager or at some rank.
DeleteInv ==
  drops = 0 /\ deleting
    => row.exists /\ (pending = "erase" \/ \E n \in Nodes : Flagged(n))

\* Sockets close only by a drop.
LEMMA LinkStep ==
  ASSUME TypeOK, LinkInv, [Next]_vars
  PROVE  LinkInv'
<1> SUFFICES ASSUME drops' = 0 PROVE \A n \in Nodes : link'[n]
  BY DEF LinkInv, AllLinked
<1>1. drops = 0 /\ \A m \in Nodes : ~LinkDown(m)
  BY RequestStep DEF RequestFacts
<1>2. \A n \in Nodes : link[n] BY <1>1 DEF LinkInv, AllLinked
<1>3. \A m \in Nodes : ~LinkUp(m) BY <1>2 DEF LinkUp
<1>4. link' = link
  BY <1>1, <1>3 DEF Next, Server, FollowUpStep, AgentStep, LaunchEnds, vars,
     RestartSend, EraseSend, RemoveSend, RestartWrite, RemoveWrite, EraseWrite,
     HandleReport, PublishName, Teardown, DeleteConfirmed, HandleCommand,
     LaunchSucceeds, LaunchFails, TickDead, RankDies, BecomeReady, LogReady,
     TickHead
<1> QED BY <1>2, <1>4

\* A DELETE request reaches every agent whose socket is open.
LEMMA RemoveFlags ==
  ASSUME TypeOK, RemoveSend(TRUE), NEW n \in Nodes, link[n]
  PROVE  Flagged(n)'
<1>1. PICK c \in Commands : c = Undeploy(TRUE, FALSE) BY CommandTypes
<1>2. c \in DeleteCommands BY <1>1, CommandTypes DEF DeleteCommands
<1>3. PICK q \in Seq(Commands) : q = toAgent[n] BY DEF TypeOK
<1>4. toAgent'[n] = Append(q, c) BY <1>1, <1>3 DEF RemoveSend, SendAll
<1>5. Carries(Append(q, c), DeleteCommands) BY <1>2, CarriesAppended
<1>6. Carries(toAgent'[n], DeleteCommands) BY <1>4, <1>5
<1> QED BY <1>6, Zenon DEF Flagged

\* Every step keeps DeleteInv.
LEMMA DeleteStep ==
  ASSUME TypeOK, LinkInv, DeleteInv, [Next]_vars
  PROVE  DeleteInv'
<1> SUFFICES ASSUME drops' = 0, deleting'
             PROVE  /\ row'.exists
                    /\ pending' = "erase" \/ \E n \in Nodes : Flagged(n)'
  BY Zenon DEF DeleteInv
<1>1. RequestFacts BY RequestStep
<1>2. drops = 0 /\ drops' = drops BY <1>1 DEF RequestFacts
<1>3. ~EraseWrite BY DEF EraseWrite
<1>4. \A m \in Nodes : ~DeleteConfirmed(m) BY DEF DeleteConfirmed
<1>5. row'.exists = row.exists BY <1>3, <1>4, RowStep
<1>6. CASE deleting
  <2>1. /\ row.exists
        /\ pending = "erase" \/ \E n \in Nodes : Flagged(n)
    BY <1>2, <1>6, Zenon DEF DeleteInv
  <2>2. CASE pending = "erase"
    BY <1>1, <1>3, <1>5, <2>1, <2>2 DEF RequestFacts
  <2>3. CASE \E n \in Nodes : Flagged(n)
    <3>1. PICK n \in Nodes : Flagged(n) BY <2>3
    <3>2. link[n] BY <1>2 DEF LinkInv, AllLinked
    <3>3. Flagged(n)' BY <1>2, <1>5, <2>1, <3>1, <3>2, FlagStep DEF FlagFact
    <3> QED BY <1>5, <2>1, <3>3
  <2> QED BY <2>1, <2>2, <2>3
<1>7. CASE ~deleting
  <2>1. CASE EraseSend BY <1>5, <2>1 DEF EraseSend
  <2>2. CASE RemoveSend(TRUE)
    <3>1. HeadNode \in Nodes BY ClusterAssumption DEF ClusterAssumption
    <3>2. link[HeadNode] BY <1>2, <3>1 DEF LinkInv, AllLinked
    <3>3. Flagged(HeadNode)' BY <2>2, <3>1, <3>2, RemoveFlags
    <3>4. row.exists BY <2>2 DEF RemoveSend
    <3> QED BY <1>5, <3>1, <3>3, <3>4
  <2> QED BY <1>1, <1>7, <2>1, <2>2 DEF RequestFacts
<1> QED BY <1>6, <1>7

\* A DELETE with delete=true is carried through whatever failure, teardown or
\* restart races it: once everything has drained over sockets that stayed open,
\* it has been confirmed and the row is gone.
THEOREM DeleteCarriedThroughCorrect == Spec => []DeleteCarriedThrough
<1>1. Init => LinkInv /\ DeleteInv
  BY DEF Init, LinkInv, AllLinked, DeleteInv
<1>2. TypeOK /\ (LinkInv /\ DeleteInv) /\ [Next]_vars => (LinkInv /\ DeleteInv)'
  BY LinkStep, DeleteStep
<1>3. DeleteInv => DeleteCarriedThrough
  <2> SUFFICES ASSUME DeleteInv, Drained, drops = 0, deleting PROVE FALSE
    BY DEF DeleteCarriedThrough
  <2>1. PICK n \in Nodes : Flagged(n) BY DEF DeleteInv, Drained
  <2>2. toAgent[n] = <<>> /\ toServer[n] = <<>> /\ tasks[n] = {}
    BY <2>1 DEF Drained
  <2>3. ~Carries(toAgent[n], DeleteCommands) BY <2>2 DEF Carries
  <2>4. ~Carries(toServer[n], DeleteReports) BY <2>2 DEF Carries
  <2> QED BY <2>1, <2>2, <2>3, <2>4 DEF Flagged
<1> QED BY <1>1, <1>2, <1>3, TypeCorrect, PTL DEF Spec

\* The row is gone, or is going.
Asked == deleting \/ ~row.exists

\* The inductive invariant behind RowGoneMeansDown: the row is only deleted on
\* request, and from the request on every rank is going down.
GoneInv ==
  /\ pending = "erase" => Asked
  /\ \A n \in Nodes : Flagged(n) => Asked
  /\ drops = 0 /\ Asked => \A n \in Nodes : GoingDown(n)

\* A deletion asked for is never taken back.
LEMMA AskedKept ==
  ASSUME TypeOK, [Next]_vars, Asked
  PROVE  Asked'
<1>1. CASE EraseWrite BY <1>1, RowTypes DEF EraseWrite, Asked, Statuses
<1>2. CASE \E m \in Nodes : DeleteConfirmed(m)
  BY <1>2, RowTypes DEF DeleteConfirmed, Asked, Statuses
<1>3. CASE ~EraseWrite /\ \A m \in Nodes : ~DeleteConfirmed(m)
  <2>1. row'.exists = row.exists BY <1>3, RowStep
  <2>2. deleting => deleting' BY <1>3, RequestStep DEF RequestFacts
  <2> QED BY <2>1, <2>2 DEF Asked
<1> QED BY <1>1, <1>2, <1>3

\* A patient operator keeps GoneInv.
LEMMA GoneStep ==
  ASSUME Patient, TypeOK, LinkInv, GoneInv, [Next]_vars
  PROVE  GoneInv'
<1>1. RequestFacts BY RequestStep
<1>2. pending' = "erase" => Asked'
  <2>1. CASE EraseSend BY <2>1 DEF EraseSend, Asked
  <2>2. CASE ~EraseSend BY <1>1, <2>2, AskedKept DEF RequestFacts, GoneInv
  <2> QED BY <2>1, <2>2
<1>3. ASSUME NEW n \in Nodes, Flagged(n)' PROVE Asked'
  <2>1. CASE Flagged(n) BY <2>1, AskedKept DEF GoneInv
  <2>2. CASE deleting' BY <2>2 DEF Asked
  <2> QED BY <1>3, <2>1, <2>2, FlagStep DEF FlagFact
<1>4. ASSUME drops' = 0, Asked', NEW n \in Nodes PROVE GoingDown(n)'
  <2>1. drops = 0 /\ \A m \in Nodes : ~LinkDown(m)
    BY <1>1, <1>4 DEF RequestFacts
  <2>2. CASE Asked
    <3>1. ~RestartSend BY <2>2 DEF RestartSend, Asked
    <3>2. GoingDown(n) BY <2>1, <2>2 DEF GoneInv
    <3> QED BY <2>1, <3>1, <3>2, DownStep
  <2>3. CASE ~Asked
    <3>1. ~EraseWrite BY <2>3 DEF EraseWrite, GoneInv
    <3>2. ASSUME NEW m \in Nodes PROVE ~DeleteConfirmed(m)
      BY <2>3 DEF DeleteConfirmed, Done, GoneInv, Flagged
    <3>3. row'.exists = row.exists BY <3>1, <3>2, RowStep
    <3>4. deleting' /\ ~deleting BY <1>4, <2>3, <3>3 DEF Asked
    <3>5. EraseSend \/ RemoveSend(TRUE) BY <1>1, <3>4 DEF RequestFacts
    <3>6. link[n] BY <2>1 DEF LinkInv, AllLinked
    <3>7. CASE EraseSend BY <3>6, <3>7, DownTold, CommandTypes DEF EraseSend
    <3>8. CASE RemoveSend(TRUE)
      BY <3>6, <3>8, DownTold, CommandTypes DEF RemoveSend
    <3> QED BY <3>5, <3>7, <3>8
  <2> QED BY <2>2, <2>3
<1> QED BY <1>2, <1>3, <1>4, Zenon DEF GoneInv

\* An operator who waits for a delete before restarting never loses a rank:
\* when the row is gone and everything has drained over sockets that stayed
\* open, every rank is down.
THEOREM RowGoneMeansDownCorrect ==
  ASSUME Patient
  PROVE  Spec => []RowGoneMeansDown
<1>1. Init => LinkInv /\ GoneInv
  <2> SUFFICES ASSUME Init PROVE LinkInv /\ GoneInv
    OBVIOUS
  <2>1. ~Asked /\ pending = "none" /\ LinkInv
    BY DEF Init, Asked, LinkInv, AllLinked
  <2>2. ASSUME NEW n \in Nodes PROVE ~Flagged(n)
    <3>1. toAgent[n] = <<Deploy>> /\ toServer[n] = <<>> /\ tasks[n] = {}
      BY DEF Init
    <3>2. Deploy \notin DeleteCommands BY CommandTypes DEF DeleteCommands
    <3>3. ~Carries(toAgent[n], DeleteCommands) BY <3>1, <3>2 DEF Carries
    <3>4. ~Carries(toServer[n], DeleteReports) BY <3>1 DEF Carries
    <3> QED BY <3>1, <3>3, <3>4 DEF Flagged
  <2> QED BY <2>1, <2>2 DEF GoneInv
<1>2. TypeOK /\ (LinkInv /\ GoneInv) /\ [Next]_vars => (LinkInv /\ GoneInv)'
  BY LinkStep, GoneStep
<1>3. GoneInv => RowGoneMeansDown
  BY DEF GoneInv, RowGoneMeansDown, Drained, GoingDown, Asked
<1> QED BY <1>1, <1>2, <1>3, TypeCorrect, PTL DEF Spec

=============================================================================
