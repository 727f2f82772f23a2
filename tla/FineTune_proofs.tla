--------------------------- MODULE FineTune_proofs ---------------------------
(***************************************************************************)
(* Machine-checked proofs about FineTune, for any set of workers, any      *)
(* number of faults and renames and queues of any length.                  *)
(***************************************************************************)
EXTENDS FineTune, TLAPS

USE DEF jobVars, netVars, runVars, artVars, cntVars, depVars

-----------------------------------------------------------------------------
(* Queues.                                                                 *)

\* A message at the end of a queue.
LEMMA Appended ==
  ASSUME NEW S, NEW q \in Seq(S), NEW e \in S
  PROVE  /\ Append(q, e) \in Seq(S) /\ Len(Append(q, e)) = Len(q) + 1
         /\ Append(q, e)[Len(q) + 1] = e
         /\ \A i \in 1 .. Len(q) : Append(q, e)[i] = q[i]
OBVIOUS

\* A queue without its first message.
LEMMA Taken ==
  ASSUME NEW S, NEW q \in Seq(S), q # <<>>
  PROVE  /\ Tail(q) \in Seq(S) /\ Head(q) \in S /\ Head(q) = q[1]
         /\ Len(q) \in Nat \ {0} /\ Len(Tail(q)) = Len(q) - 1
         /\ \A i \in 1 .. Len(q) - 1 : Tail(q)[i] = q[i + 1]
OBVIOUS

-----------------------------------------------------------------------------
(* Types.                                                                  *)

\* sendToAgent.
LEMMA ToAgentType ==
  ASSUME TypeOK, NEW c \in Commands
  PROVE  ToAgent(c) \in Seq(Commands)
BY Appended DEF ToAgent, TypeOK, NetTypeOK

\* sendMsg.
LEMMA ToManagerType ==
  ASSUME TypeOK, NEW stage \in {"train", "merge", "quantize"},
         NEW result \in {"completed", "failed", "stopped"},
         NEW whole \in BOOLEAN, result = "stopped" => stage = "train"
  PROVE  ToManager(Report(stage, result, whole)) \in Seq(Reports)
<1>1. Report(stage, result, whole) \in Reports BY DEF Report, Reports
<1> QED BY <1>1, Appended DEF ToManager, TypeOK, NetTypeOK

\* cleanup().
LEMMA CleanupType ==
  ASSUME TypeOK, NEW u \in SUBSET Hosts, NEW h, Cleanup(u, h)
  PROVE  /\ unreached' \subseteq Hosts /\ works' \subseteq Workers
         /\ dead' \subseteq works' /\ head' \in {h, "absent"} /\ tracked' = FALSE
BY DEF Cleanup, CleanWorkers, Missed, HeadLeft, TypeOK, RunTypeOK, CntTypeOK

\* What a step that leaves a group of variables alone does to their types.
LEMMA Kept ==
  ASSUME TypeOK
  PROVE  /\ UNCHANGED jobVars => JobTypeOK'
         /\ UNCHANGED netVars => NetTypeOK'
         /\ UNCHANGED runVars => RunTypeOK'
         /\ UNCHANGED artVars => ArtTypeOK'
         /\ UNCHANGED cntVars => CntTypeOK'
<1>1. UNCHANGED jobVars => JobTypeOK' BY DEF TypeOK, JobTypeOK
<1>2. UNCHANGED netVars => NetTypeOK' BY DEF TypeOK, NetTypeOK
<1>3. UNCHANGED runVars => RunTypeOK' BY DEF TypeOK, RunTypeOK
<1>4. UNCHANGED artVars => ArtTypeOK' BY DEF TypeOK, ArtTypeOK
<1>5. UNCHANGED cntVars => CntTypeOK' BY DEF TypeOK, CntTypeOK
<1> QED BY <1>1, <1>2, <1>3, <1>4, <1>5

\* The end of a failed launch.
LEMMA LaunchFailsType ==
  ASSUME TypeOK, NEW u \in SUBSET Hosts, LaunchFails(u)
  PROVE  TypeOK'
<1>1. msgs' \in Seq(Reports) BY ToManagerType DEF LaunchFails
<1>2. Cleanup(u, head) BY DEF LaunchFails
<1>3. /\ unreached' \subseteq Hosts /\ works' \subseteq Workers
      /\ dead' \subseteq works' /\ head' \in {head, "absent"} /\ tracked' = FALSE
  BY <1>2, CleanupType
<1>4. JobTypeOK' /\ ArtTypeOK' BY Kept DEF LaunchFails
<1>5. NetTypeOK' BY <1>1 DEF LaunchFails, TypeOK, NetTypeOK
<1>6. RunTypeOK' BY <1>3 DEF LaunchFails, TypeOK, RunTypeOK
<1>7. CntTypeOK' BY <1>3 DEF LaunchFails, TypeOK, CntTypeOK
<1> QED BY <1>4, <1>5, <1>6, <1>7 DEF TypeOK

\* The next worker, or the training.
LEMMA ProceedType ==
  ASSUME TypeOK, NEW rest \in SUBSET Workers, Proceed(rest)
  PROVE  /\ todo' \subseteq Workers /\ launch' \in {"training", "workers"}
         /\ head' \in {"absent", "up", "training", "done", "broken"}
         /\ works \subseteq works' /\ works' \subseteq Workers
BY DEF Proceed, TypeOK, RunTypeOK

\* Every variable keeps its type.
THEOREM TypeCorrect == Spec => []TypeOK
<1> USE FineTuneAssumption DEF FineTuneAssumption
<1>1. Init => TypeOK
  <2> SUFFICES ASSUME Init PROVE TypeOK
    OBVIOUS
  <2>1. JobTypeOK BY DEF Init, JobTypeOK, Statuses, Names
  <2>2. NetTypeOK BY DEF Init, NetTypeOK
  <2>3. RunTypeOK BY DEF Init, RunTypeOK
  <2>4. ArtTypeOK BY DEF Init, ArtTypeOK
  <2>5. CntTypeOK
    <3>1. MaxRenames \in Nat OBVIOUS
    <3>2. renames \in 0 .. MaxRenames BY <3>1 DEF Init
    <3> QED BY <3>2 DEF Init, CntTypeOK
  <2> QED BY <2>1, <2>2, <2>3, <2>4, <2>5 DEF TypeOK
<1>2. TypeOK /\ [Next]_vars => TypeOK'
  <2> SUFFICES ASSUME TypeOK, [Next]_vars PROVE TypeOK'
    OBVIOUS
  <2>1. ASSUME NEW u \in SUBSET Hosts, RunHead(u) PROVE TypeOK'
    <3>1. StoppedMeanwhile => 
          /\ unreached' \subseteq Hosts /\ works' \subseteq Workers
          /\ dead' \subseteq works' /\ head' \in {"up", "absent"} /\ tracked' = FALSE
      BY <2>1, CleanupType DEF RunHead
    <3>2. JobTypeOK' /\ NetTypeOK' /\ ArtTypeOK' BY <2>1, Kept DEF RunHead
    <3>3. RunTypeOK' BY <2>1, <3>1 DEF RunHead, TypeOK, RunTypeOK
    <3>4. CntTypeOK' BY <2>1, <3>1 DEF RunHead, TypeOK, CntTypeOK
    <3> QED BY <3>2, <3>3, <3>4 DEF TypeOK
  <2>2. ASSUME NEW u \in SUBSET Hosts, BuildFails(u) PROVE TypeOK'
    BY <2>2, LaunchFailsType DEF BuildFails
  <2>3. ASSUME NEW u \in SUBSET Hosts, ReadyFails(u) PROVE TypeOK'
    BY <2>3, LaunchFailsType DEF ReadyFails
  <2>4. ASSUME NEW u \in SUBSET Hosts, WorkerFails(u) PROVE TypeOK'
    BY <2>4, LaunchFailsType DEF WorkerFails
  <2>5. ASSUME NEW u \in SUBSET Hosts, ExecExit(u) PROVE TypeOK'
    <3>1. ExitResult(head) \in {"completed", "failed", "stopped"}
      BY DEF ExitResult
    <3>2. msgs' \in Seq(Reports)
      BY <2>5, <3>1, ToManagerType DEF ExecExit
    <3>3. Cleanup(u, head)
      BY <2>5 DEF ExecExit
    <3>4. /\ unreached' \subseteq Hosts /\ works' \subseteq Workers
          /\ dead' \subseteq works' /\ head' \in {head, "absent"} /\ tracked' = FALSE
      BY <3>3, CleanupType
    <3>5. JobTypeOK' /\ ArtTypeOK' BY <2>5, Kept DEF ExecExit
    <3>6. NetTypeOK' BY <2>5, <3>1, <3>2, <3>3, <3>4 DEF ExecExit, TypeOK,
         NetTypeOK
    <3>7. RunTypeOK' BY <2>5, <3>1, <3>2, <3>3, <3>4 DEF ExecExit, TypeOK,
         RunTypeOK
    <3>8. CntTypeOK' BY <2>5, <3>1, <3>2, <3>3, <3>4 DEF ExecExit, TypeOK,
         CntTypeOK
    <3> QED BY <3>5, <3>6, <3>7, <3>8 DEF TypeOK
  <2>6. ASSUME NEW u \in SUBSET Hosts, Watchdog(u) PROVE TypeOK'
    <3>1. msgs' \in Seq(Reports)
      BY <2>6, ToManagerType DEF Watchdog, TypeOK, NetTypeOK
    <3>2. Cleanup(u, head)
      BY <2>6 DEF Watchdog
    <3>3. /\ unreached' \subseteq Hosts /\ works' \subseteq Workers
          /\ dead' \subseteq works' /\ head' \in {head, "absent"} /\ tracked' = FALSE
      BY <3>2, CleanupType
    <3>4. JobTypeOK' /\ ArtTypeOK' BY <2>6, Kept DEF Watchdog
    <3>5. NetTypeOK' BY <2>6, <3>1, <3>2, <3>3 DEF Watchdog, TypeOK, NetTypeOK
    <3>6. RunTypeOK' BY <2>6, <3>1, <3>2, <3>3 DEF Watchdog, TypeOK, RunTypeOK
    <3>7. CntTypeOK' BY <2>6, <3>1, <3>2, <3>3 DEF Watchdog, TypeOK, CntTypeOK
    <3> QED BY <3>4, <3>5, <3>6, <3>7 DEF TypeOK
  <2>7. ASSUME NEW w \in Workers, WorkerReady(w) PROVE TypeOK'
    <3>1. todo \ {w} \in SUBSET Workers /\ Proceed(todo \ {w})
      BY <2>7 DEF WorkerReady, TypeOK, RunTypeOK
    <3>2. /\ todo' \subseteq Workers /\ launch' \in {"training", "workers"}
          /\ head' \in {"absent", "up", "training", "done", "broken"}
          /\ works \subseteq works' /\ works' \subseteq Workers
      BY <3>1, ProceedType
    <3>3. JobTypeOK' /\ NetTypeOK' /\ ArtTypeOK' /\ CntTypeOK'
      BY <2>7, Kept DEF WorkerReady
    <3>4. RunTypeOK' BY <2>7, <3>1, <3>2 DEF WorkerReady, TypeOK, RunTypeOK
    <3> QED BY <3>3, <3>4 DEF TypeOK
  <2>8. ASSUME HeadReady PROVE TypeOK'
    <3>1. /\ todo' \subseteq Workers /\ launch' \in {"training", "workers"}
          /\ head' \in {"absent", "up", "training", "done", "broken"}
          /\ works \subseteq works' /\ works' \subseteq Workers
      BY <2>8, ProceedType DEF HeadReady
    <3>2. JobTypeOK' /\ NetTypeOK' /\ ArtTypeOK' /\ CntTypeOK'
      BY <2>8, Kept DEF HeadReady
    <3>3. RunTypeOK' BY <2>8, <3>1 DEF HeadReady, TypeOK, RunTypeOK
    <3> QED BY <3>2, <3>3 DEF TypeOK
  <2>9. ASSUME ExecAborted PROVE TypeOK'
    <3>1. JobTypeOK' /\ NetTypeOK' /\ ArtTypeOK' /\ CntTypeOK'
      BY <2>9, Kept DEF ExecAborted
    <3>2. RunTypeOK' BY <2>9 DEF ExecAborted, TypeOK, RunTypeOK
    <3> QED BY <3>1, <3>2 DEF TypeOK
  <2>10. ASSUME NEW u \in SUBSET Hosts, StopJob(u) PROVE TypeOK'
    <3>1. cmds' \in Seq(Commands)
      BY <2>10, Taken DEF StopJob, Command, TypeOK, NetTypeOK
    <3>2. msgs' \in Seq(Reports)
      BY <2>10, ToManagerType DEF StopJob, TypeOK, NetTypeOK
    <3>3. /\ unreached' \subseteq Hosts /\ works' \subseteq Workers
          /\ dead' \subseteq works' /\ head' \in {head, "absent"}
          /\ tracked' \in BOOLEAN /\ aborted' \in BOOLEAN
      <4>1. CASE tracked
        BY <2>10, <4>1, CleanupType DEF StopJob
      <4>2. CASE ~tracked
        BY <2>10, <4>2 DEF StopJob, ForceWorkers, Missed, HeadLeft, TypeOK, RunTypeOK,
            CntTypeOK
      <4> QED BY <4>1, <4>2 DEF TypeOK, RunTypeOK
    <3>4. JobTypeOK' /\ ArtTypeOK' BY <2>10, Kept DEF StopJob
    <3>5. NetTypeOK' BY <2>10, <3>1, <3>2, <3>3 DEF StopJob, TypeOK, NetTypeOK
    <3>6. RunTypeOK' BY <2>10, <3>1, <3>2, <3>3 DEF StopJob, TypeOK, RunTypeOK
    <3>7. CntTypeOK' BY <2>10, <3>1, <3>2, <3>3 DEF StopJob, TypeOK, CntTypeOK
    <3> QED BY <3>4, <3>5, <3>6, <3>7 DEF TypeOK
  <2>11. ASSUME NEW ok \in BOOLEAN, Start(ok) PROVE TypeOK'
    <3>1. cmds' \in Seq(Commands)
      BY <2>11, Taken DEF Start, Command, TypeOK, NetTypeOK
    <3>2. msgs' \in Seq(Reports)
      BY <2>11, ToManagerType DEF Start, TypeOK, NetTypeOK
    <3>3. JobTypeOK' /\ ArtTypeOK' /\ CntTypeOK' BY <2>11, Kept DEF Start
    <3>4. NetTypeOK' BY <2>11, <3>1, <3>2 DEF Start, TypeOK, NetTypeOK
    <3>5. RunTypeOK' BY <2>11, <3>1, <3>2 DEF Start, TypeOK, RunTypeOK
    <3> QED BY <3>3, <3>4, <3>5 DEF TypeOK
  <2>12. ASSUME NEW ok \in BOOLEAN, MergeStart(ok) PROVE TypeOK'
    <3>1. cmds' \in Seq(Commands)
      BY <2>12, Taken DEF MergeStart, Command, TypeOK, NetTypeOK
    <3>2. msgs' \in Seq(Reports)
      BY <2>12, ToManagerType DEF MergeStart, TypeOK, NetTypeOK
    <3>3. JobTypeOK' /\ RunTypeOK' /\ CntTypeOK' BY <2>12, Kept DEF MergeStart
    <3>4. NetTypeOK' BY <2>12, <3>1, <3>2 DEF MergeStart, TypeOK, NetTypeOK
    <3>5. ArtTypeOK' BY <2>12, <3>1, <3>2 DEF MergeStart, TypeOK, ArtTypeOK
    <3> QED BY <3>3, <3>4, <3>5 DEF TypeOK
  <2>13. ASSUME NEW ok \in BOOLEAN, QuantizeStart(ok) PROVE TypeOK'
    <3>1. cmds' \in Seq(Commands)
      BY <2>13, Taken DEF QuantizeStart, Command, TypeOK, NetTypeOK
    <3>2. msgs' \in Seq(Reports)
      BY <2>13, ToManagerType DEF QuantizeStart, TypeOK, NetTypeOK
    <3>3. JobTypeOK' /\ RunTypeOK' /\ CntTypeOK'
      BY <2>13, Kept DEF QuantizeStart
    <3>4. NetTypeOK' BY <2>13, <3>1, <3>2 DEF QuantizeStart, TypeOK, NetTypeOK
    <3>5. ArtTypeOK' BY <2>13, <3>1, <3>2 DEF QuantizeStart, TypeOK, ArtTypeOK
    <3> QED BY <3>3, <3>4, <3>5 DEF TypeOK
  <2>14. ASSUME Serve PROVE TypeOK'
    <3>1. cmds' \in Seq(Commands)
      BY <2>14, Taken DEF Serve, Command, TypeOK, NetTypeOK
    <3>2. JobTypeOK' /\ RunTypeOK' /\ CntTypeOK' BY <2>14, Kept DEF Serve
    <3>3. NetTypeOK' BY <2>14, <3>1 DEF Serve, TypeOK, NetTypeOK
    <3>4. ArtTypeOK' BY <2>14, <3>1 DEF Serve, TypeOK, ArtTypeOK
    <3> QED BY <3>2, <3>3, <3>4 DEF TypeOK
  <2>15. ASSUME NEW ok \in BOOLEAN, MergeExit(ok) PROVE TypeOK'
    <3>1. msgs' \in Seq(Reports)
      BY <2>15, ToManagerType DEF MergeExit, TypeOK, NetTypeOK
    <3>2. JobTypeOK' /\ RunTypeOK' /\ CntTypeOK' BY <2>15, Kept DEF MergeExit
    <3>3. NetTypeOK' BY <2>15, <3>1 DEF MergeExit, TypeOK, NetTypeOK
    <3>4. ArtTypeOK' BY <2>15, <3>1 DEF MergeExit, TypeOK, ArtTypeOK
    <3> QED BY <3>2, <3>3, <3>4 DEF TypeOK
  <2>16. ASSUME NEW ok \in BOOLEAN, QuantizeExit(ok) PROVE TypeOK'
    <3>1. msgs' \in Seq(Reports)
      BY <2>16, ToManagerType DEF QuantizeExit, TypeOK, NetTypeOK
    <3>2. JobTypeOK' /\ RunTypeOK' /\ CntTypeOK' BY <2>16, Kept DEF QuantizeExit
    <3>3. NetTypeOK' BY <2>16, <3>1 DEF QuantizeExit, TypeOK, NetTypeOK
    <3>4. ArtTypeOK' BY <2>16, <3>1 DEF QuantizeExit, TypeOK, ArtTypeOK
    <3> QED BY <3>2, <3>3, <3>4 DEF TypeOK
  <2>17. ASSUME NEW ok \in BOOLEAN, OrphanMergeEnds(ok) PROVE TypeOK'
    <3>1. msgs' \in Seq(Reports)
      BY <2>17, ToManagerType DEF OrphanMergeEnds, TypeOK, NetTypeOK
    <3>2. JobTypeOK' /\ CntTypeOK' BY <2>17, Kept DEF OrphanMergeEnds
    <3>3. NetTypeOK' BY <2>17, <3>1 DEF OrphanMergeEnds, TypeOK, NetTypeOK
    <3>4. RunTypeOK' BY <2>17, <3>1 DEF OrphanMergeEnds, TypeOK, RunTypeOK
    <3>5. ArtTypeOK' BY <2>17, <3>1 DEF OrphanMergeEnds, TypeOK, ArtTypeOK
    <3> QED BY <3>2, <3>3, <3>4, <3>5 DEF TypeOK
  <2>18. ASSUME NEW ok \in BOOLEAN, OrphanQuantizeEnds(ok) PROVE TypeOK'
    <3>1. JobTypeOK' /\ NetTypeOK' /\ RunTypeOK' /\ CntTypeOK'
      BY <2>18, Kept DEF OrphanQuantizeEnds
    <3>2. ArtTypeOK' BY <2>18 DEF OrphanQuantizeEnds, TypeOK, ArtTypeOK
    <3> QED BY <3>1, <3>2 DEF TypeOK
  <2>19. ASSUME TailTraining PROVE TypeOK'
    <3>1. ExitResult(head) \in {"completed", "failed", "stopped"}
      BY DEF ExitResult
    <3>2. msgs' \in Seq(Reports)
      BY <2>19, <3>1, ToManagerType DEF TailTraining
    <3>3. JobTypeOK' /\ ArtTypeOK' /\ CntTypeOK' BY <2>19, Kept DEF TailTraining
    <3>4. NetTypeOK' BY <2>19, <3>1, <3>2 DEF TailTraining, TypeOK, NetTypeOK
    <3>5. RunTypeOK' BY <2>19, <3>1, <3>2 DEF TailTraining, TypeOK, RunTypeOK
    <3> QED BY <3>3, <3>4, <3>5 DEF TypeOK
  <2>20. ASSUME CreateSend PROVE TypeOK'
    <3>1. cmds' \in Seq(Commands)
      BY <2>20, ToAgentType DEF CreateSend, Commands, TypeOK, NetTypeOK
    <3>2. status' \in Statuses /\ creating' \in BOOLEAN
      BY <2>20 DEF CreateSend, TypeOK, JobTypeOK, Statuses
    <3>3. UNCHANGED <<merge, quant, name, model, dep, deploying, deleting>>
      BY <2>20 DEF CreateSend
    <3>4. RunTypeOK' /\ ArtTypeOK' /\ CntTypeOK' BY <2>20, Kept DEF CreateSend
    <3>5. JobTypeOK' BY <3>1, <3>2, <3>3 DEF TypeOK, JobTypeOK
    <3>6. NetTypeOK' BY <2>20, <3>1, <3>2, <3>3 DEF CreateSend, TypeOK,
         NetTypeOK
    <3> QED BY <3>4, <3>5, <3>6 DEF TypeOK
  <2>21. ASSUME HandleReport PROVE TypeOK'
    <3>1. msgs' \in Seq(Reports) /\ Head(msgs) \in Reports
      BY <2>21, Taken DEF HandleReport, TypeOK, NetTypeOK
    <3>2. /\ Head(msgs).result \in {"completed", "failed", "stopped"}
          /\ Head(msgs).stage = "merge"
               => Head(msgs).result \in {"completed", "failed"}
      BY <3>1 DEF Reports
    <3>3. RunTypeOK' /\ ArtTypeOK' /\ CntTypeOK' BY <2>21, Kept DEF HandleReport
    <3>4. JobTypeOK' BY <2>21, <3>1, <3>2 DEF HandleReport, TypeOK, JobTypeOK,
         Statuses, QuantStatus
    <3>5. NetTypeOK' BY <2>21, <3>1, <3>2 DEF HandleReport, TypeOK, NetTypeOK
    <3> QED BY <3>3, <3>4, <3>5 DEF TypeOK
  <2>22. ASSUME DeployRefused PROVE TypeOK'
    <3>1. NetTypeOK' /\ RunTypeOK' /\ ArtTypeOK' /\ CntTypeOK'
      BY <2>22, Kept DEF DeployRefused
    <3>2. JobTypeOK' BY <2>22 DEF DeployRefused, TypeOK, JobTypeOK, Statuses
    <3> QED BY <3>1, <3>2 DEF TypeOK
  <2>23. ASSUME DeployUpsert PROVE TypeOK'
    <3>1. deploying.name \in Names
      BY <2>23 DEF DeployUpsert, TypeOK, JobTypeOK, Idle
    <3>2. NetTypeOK' /\ RunTypeOK' /\ ArtTypeOK' /\ CntTypeOK'
      BY <2>23, Kept DEF DeployUpsert
    <3>3. JobTypeOK' BY <2>23, <3>1 DEF DeployUpsert, TypeOK, JobTypeOK
    <3> QED BY <3>2, <3>3 DEF TypeOK
  <2>24. ASSUME DeployCreate PROVE TypeOK'
    <3>1. NetTypeOK' /\ RunTypeOK' /\ ArtTypeOK' /\ CntTypeOK'
      BY <2>24, Kept DEF DeployCreate
    <3>2. JobTypeOK' BY <2>24 DEF DeployCreate, TypeOK, JobTypeOK
    <3> QED BY <3>1, <3>2 DEF TypeOK
  <2>25. ASSUME NEW c \in BOOLEAN, DeleteSweep(c) PROVE TypeOK'
    <3>1. cmds' \in Seq(Commands)
      BY <2>25, ToAgentType DEF DeleteSweep, Commands, TypeOK, NetTypeOK
    <3>2. RunTypeOK' /\ CntTypeOK' BY <2>25, Kept DEF DeleteSweep
    <3>3. JobTypeOK' BY <2>25, <3>1 DEF DeleteSweep, TypeOK, JobTypeOK
    <3>4. NetTypeOK' BY <2>25, <3>1 DEF DeleteSweep, TypeOK, NetTypeOK
    <3>5. ArtTypeOK' BY <2>25, <3>1 DEF DeleteSweep, TypeOK, ArtTypeOK
    <3> QED BY <3>2, <3>3, <3>4, <3>5 DEF TypeOK
  <2>26. ASSUME DeleteRow PROVE TypeOK'
    <3>1. NetTypeOK' /\ RunTypeOK' /\ ArtTypeOK' /\ CntTypeOK'
      BY <2>26, Kept DEF DeleteRow
    <3>2. JobTypeOK' BY <2>26 DEF DeleteRow, TypeOK, JobTypeOK, Statuses
    <3> QED BY <3>1, <3>2 DEF TypeOK
  <2>27. ASSUME Create PROVE TypeOK'
    <3>1. NetTypeOK' /\ RunTypeOK' /\ ArtTypeOK' /\ CntTypeOK'
      BY <2>27, Kept DEF Create
    <3>2. JobTypeOK' BY <2>27 DEF Create, TypeOK, JobTypeOK, Statuses
    <3> QED BY <3>1, <3>2 DEF TypeOK
  <2>28. ASSUME Stop PROVE TypeOK'
    <3>1. cmds' \in Seq(Commands)
      BY <2>28, ToAgentType DEF Stop, Commands, TypeOK, NetTypeOK
    <3>2. RunTypeOK' /\ ArtTypeOK' /\ CntTypeOK' BY <2>28, Kept DEF Stop
    <3>3. JobTypeOK' BY <2>28, <3>1 DEF Stop, TypeOK, JobTypeOK, Statuses
    <3>4. NetTypeOK' BY <2>28, <3>1 DEF Stop, TypeOK, NetTypeOK
    <3> QED BY <3>2, <3>3, <3>4 DEF TypeOK
  <2>29. ASSUME Merge PROVE TypeOK'
    <3>1. cmds' \in Seq(Commands)
      BY <2>29, ToAgentType DEF Merge, Commands, TypeOK, NetTypeOK
    <3>2. RunTypeOK' /\ ArtTypeOK' /\ CntTypeOK' BY <2>29, Kept DEF Merge
    <3>3. JobTypeOK' BY <2>29, <3>1 DEF Merge, TypeOK, JobTypeOK, Statuses
    <3>4. NetTypeOK' BY <2>29, <3>1 DEF Merge, TypeOK, NetTypeOK
    <3> QED BY <3>2, <3>3, <3>4 DEF TypeOK
  <2>30. ASSUME Quantize PROVE TypeOK'
    <3>1. cmds' \in Seq(Commands)
      BY <2>30, ToAgentType DEF Quantize, Commands, TypeOK, NetTypeOK
    <3>2. RunTypeOK' /\ ArtTypeOK' /\ CntTypeOK' BY <2>30, Kept DEF Quantize
    <3>3. JobTypeOK' BY <2>30, <3>1 DEF Quantize, TypeOK, JobTypeOK, Statuses
    <3>4. NetTypeOK' BY <2>30, <3>1 DEF Quantize, TypeOK, NetTypeOK
    <3> QED BY <3>2, <3>3, <3>4 DEF TypeOK
  <2>31. ASSUME DeployCheck PROVE TypeOK'
    <3>1. NetTypeOK' /\ RunTypeOK' /\ ArtTypeOK' /\ CntTypeOK'
      BY <2>31, Kept DEF DeployCheck
    <3>2. JobTypeOK' BY <2>31 DEF DeployCheck, TypeOK, JobTypeOK
    <3> QED BY <3>1, <3>2 DEF TypeOK
  <2>32. ASSUME DeleteCheck PROVE TypeOK'
    <3>1. deleting' \in [at : {"sweep"}, status : Statuses, swept : BOOLEAN]
      BY <2>32 DEF DeleteCheck, TypeOK, JobTypeOK
    <3>2. NetTypeOK' /\ RunTypeOK' /\ ArtTypeOK' BY <2>32, Kept DEF DeleteCheck
    <3>3. JobTypeOK' BY <2>32, <3>1 DEF DeleteCheck, TypeOK, JobTypeOK
    <3>4. CntTypeOK' BY <2>32 DEF DeleteCheck, TypeOK, CntTypeOK
    <3> QED BY <3>2, <3>3, <3>4 DEF TypeOK
  <2>33. ASSUME NEW n \in Names, Rename(n) PROVE TypeOK'
    <3>1. NetTypeOK' /\ RunTypeOK' /\ ArtTypeOK' BY <2>33, Kept DEF Rename
    <3>2. JobTypeOK' BY <2>33 DEF Rename, TypeOK, JobTypeOK, RenamedModel
    <3>3. CntTypeOK' BY <2>33 DEF Rename, TypeOK, CntTypeOK
    <3> QED BY <3>1, <3>2, <3>3 DEF TypeOK
  <2>34. ASSUME AgentRestart PROVE TypeOK'
    <3>1. <<>> \in Seq(Commands) /\ <<>> \in Seq(Reports)
      OBVIOUS
    <3>2. JobTypeOK' BY <2>34, Kept DEF AgentRestart
    <3>3. NetTypeOK' BY <2>34, <3>1 DEF AgentRestart, TypeOK, NetTypeOK
    <3>4. RunTypeOK' BY <2>34, <3>1 DEF AgentRestart, TypeOK, RunTypeOK
    <3>5. ArtTypeOK' BY <2>34, <3>1 DEF AgentRestart, TypeOK, ArtTypeOK
    <3>6. CntTypeOK' BY <2>34, <3>1 DEF AgentRestart, TypeOK, CntTypeOK
    <3> QED BY <3>2, <3>3, <3>4, <3>5, <3>6 DEF TypeOK
  <2>35. ASSUME Drop PROVE TypeOK'
    <3>1. cmds' \in Seq(Commands) /\ msgs' \in Seq(Reports)
      BY <2>35 DEF Drop
    <3>2. drops' \in Nat
      BY <2>35 DEF Drop, TypeOK, NetTypeOK
    <3>3. JobTypeOK' /\ RunTypeOK' /\ ArtTypeOK' BY <2>35, Kept DEF Drop
    <3>4. NetTypeOK' BY <2>35, <3>1, <3>2 DEF Drop, TypeOK, NetTypeOK
    <3>5. CntTypeOK' BY <2>35 DEF Drop, TypeOK, CntTypeOK
    <3> QED BY <3>3, <3>4, <3>5 DEF TypeOK
  <2>36. ASSUME DeploymentEnds PROVE TypeOK'
    <3>1. NetTypeOK' /\ RunTypeOK' /\ ArtTypeOK' BY <2>36, Kept DEF DeploymentEnds
    <3>2. JobTypeOK' BY <2>36 DEF DeploymentEnds, TypeOK, JobTypeOK
    <3>3. CntTypeOK' BY <2>36 DEF DeploymentEnds, TypeOK, CntTypeOK
    <3> QED BY <3>1, <3>2, <3>3 DEF TypeOK
  <2>37. ASSUME NEW ok \in BOOLEAN, TrainingEnds(ok) PROVE TypeOK'
    <3>1. JobTypeOK' /\ NetTypeOK' /\ CntTypeOK' BY <2>37, Kept DEF TrainingEnds
    <3>2. RunTypeOK' BY <2>37 DEF TrainingEnds, TypeOK, RunTypeOK
    <3>3. ArtTypeOK' BY <2>37 DEF TrainingEnds, TypeOK, ArtTypeOK
    <3> QED BY <3>1, <3>2, <3>3 DEF TypeOK
  <2>38. ASSUME NEW w \in Workers, WorkerDies(w) PROVE TypeOK'
    <3>1. JobTypeOK' /\ NetTypeOK' /\ ArtTypeOK' /\ CntTypeOK'
      BY <2>38, Kept DEF WorkerDies
    <3>2. RunTypeOK' BY <2>38 DEF WorkerDies, TypeOK, RunTypeOK
    <3> QED BY <3>1, <3>2 DEF TypeOK
  <2>39. ASSUME Reconnect PROVE TypeOK'
    <3>1. JobTypeOK' /\ ArtTypeOK' /\ CntTypeOK' BY <2>39, Kept DEF Reconnect
    <3>2. NetTypeOK' BY <2>39 DEF Reconnect, TypeOK, NetTypeOK
    <3>3. RunTypeOK' BY <2>39 DEF Reconnect, TypeOK, RunTypeOK
    <3> QED BY <3>1, <3>2, <3>3 DEF TypeOK
  <2>40. ASSUME UNCHANGED vars PROVE TypeOK'
    BY <2>40, Kept DEF vars, TypeOK
  <2>41. ASSUME NEW u \in SUBSET Hosts, HeadStopped(u) PROVE TypeOK'
    <3>1. Cleanup(u, head) BY <2>41 DEF HeadStopped
    <3>2. /\ unreached' \subseteq Hosts /\ works' \subseteq Workers
          /\ dead' \subseteq works' /\ head' \in {head, "absent"} /\ tracked' = FALSE
      BY <3>1, CleanupType
    <3>3. JobTypeOK' /\ NetTypeOK' /\ ArtTypeOK' BY <2>41, Kept DEF HeadStopped
    <3>4. RunTypeOK' BY <2>41, <3>2 DEF HeadStopped, TypeOK, RunTypeOK
    <3>5. CntTypeOK' BY <2>41, <3>2 DEF HeadStopped, TypeOK, CntTypeOK
    <3> QED BY <3>3, <3>4, <3>5 DEF TypeOK
  <2>42. ASSUME DeploySend PROVE TypeOK'
    <3>1. cmds' \in Seq(Commands)
      BY <2>42, ToAgentType DEF DeploySend, Commands, TypeOK, NetTypeOK
    <3>2. RunTypeOK' /\ ArtTypeOK' /\ CntTypeOK' BY <2>42, Kept DEF DeploySend
    <3>3. JobTypeOK' BY <2>42, <3>1 DEF DeploySend, TypeOK, JobTypeOK
    <3>4. NetTypeOK' BY <2>42, <3>1 DEF DeploySend, TypeOK, NetTypeOK
    <3> QED BY <3>2, <3>3, <3>4 DEF TypeOK
  <2>43. ASSUME RestartCheck PROVE TypeOK'
    <3>1. JobTypeOK' /\ NetTypeOK' /\ RunTypeOK' /\ ArtTypeOK'
      BY <2>43, Kept DEF RestartCheck
    <3>2. CntTypeOK' BY <2>43 DEF RestartCheck, TypeOK, CntTypeOK
    <3> QED BY <3>1, <3>2 DEF TypeOK
  <2>44. ASSUME RestartRefused PROVE TypeOK'
    <3>1. JobTypeOK' /\ NetTypeOK' /\ RunTypeOK' /\ ArtTypeOK'
      BY <2>44, Kept DEF RestartRefused
    <3>2. CntTypeOK' BY <2>44 DEF RestartRefused, TypeOK, CntTypeOK
    <3> QED BY <3>1, <3>2 DEF TypeOK
  <2>45. ASSUME RestartSend PROVE TypeOK'
    <3>1. cmds' \in Seq(Commands)
      BY <2>45, ToAgentType DEF RestartSend, Commands, TypeOK, NetTypeOK
    <3>2. RunTypeOK' /\ ArtTypeOK' BY <2>45, Kept DEF RestartSend
    <3>3. JobTypeOK' BY <2>45, <3>1 DEF RestartSend, TypeOK, JobTypeOK
    <3>4. NetTypeOK' BY <2>45, <3>1 DEF RestartSend, TypeOK, NetTypeOK
    <3>5. CntTypeOK' BY <2>45 DEF RestartSend, TypeOK, CntTypeOK
    <3> QED BY <3>2, <3>3, <3>4, <3>5 DEF TypeOK
  <2>46. ASSUME DeploymentDown PROVE TypeOK'
    <3>1. JobTypeOK' /\ NetTypeOK' /\ RunTypeOK' BY <2>46, Kept DEF DeploymentDown
    <3>2. ArtTypeOK' BY <2>46 DEF DeploymentDown, TypeOK, ArtTypeOK
    <3>3. CntTypeOK'
      BY <2>46 DEF DeploymentDown, Commanded, TypeOK, CntTypeOK, NetTypeOK
    <3> QED BY <3>1, <3>2, <3>3 DEF TypeOK
  <2>47. ASSUME DeploymentUp PROVE TypeOK'
    <3>1. NetTypeOK' /\ RunTypeOK' /\ ArtTypeOK' /\ CntTypeOK'
      BY <2>47, Kept DEF DeploymentUp
    <3>2. JobTypeOK' BY <2>47 DEF DeploymentUp, TypeOK, JobTypeOK
    <3> QED BY <3>1, <3>2 DEF TypeOK
  <2> QED
    BY <2>1, <2>2, <2>3, <2>4, <2>5, <2>6, <2>7, <2>8, <2>9, <2>10, <2>11,
       <2>12, <2>13, <2>14, <2>15, <2>16, <2>17, <2>18, <2>19, <2>20, <2>21,
       <2>22, <2>23, <2>24, <2>25, <2>26, <2>27, <2>28, <2>29, <2>30, <2>31,
       <2>32, <2>33, <2>34, <2>35, <2>36, <2>37, <2>38, <2>39, <2>40, <2>41,
       <2>42, <2>43, <2>44, <2>45, <2>46, <2>47 DEF Next, TrainStep,
       CommandStep, MergeStep, QuantizeStep, OrphanStep, ManagerStep,
       OperatorStep, Event
<1> QED BY <1>1, <1>2, PTL DEF Spec

-----------------------------------------------------------------------------
(* What a queue carries.                                                   *)

Carries(q, S) == \E i \in 1 .. Len(q) : q[i] \in S

\* What a queue carries after one more message.
LEMMA CarriesAppended ==
  ASSUME NEW S, NEW D, NEW q \in Seq(S), NEW e \in S
  PROVE  Carries(Append(q, e), D) <=> Carries(q, D) \/ e \in D
<1>1. /\ Len(Append(q, e)) = Len(q) + 1 /\ Append(q, e)[Len(q) + 1] = e
      /\ \A i \in 1 .. Len(q) : Append(q, e)[i] = q[i] /\ Len(q) \in Nat
  BY Appended
<1>2. ASSUME Carries(Append(q, e), D) PROVE Carries(q, D) \/ e \in D
  <2>1. PICK i \in 1 .. Len(q) + 1 : Append(q, e)[i] \in D
    BY <1>1, <1>2 DEF Carries
  <2>2. CASE i = Len(q) + 1 BY <1>1, <2>1, <2>2
  <2>3. CASE i \in 1 .. Len(q) BY <1>1, <2>1, <2>3 DEF Carries
  <2> QED BY <2>1, <2>2, <2>3
<1>3. ASSUME Carries(q, D) PROVE Carries(Append(q, e), D)
  <2>1. PICK i \in 1 .. Len(q) : q[i] \in D BY <1>3 DEF Carries
  <2>2. i \in 1 .. Len(Append(q, e)) /\ Append(q, e)[i] \in D BY <1>1, <2>1
  <2> QED BY <2>2 DEF Carries
<1>4. ASSUME e \in D PROVE Carries(Append(q, e), D)
  <2>1. Len(q) + 1 \in 1 .. Len(Append(q, e)) BY <1>1
  <2> QED BY <1>1, <1>4, <2>1 DEF Carries
<1> QED BY <1>2, <1>3, <1>4

\* What a queue carries after its head was taken.
LEMMA CarriesTaken ==
  ASSUME NEW S, NEW D, NEW q \in Seq(S), q # <<>>
  PROVE  Carries(q, D) <=> Head(q) \in D \/ Carries(Tail(q), D)
<1>1. /\ Head(q) = q[1] /\ Len(q) \in Nat \ {0} /\ Len(Tail(q)) = Len(q) - 1
      /\ \A i \in 1 .. Len(q) - 1 : Tail(q)[i] = q[i + 1]
  BY Taken
<1>2. ASSUME Carries(q, D) PROVE Head(q) \in D \/ Carries(Tail(q), D)
  <2>1. PICK i \in 1 .. Len(q) : q[i] \in D BY <1>2 DEF Carries
  <2>2. CASE i = 1 BY <1>1, <2>1, <2>2
  <2>3. CASE i # 1
    <3>1. i - 1 \in 1 .. Len(q) - 1 /\ (i - 1) + 1 = i BY <1>1, <2>1, <2>3
    <3>2. Tail(q)[i - 1] = q[i] BY <1>1, <3>1
    <3> QED BY <1>1, <2>1, <3>1, <3>2 DEF Carries
  <2> QED BY <2>2, <2>3
<1>3. ASSUME Head(q) \in D PROVE Carries(q, D)
  <2>1. 1 \in 1 .. Len(q) BY <1>1
  <2> QED BY <1>1, <1>3, <2>1 DEF Carries
<1>4. ASSUME Carries(Tail(q), D) PROVE Carries(q, D)
  <2>1. PICK i \in 1 .. Len(q) - 1 : Tail(q)[i] \in D
    BY <1>1, <1>4 DEF Carries
  <2>2. i + 1 \in 1 .. Len(q) /\ q[i + 1] \in D BY <1>1, <2>1
  <2> QED BY <2>2 DEF Carries
<1> QED BY <1>2, <1>3, <1>4

\* A command for the agent, other than those in D.
LEMMA SentOther ==
  ASSUME TypeOK, NEW c \in Commands, NEW D, c \notin D
  PROVE  Carries(ToAgent(c), D) <=> Carries(cmds, D)
<1>1. cmds \in Seq(Commands) BY DEF TypeOK, NetTypeOK
<1>2. CASE link BY <1>1, <1>2, CarriesAppended DEF ToAgent
<1>3. CASE ~link BY <1>3 DEF ToAgent
<1> QED BY <1>2, <1>3

\* The agent takes its next command.
LEMMA TookCommand ==
  ASSUME TypeOK, NEW c, Command(c), NEW D
  PROVE  Carries(cmds, D) <=> c \in D \/ Carries(Tail(cmds), D)
<1>1. cmds \in Seq(Commands) BY DEF TypeOK, NetTypeOK
<1>2. cmds # <<>> /\ Head(cmds) = c BY DEF Command
<1>3. Carries(cmds, D) <=> Head(cmds) \in D \/ Carries(Tail(cmds), D)
  BY <1>1, <1>2, CarriesTaken
<1> QED BY <1>2, <1>3

\* Reports that are not in D.
LEMMA ToldOther ==
  ASSUME TypeOK, NEW r \in Reports, NEW D, r \notin D
  PROVE  Carries(ToManager(r), D) <=> Carries(msgs, D)
<1>1. msgs \in Seq(Reports) BY DEF TypeOK, NetTypeOK
<1>2. CASE link BY <1>1, <1>2, CarriesAppended DEF ToManager
<1>3. CASE ~link BY <1>3 DEF ToManager
<1> QED BY <1>2, <1>3

\* The manager takes the next report.
LEMMA TookReport ==
  ASSUME TypeOK, msgs # <<>>, NEW D
  PROVE  Carries(msgs, D) <=> Head(msgs) \in D \/ Carries(Tail(msgs), D)
<1>1. msgs \in Seq(Reports) BY DEF TypeOK, NetTypeOK
<1> QED BY <1>1, CarriesTaken

-----------------------------------------------------------------------------
(* Deploying and deleting.                                                 *)

\* The agent serves the deployment or is about to be told to.
Starting ==
  serving \/ Carries(cmds, {"deploy"}) \/ deploying.at = "send"

\* A deploy request ends before a second begins.  Unless it was crossed, the
\* deployment is started only while its row is active and its end not under way,
\* a DELETE sweeps only what it saw terminal, and no restart overlaps it.
ServeInv ==
  /\ model # "none" => Row
  /\ dep # "none" => deploying.at \in {"idle", "send"} /\ model # "none"
  /\ ~crossed =>
       /\ dep # "active" \/ ended => ~Starting
       /\ dep # "active" => ~ended
       /\ deleting.at = "sweep" /\ deleting.swept => dep = "terminal"
       /\ restarting => deleting.at = "idle" /\ dep # "none"

\* No more was sent to the agent, and it serves no more, than before.
LEMMA ServeKept ==
  ASSUME ServeInv, UNCHANGED <<status, model, dep, deploying, deleting, depVars>>,
         serving' => serving,
         Carries(cmds', {"deploy"}) => Carries(cmds, {"deploy"})
  PROVE  ServeInv'
BY DEF ServeInv, Row, Starting

\* The model's word for a start under way is that of the proofs.
LEMMA CommandedCarries == TypeOK => (Commanded <=> Carries(cmds, {"deploy"}))
BY DEF Commanded, Carries, TypeOK, NetTypeOK

\* A deployment the agent serves has its rows, and its row is active, although
\* DELETE and deploy may overlap and the deployment may end and be restarted: the
\* 409 of DELETE for active deployments and the foreign keys.  Excepted is the
\* deployment a start of which crossed its end, or a restart the DELETE.
THEOREM ServedHasRowsCorrect == Spec => []ServedHasRows
<1>1. Init => ServeInv BY DEF Init, ServeInv, Starting, Idle, Carries
<1>2. TypeOK /\ ServeInv /\ [Next]_vars => ServeInv'
  <2> SUFFICES ASSUME TypeOK, ServeInv, [Next]_vars PROVE ServeInv'
    OBVIOUS
  <2>1. ASSUME NEW u \in SUBSET Hosts, RunHead(u) PROVE ServeInv'
    BY <2>1, ServeKept DEF RunHead
  <2>2. ASSUME NEW u \in SUBSET Hosts, BuildFails(u) PROVE ServeInv'
    BY <2>2, ServeKept DEF BuildFails, LaunchFails
  <2>3. ASSUME NEW u \in SUBSET Hosts, ReadyFails(u) PROVE ServeInv'
    BY <2>3, ServeKept DEF ReadyFails, LaunchFails
  <2>4. ASSUME NEW u \in SUBSET Hosts, WorkerFails(u) PROVE ServeInv'
    BY <2>4, ServeKept DEF WorkerFails, LaunchFails
  <2>5. ASSUME NEW u \in SUBSET Hosts, ExecExit(u) PROVE ServeInv'
    BY <2>5, ServeKept DEF ExecExit
  <2>6. ASSUME NEW u \in SUBSET Hosts, Watchdog(u) PROVE ServeInv'
    BY <2>6, ServeKept DEF Watchdog
  <2>7. ASSUME NEW w \in Workers, WorkerReady(w) PROVE ServeInv'
    BY <2>7, ServeKept DEF WorkerReady
  <2>8. ASSUME HeadReady PROVE ServeInv'
    BY <2>8, ServeKept DEF HeadReady
  <2>9. ASSUME ExecAborted PROVE ServeInv'
    BY <2>9, ServeKept DEF ExecAborted
  <2>10. ASSUME NEW u \in SUBSET Hosts, StopJob(u) PROVE ServeInv'
    <3>1. /\ Command("stop") /\ cmds' = Tail(cmds)
          /\ UNCHANGED <<status, model, dep, deploying, deleting, serving, depVars>>
      BY <2>10 DEF StopJob
    <3> QED BY <3>1, TookCommand, ServeKept
  <2>11. ASSUME NEW ok \in BOOLEAN, Start(ok) PROVE ServeInv'
    <3>1. /\ Command("start") /\ cmds' = Tail(cmds)
          /\ UNCHANGED <<status, model, dep, deploying, deleting, serving, depVars>>
      BY <2>11 DEF Start
    <3> QED BY <3>1, TookCommand, ServeKept
  <2>12. ASSUME NEW ok \in BOOLEAN, MergeStart(ok) PROVE ServeInv'
    <3>1. /\ Command("merge") /\ cmds' = Tail(cmds)
          /\ UNCHANGED <<status, model, dep, deploying, deleting, serving, depVars>>
      BY <2>12 DEF MergeStart
    <3> QED BY <3>1, TookCommand, ServeKept
  <2>13. ASSUME NEW ok \in BOOLEAN, QuantizeStart(ok) PROVE ServeInv'
    <3>1. /\ Command("quantize") /\ cmds' = Tail(cmds)
          /\ UNCHANGED <<status, model, dep, deploying, deleting, serving, depVars>>
      BY <2>13 DEF QuantizeStart
    <3> QED BY <3>1, TookCommand, ServeKept
  <2>14. ASSUME Serve PROVE ServeInv'
    <3>1. /\ Command("deploy") /\ cmds' = Tail(cmds)
          /\ UNCHANGED <<status, model, dep, deploying, deleting, depVars>>
      BY <2>14 DEF Serve
    <3>2. Starting BY <3>1, TookCommand DEF Starting
    <3>3. ~crossed => dep = "active" /\ ~ended BY <3>2 DEF ServeInv
    <3> QED BY <3>1, <3>3 DEF ServeInv, Row
  <2>15. ASSUME NEW ok \in BOOLEAN, MergeExit(ok) PROVE ServeInv'
    BY <2>15, ServeKept DEF MergeExit
  <2>16. ASSUME NEW ok \in BOOLEAN, QuantizeExit(ok) PROVE ServeInv'
    BY <2>16, ServeKept DEF QuantizeExit
  <2>17. ASSUME NEW ok \in BOOLEAN, OrphanMergeEnds(ok) PROVE ServeInv'
    BY <2>17, ServeKept DEF OrphanMergeEnds
  <2>18. ASSUME NEW ok \in BOOLEAN, OrphanQuantizeEnds(ok) PROVE ServeInv'
    BY <2>18, ServeKept DEF OrphanQuantizeEnds
  <2>19. ASSUME TailTraining PROVE ServeInv'
    BY <2>19, ServeKept DEF TailTraining
  <2>20. ASSUME CreateSend PROVE ServeInv'
    <3>1. /\ cmds' = ToAgent("start") /\ Row' = Row
          /\ UNCHANGED <<model, dep, deploying, deleting, serving, depVars>>
      BY <2>20 DEF CreateSend, Row
    <3>2. Carries(cmds', {"deploy"}) <=> Carries(cmds, {"deploy"})
      BY <3>1, SentOther DEF Commands
    <3> QED BY <3>1, <3>2 DEF ServeInv, Starting
  <2>21. ASSUME HandleReport PROVE ServeInv'
    <3>1. Row => Row'
      <4>1. Head(msgs) \in Reports
        BY <2>21, Taken DEF HandleReport, TypeOK, NetTypeOK
      <4>2. Head(msgs).result \in {"completed", "failed", "stopped"}
        BY <4>1 DEF Reports
      <4> QED BY <2>21, <4>2 DEF HandleReport, Row
    <3>2. UNCHANGED <<model, dep, deploying, deleting, serving, cmds, depVars>>
      BY <2>21 DEF HandleReport
    <3> QED BY <3>1, <3>2 DEF ServeInv, Starting
  <2>22. ASSUME DeployRefused PROVE ServeInv'
    <3>1. /\ UNCHANGED <<status, model, dep, deleting, serving, cmds, depVars>>
          /\ deploying'.at = "idle"
      BY <2>22 DEF DeployRefused, Idle
    <3> QED BY <3>1 DEF ServeInv, Row, Starting
  <2>23. ASSUME DeployUpsert PROVE ServeInv'
    <3>1. /\ UNCHANGED <<status, dep, deleting, serving, cmds, depVars>>
          /\ model' = model \/ Row
          /\ deploying.at = "upsert" /\ deploying'.at \in {"create", "idle"}
      BY <2>23 DEF DeployUpsert, Idle
    <3>2. dep = "none" BY <3>1 DEF ServeInv, Starting
    <3> QED BY <3>1, <3>2 DEF ServeInv, Row, Starting
  <2>24. ASSUME DeployCreate PROVE ServeInv'
    <3>1. /\ UNCHANGED <<status, model, deleting, serving, cmds, depVars>>
          /\ deploying.at = "create"
      BY <2>24 DEF DeployCreate
    <3>2. dep = "none" BY <3>1 DEF ServeInv
    <3>3. CASE ModelExists
      <4>1. dep' = "active" /\ deploying'.at = "send" /\ model # "none"
        BY <2>24, <3>3 DEF DeployCreate, ModelExists
      <4> QED BY <3>1, <3>2, <4>1 DEF ServeInv, Row
    <3>4. CASE ~ModelExists
      <4>1. dep' = dep /\ deploying'.at = "idle"
        BY <2>24, <3>4 DEF DeployCreate, Idle
      <4> QED BY <3>1, <3>2, <4>1 DEF ServeInv, Row, Starting
    <3> QED BY <3>3, <3>4
  <2>25. ASSUME NEW c \in BOOLEAN, DeleteSweep(c) PROVE ServeInv'
    <3>1. /\ UNCHANGED <<status, model, deploying, serving, depVars>>
          /\ deleting.at = "sweep" /\ deleting'.at = "row"
          /\ dep' = dep \/ (deleting.swept /\ dep' = "none")
      BY <2>25 DEF DeleteSweep
    <3>2. Carries(cmds', {"deploy"}) <=> Carries(cmds, {"deploy"})
      <4>1. CASE cmds' = ToAgent("stop") BY <4>1, SentOther DEF Commands
      <4>2. CASE cmds' = cmds BY <4>2
      <4> QED BY <2>25, <4>1, <4>2 DEF DeleteSweep
    <3> QED BY <3>1, <3>2 DEF ServeInv, Row, Starting
  <2>26. ASSUME DeleteRow PROVE ServeInv'
    <3>1. /\ UNCHANGED <<dep, deploying, serving, cmds, depVars>> /\ deleting'.at = "idle"
          /\ UNCHANGED <<status, model>> \/ (dep = "none" /\ model' = "none")
      BY <2>26 DEF DeleteRow, Idle
    <3> QED BY <3>1 DEF ServeInv, Row, Starting
  <2>27. ASSUME Create PROVE ServeInv'
    <3>1. Row' /\ UNCHANGED <<model, dep, deploying, deleting, serving, cmds, depVars>>
      BY <2>27 DEF Create, Row
    <3> QED BY <3>1 DEF ServeInv, Starting
  <2>28. ASSUME Stop PROVE ServeInv'
    <3>1. /\ cmds' = ToAgent("stop")
          /\ UNCHANGED <<model, dep, deploying, deleting, serving, depVars>>
          /\ status' = "stopping"
      BY <2>28 DEF Stop
    <3>2. Carries(cmds', {"deploy"}) <=> Carries(cmds, {"deploy"})
      BY <3>1, SentOther DEF Commands
    <3> QED BY <3>1, <3>2 DEF ServeInv, Row, Starting
  <2>29. ASSUME Merge PROVE ServeInv'
    <3>1. /\ cmds' = ToAgent("merge")
          /\ UNCHANGED <<model, dep, deploying, deleting, serving, depVars>>
          /\ status' = status
      BY <2>29 DEF Merge
    <3>2. Carries(cmds', {"deploy"}) <=> Carries(cmds, {"deploy"})
      BY <3>1, SentOther DEF Commands
    <3> QED BY <3>1, <3>2 DEF ServeInv, Row, Starting
  <2>30. ASSUME Quantize PROVE ServeInv'
    <3>1. /\ cmds' = ToAgent("quantize")
          /\ UNCHANGED <<model, dep, deploying, deleting, serving, depVars>>
          /\ status' = status
      BY <2>30 DEF Quantize
    <3>2. Carries(cmds', {"deploy"}) <=> Carries(cmds, {"deploy"})
      BY <3>1, SentOther DEF Commands
    <3> QED BY <3>1, <3>2 DEF ServeInv, Row, Starting
  <2>31. ASSUME DeployCheck PROVE ServeInv'
    <3>1. /\ UNCHANGED <<status, model, dep, deleting, serving, cmds, depVars>>
          /\ dep = "none" /\ deploying'.at = "upsert"
      BY <2>31 DEF DeployCheck
    <3> QED BY <3>1 DEF ServeInv, Row, Starting
  <2>32. ASSUME DeleteCheck PROVE ServeInv'
    <3>1. /\ UNCHANGED <<status, model, dep, deploying, serving, cmds, restarting,
                         ended>>
          /\ deleting'.swept => dep # "none"
          /\ dep # "active"
          /\ ~crossed' => ~crossed /\ ~restarting
      BY <2>32 DEF DeleteCheck, Sweepable
    <3> QED BY <3>1 DEF ServeInv, Row, Starting, TypeOK, JobTypeOK
  <2>33. ASSUME NEW n \in Names, Rename(n) PROVE ServeInv'
    <3>1. /\ UNCHANGED <<status, dep, deploying, deleting, serving, cmds, depVars>>
          /\ model' # "none" <=> model # "none"
      BY <2>33 DEF Rename, RenamedModel, Names
    <3> QED BY <3>1 DEF ServeInv, Row, Starting
  <2>34. ASSUME AgentRestart PROVE ServeInv'
    <3>1. /\ UNCHANGED <<status, model, dep, deploying, deleting, serving, depVars>>
          /\ cmds' = <<>>
      BY <2>34 DEF AgentRestart
    <3>2. ~Carries(cmds', {"deploy"}) BY <3>1 DEF Carries
    <3> QED BY <3>1, <3>2, ServeKept
  <2>35. ASSUME Drop PROVE ServeInv'
    <3>1. /\ UNCHANGED <<status, model, dep, deploying, deleting, serving, restarting,
                         crossed>>
          /\ cmds' = <<>> /\ ~ended'
      BY <2>35 DEF Drop
    <3>2. ~Carries(cmds', {"deploy"}) BY <3>1 DEF Carries
    <3> QED BY <3>1, <3>2 DEF ServeInv, Row, Starting
  <2>36. ASSUME DeploymentEnds PROVE ServeInv'
    <3>1. /\ UNCHANGED <<status, model, deploying, deleting, serving, cmds, restarting,
                         crossed>>
          /\ ended /\ ~ended'
          /\ dep' = IF dep = "none" THEN dep ELSE "terminal"
      BY <2>36 DEF DeploymentEnds
    <3> QED BY <3>1 DEF ServeInv, Row, Starting
  <2>37. ASSUME NEW ok \in BOOLEAN, TrainingEnds(ok) PROVE ServeInv'
    BY <2>37, ServeKept DEF TrainingEnds
  <2>38. ASSUME NEW w \in Workers, WorkerDies(w) PROVE ServeInv'
    BY <2>38, ServeKept DEF WorkerDies
  <2>39. ASSUME Reconnect PROVE ServeInv'
    BY <2>39, ServeKept DEF Reconnect
  <2>40. ASSUME UNCHANGED vars PROVE ServeInv'
    BY <2>40, ServeKept DEF vars
  <2>41. ASSUME NEW u \in SUBSET Hosts, HeadStopped(u) PROVE ServeInv'
    BY <2>41, ServeKept DEF HeadStopped
  <2>42. ASSUME DeploySend PROVE ServeInv'
    <3>1. /\ UNCHANGED <<status, model, dep, deleting, serving, depVars>>
          /\ deploying.at = "send" /\ deploying'.at = "idle"
      BY <2>42 DEF DeploySend, Idle
    <3>2. ~crossed => dep = "active" /\ ~ended BY <3>1 DEF ServeInv, Starting
    <3> QED BY <3>1, <3>2 DEF ServeInv, Row
  <2>43. ASSUME RestartCheck PROVE ServeInv'
    <3>1. /\ UNCHANGED <<status, model, dep, deploying, deleting, serving, cmds, ended>>
          /\ dep # "none" /\ ~crossed
          /\ ~crossed' => deleting = Idle
      BY <2>43 DEF RestartCheck, MayRestart
    <3> QED BY <3>1 DEF ServeInv, Row, Starting, Idle
  <2>44. ASSUME RestartRefused PROVE ServeInv'
    <3>1. /\ UNCHANGED <<status, model, dep, deploying, deleting, serving, cmds, ended,
                         crossed>>
          /\ ~restarting'
      BY <2>44 DEF RestartRefused
    <3> QED BY <3>1 DEF ServeInv, Row, Starting
  <2>45. ASSUME RestartSend PROVE ServeInv'
    <3>1. /\ UNCHANGED <<status, model, deploying, deleting, serving, ended>>
          /\ restarting /\ ~restarting'
          /\ dep' = IF dep = "none" THEN dep ELSE "active"
          /\ ~crossed' => ~crossed /\ ~ended
      BY <2>45 DEF RestartSend
    <3>2. ~crossed => deleting.at = "idle" /\ dep # "none" BY <3>1 DEF ServeInv
    <3> QED BY <3>1, <3>2 DEF ServeInv, Row
  <2>46. ASSUME DeploymentDown PROVE ServeInv'
    <3>1. /\ UNCHANGED <<status, model, dep, deploying, deleting, cmds, restarting>>
          /\ serving \/ dep = "active"
          /\ ~serving'
          /\ ~crossed' => ~crossed /\ ~Commanded /\ deploying.at # "send"
      BY <2>46 DEF DeploymentDown
    <3>2. ~crossed => dep = "active" BY <3>1 DEF ServeInv, Starting
    <3>3. ~crossed' => ~Starting' BY <3>1, CommandedCarries DEF Starting
    <3> QED BY <3>1, <3>2, <3>3 DEF ServeInv, Row
  <2>47. ASSUME DeploymentUp PROVE ServeInv'
    <3>1. /\ UNCHANGED <<status, model, deploying, deleting, serving, cmds, depVars>>
          /\ serving /\ dep = "terminal" /\ dep' = "active"
      BY <2>47 DEF DeploymentUp
    <3>2. crossed BY <3>1 DEF ServeInv, Starting
    <3> QED BY <3>1, <3>2 DEF ServeInv, Row
  <2> QED
    BY <2>1, <2>2, <2>3, <2>4, <2>5, <2>6, <2>7, <2>8, <2>9, <2>10, <2>11,
       <2>12, <2>13, <2>14, <2>15, <2>16, <2>17, <2>18, <2>19, <2>20, <2>21,
       <2>22, <2>23, <2>24, <2>25, <2>26, <2>27, <2>28, <2>29, <2>30, <2>31,
       <2>32, <2>33, <2>34, <2>35, <2>36, <2>37, <2>38, <2>39, <2>40, <2>41,
       <2>42, <2>43, <2>44, <2>45, <2>46, <2>47 DEF Next, TrainStep,
       CommandStep, MergeStep, QuantizeStep, OrphanStep, ManagerStep,
       OperatorStep, Event
<1>3. ServeInv => ServedHasRows BY DEF ServeInv, ServedHasRows, Starting
<1> QED BY <1>1, <1>2, <1>3, TypeCorrect, PTL DEF Spec


-----------------------------------------------------------------------------
(* What is over has no container.                                          *)

TrainReports == {r \in Reports : r.stage = "train" /\ r.whole}

\* The row says that the job is over, or a report on its way will make it.
SaidOver ==
  \/ status \in {"stopped", "failed", "completed"}
  \/ Carries(msgs, TrainReports)

\* The agent has not heard of the job.
Untouched ==
  launch = "none" /\ head = "absent" /\ works = {} /\ ~tracked /\ ~SaidOver

\* cmd:finetune:start comes before every other command.
StartFirst(q) == \A i \in 1 .. Len(q) : q[i] = "start" => i = 1

\* Every container of a worker is known to the agent, out of ssh's reach, or
\* left by a restart.
WorkersKnown ==
  tracked \/ works = {} \/ unreached # {} \/ (restarts > 0 /\ launch = "none")

\* The head's container is removed, as far as the removals succeeded.
HeadDown == head = "absent" \/ "head" \in unreached

RunInv ==
  /\ tracked <=> launch # "none" /\ ~aborted
  /\ launch # "none" /\ aborted => HeadDown
  /\ WorkersKnown
  /\ SaidOver => /\ HeadDown /\ ~tracked
                 /\ works = {} \/ unreached # {} \/ WorkersForgotten

\* The inductive invariant behind OverMeansDown.
DownInv ==
  /\ status = "none" \/ creating
       => Untouched /\ cmds = <<>> /\ deploying = Idle /\ deleting = Idle
          /\ ~restarting
  /\ creating => status # "none"
  /\ StartFirst(cmds)
  /\ Carries(cmds, {"start"}) => Untouched
  /\ RunInv

\* A later command does not overtake the start.
LEMMA StartFirstSent ==
  ASSUME NEW q \in Seq(Commands), NEW c \in Commands, c # "start", StartFirst(q)
  PROVE  StartFirst(Append(q, c))
<1>1. /\ Len(Append(q, c)) = Len(q) + 1 /\ Append(q, c)[Len(q) + 1] = c
      /\ \A i \in 1 .. Len(q) : Append(q, c)[i] = q[i] /\ Len(q) \in Nat
  BY Appended
<1> SUFFICES ASSUME NEW i \in 1 .. Len(q) + 1, Append(q, c)[i] = "start"
             PROVE  i = 1
  BY <1>1 DEF StartFirst
<1>2. i # Len(q) + 1 BY <1>1
<1>3. i \in 1 .. Len(q) BY <1>1, <1>2
<1> QED BY <1>1, <1>3 DEF StartFirst

\* Once its head is taken a queue has no start left.
LEMMA StartFirstTaken ==
  ASSUME NEW q \in Seq(Commands), q # <<>>, StartFirst(q)
  PROVE  StartFirst(Tail(q)) /\ ~Carries(Tail(q), {"start"})
<1>1. /\ Len(q) \in Nat \ {0} /\ Len(Tail(q)) = Len(q) - 1
      /\ \A i \in 1 .. Len(q) - 1 : Tail(q)[i] = q[i + 1]
  BY Taken
<1>2. ASSUME NEW i \in 1 .. Len(q) - 1 PROVE Tail(q)[i] # "start"
  <2>1. i + 1 \in 1 .. Len(q) /\ i + 1 # 1 BY <1>1
  <2>2. q[i + 1] # "start" BY <2>1 DEF StartFirst
  <2> QED BY <1>1, <2>2
<1> QED BY <1>1, <1>2 DEF StartFirst, Carries

\* The agent's side and what was said about it are as before.
LEMMA RunKept ==
  ASSUME RunInv, UNCHANGED <<launch, aborted, tracked, head, works, resumed,
                             unreached, restarts>>,
         SaidOver' => SaidOver
  PROVE  RunInv'
BY DEF RunInv, HeadDown, WorkersKnown, WorkersForgotten

\* Requests and reports.
LEMMA DownKept ==
  ASSUME DownInv, UNCHANGED <<launch, aborted, tracked, head, works, resumed,
                              unreached, restarts>>,
         SaidOver' => SaidOver,
         StartFirst(cmds'),
         Carries(cmds', {"start"}) => Carries(cmds, {"start"}),
         (status = "none" \/ creating)' =>
           /\ status = "none" \/ creating
           /\ UNCHANGED <<cmds, deploying, deleting, restarting>>,
         creating' => status' # "none" \/ (creating /\ status = "none")
  PROVE  DownInv'
<1>1. RunInv' BY RunKept DEF DownInv
<1>2. Untouched => Untouched' BY DEF Untouched
<1> QED BY <1>1, <1>2 DEF DownInv

\* A request sends the agent a command other than start.
LEMMA DownAsked ==
  ASSUME TypeOK, DownInv, NEW c \in Commands, c # "start", cmds' = ToAgent(c)
  PROVE  /\ StartFirst(cmds')
         /\ Carries(cmds', {"start"}) => Carries(cmds, {"start"})
<1>1. StartFirst(cmds')
  <2>1. cmds \in Seq(Commands) /\ StartFirst(cmds)
    BY DEF TypeOK, NetTypeOK, DownInv
  <2>2. CASE link BY <2>1, <2>2, StartFirstSent DEF ToAgent
  <2>3. CASE ~link BY <2>1, <2>3 DEF ToAgent
  <2> QED BY <2>2, <2>3
<1>2. Carries(cmds', {"start"}) <=> Carries(cmds, {"start"}) BY SentOther
<1> QED BY <1>1, <1>2

\* The agent takes a command.
LEMMA DownTook ==
  ASSUME TypeOK, DownInv, NEW c, Command(c), cmds' = Tail(cmds),
         UNCHANGED jobVars
  PROVE  /\ ~(status = "none" \/ creating)' /\ StartFirst(cmds')
         /\ ~Carries(cmds', {"start"})
<1>1. cmds \in Seq(Commands) /\ cmds # <<>> /\ StartFirst(cmds)
  BY DEF TypeOK, NetTypeOK, DownInv, Command
<1>2. ~(status = "none" \/ creating) BY <1>1 DEF DownInv
<1> QED BY <1>1, <1>2, StartFirstTaken

\* The agent goes on with a job it has heard of.
LEMMA DownRun ==
  ASSUME DownInv, ~Untouched, UNCHANGED <<jobVars, cmds>>, RunInv'
  PROVE  DownInv'
BY DEF DownInv

\* cleanup() of an instance the agent knows, or of an aborted one.
LEMMA CleanedUp ==
  ASSUME TypeOK, DownInv, NEW u, NEW h, Cleanup(u, h), launch # "none",
         UNCHANGED <<resumed, restarts>>,
         tracked' <=> launch' # "none" /\ ~aborted'
  PROVE  RunInv'
<1>1. /\ HeadDown' /\ ~tracked' /\ unreached' = unreached \cup u
      /\ works' = CleanWorkers(u)
  BY DEF Cleanup, Missed, HeadLeft, HeadDown
<1>2. works' = {} \/ unreached' # {}
  <2>1. CASE tracked BY <1>1, <2>1 DEF CleanWorkers
  <2>2. CASE ~tracked
    <3>1. works = {} \/ unreached # {}
      BY <2>2 DEF DownInv, RunInv, WorkersKnown
    <3> QED BY <1>1, <2>2, <3>1 DEF CleanWorkers
  <2> QED BY <2>1, <2>2
<1> QED BY <1>1, <1>2 DEF RunInv, WorkersKnown

\* A report that is not about the training.
LEMMA NotTraining ==
  ASSUME TypeOK, NEW stage \in {"train", "merge", "quantize"},
         NEW result \in {"completed", "failed", "stopped"},
         NEW whole \in BOOLEAN, result = "stopped" => stage = "train",
         stage = "train" => ~whole,
         msgs' = ToManager(Report(stage, result, whole))
  PROVE  Carries(msgs', TrainReports) => Carries(msgs, TrainReports)
<1>1. /\ Report(stage, result, whole) \in Reports
      /\ Report(stage, result, whole) \notin TrainReports
  BY DEF Report, Reports, TrainReports
<1> QED BY <1>1, ToldOther

\* A job whose row says that it is over has no container left on any node, as
\* far as the removals succeeded, wherever in its launch the stop, the failure
\* or the end met it.
THEOREM OverMeansDownCorrect ==
  ASSUME Patient
  PROVE  Spec => []OverMeansDown
<1>1. Init => DownInv
  <2> SUFFICES ASSUME Init PROVE DownInv
    OBVIOUS
  <2>1. ~Carries(msgs, TrainReports) /\ ~Carries(cmds, {"start"})
    BY DEF Init, Carries
  <2>2. Untouched BY <2>1 DEF Init, Untouched, SaidOver
  <2>3. StartFirst(cmds) BY DEF Init, StartFirst
  <2>4. RunInv BY <2>2 DEF Init, Untouched, RunInv, WorkersKnown
  <2> QED BY <2>1, <2>2, <2>3, <2>4 DEF Init, DownInv
<1>2. TypeOK /\ DownInv /\ [Next]_vars => DownInv'
  <2> SUFFICES ASSUME TypeOK, DownInv, [Next]_vars PROVE DownInv'
    OBVIOUS
  <2> USE DEF SaidOver
  <2>0. StartFirst(cmds) BY DEF DownInv
  <2>1. ASSUME NEW u \in SUBSET Hosts, RunHead(u) PROVE DownInv'
    <3>1. launch # "none" /\ UNCHANGED <<jobVars, cmds, msgs, resumed, restarts>>
      BY <2>1 DEF RunHead
    <3>2. RunInv'
      <4>1. CASE StoppedMeanwhile
        <5>1. Cleanup(u, "up") /\ launch' = "none" /\ ~tracked'
          BY <2>1, <4>1 DEF RunHead, Cleanup
        <5> QED BY <3>1, <5>1, CleanedUp
      <4>2. CASE ~StoppedMeanwhile
        <5>1. /\ launch = "build" /\ ~aborted /\ launch' = "ready"
              /\ UNCHANGED <<aborted, tracked, works, unreached>>
          BY <2>1, <4>2 DEF RunHead, StoppedMeanwhile
        <5>2. tracked /\ ~SaidOver BY <5>1 DEF DownInv, RunInv
        <5> QED BY <3>1, <5>1, <5>2 DEF RunInv, WorkersKnown
      <4> QED BY <4>1, <4>2
    <3> QED BY <3>1, <3>2, DownRun DEF Untouched
  <2>2. ASSUME NEW u \in SUBSET Hosts, BuildFails(u) PROVE DownInv'
    <3>1. /\ launch # "none" /\ Cleanup(u, head) /\ UNCHANGED <<jobVars, cmds>>
          /\ launch' = "none" /\ UNCHANGED <<resumed, restarts>> /\ ~tracked'
      BY <2>2 DEF BuildFails, LaunchFails, Cleanup
    <3>2. RunInv' BY <3>1, CleanedUp
    <3> QED BY <3>1, <3>2, DownRun DEF Untouched
  <2>3. ASSUME NEW u \in SUBSET Hosts, ReadyFails(u) PROVE DownInv'
    <3>1. /\ launch # "none" /\ Cleanup(u, head) /\ UNCHANGED <<jobVars, cmds>>
          /\ launch' = "none" /\ UNCHANGED <<resumed, restarts>> /\ ~tracked'
      BY <2>3 DEF ReadyFails, LaunchFails, Cleanup
    <3>2. RunInv' BY <3>1, CleanedUp
    <3> QED BY <3>1, <3>2, DownRun DEF Untouched
  <2>4. ASSUME NEW u \in SUBSET Hosts, WorkerFails(u) PROVE DownInv'
    <3>1. /\ launch # "none" /\ Cleanup(u, head) /\ UNCHANGED <<jobVars, cmds>>
          /\ launch' = "none" /\ UNCHANGED <<resumed, restarts>> /\ ~tracked'
      BY <2>4 DEF WorkerFails, LaunchFails, Cleanup
    <3>2. RunInv' BY <3>1, CleanedUp
    <3> QED BY <3>1, <3>2, DownRun DEF Untouched
  <2>5. ASSUME NEW u \in SUBSET Hosts, ExecExit(u) PROVE DownInv'
    <3>1. /\ launch # "none" /\ Cleanup(u, head) /\ UNCHANGED <<jobVars, cmds>>
          /\ launch' = "none" /\ UNCHANGED <<resumed, restarts>> /\ ~tracked'
      BY <2>5 DEF ExecExit, Cleanup
    <3>2. RunInv' BY <3>1, CleanedUp
    <3> QED BY <3>1, <3>2, DownRun DEF Untouched
  <2>6. ASSUME NEW u \in SUBSET Hosts, Watchdog(u) PROVE DownInv'
    <3>1. /\ launch # "none" /\ Cleanup(u, head) /\ UNCHANGED <<jobVars, cmds>>
          /\ aborted' = TRUE /\ UNCHANGED <<resumed, restarts>> /\ ~tracked'
      BY <2>6 DEF Watchdog, Cleanup
    <3>2. RunInv' BY <3>1, CleanedUp
    <3> QED BY <3>1, <3>2, DownRun DEF Untouched
  <2>7. ASSUME NEW w \in Workers, WorkerReady(w) PROVE DownInv'
    <3>1. /\ launch = "workers" /\ works # {} /\ Proceed(todo \ {w})
          /\ UNCHANGED <<jobVars, cmds, msgs, aborted, tracked, resumed,
                         unreached, restarts>>
      BY <2>7 DEF WorkerReady
    <3>2. /\ launch' \in {"training", "workers"}
          /\ HeadDown => HeadDown'
      BY <3>1 DEF Proceed, HeadDown
    <3>3. tracked \/ (aborted /\ HeadDown /\ unreached # {})
      BY <3>1 DEF DownInv, RunInv, WorkersKnown
    <3>4. tracked <=> ~aborted BY <3>1 DEF DownInv, RunInv
    <3>5. SaidOver => ~tracked BY DEF DownInv, RunInv
    <3>6. RunInv' BY <3>1, <3>2, <3>3, <3>4, <3>5 DEF RunInv, WorkersKnown
    <3> QED BY <3>1, <3>6, DownRun DEF Untouched
  <2>8. ASSUME HeadReady PROVE DownInv'
    <3>1. /\ launch = "ready" /\ head = "up" /\ ~aborted
          /\ UNCHANGED <<jobVars, cmds, msgs, aborted, tracked, resumed,
                         unreached, restarts>>
          /\ launch' \in {"training", "workers"}
      BY <2>8 DEF HeadReady, Proceed
    <3>2. tracked /\ ~aborted /\ ~SaidOver BY <3>1 DEF DownInv, RunInv
    <3>3. RunInv' BY <3>1, <3>2 DEF RunInv, WorkersKnown
    <3> QED BY <3>1, <3>3, DownRun DEF Untouched
  <2>9. ASSUME ExecAborted PROVE DownInv'
    <3>1. /\ launch = "training" /\ aborted /\ launch' = "none"
          /\ UNCHANGED <<jobVars, cmds, msgs, aborted, tracked, head, works,
                         resumed, unreached, restarts>>
      BY <2>9 DEF ExecAborted
    <3>2. RunInv'
      BY <3>1 DEF DownInv, RunInv, HeadDown, WorkersKnown, WorkersForgotten
    <3> QED BY <3>1, <3>2, DownRun DEF Untouched
  <2>10. ASSUME NEW u \in SUBSET Hosts, StopJob(u) PROVE DownInv'
    <3>1. /\ Command("stop") /\ cmds' = Tail(cmds)
          /\ UNCHANGED <<jobVars, launch, resumed, restarts>>
      BY <2>10 DEF StopJob
    <3>2. /\ ~(status = "none" \/ creating)' /\ StartFirst(cmds')
          /\ ~Carries(cmds', {"start"})
      BY <3>1, DownTook
    <3>3. RunInv'
      <4>1. CASE tracked
        <5>1. Cleanup(u, head) /\ aborted' = TRUE /\ ~tracked'
          BY <2>10, <4>1 DEF StopJob, Cleanup
        <5>2. launch # "none" BY <4>1 DEF DownInv, RunInv
        <5> QED BY <3>1, <5>1, <5>2, CleanedUp
      <4>2. CASE ~tracked
        <5>1. /\ UNCHANGED <<aborted, tracked>> /\ HeadDown'
              /\ unreached' = unreached \cup u /\ works' = ForceWorkers(u)
          BY <2>10, <4>2 DEF StopJob, Missed, HeadLeft, HeadDown
        <5>2. WorkersKnown BY DEF DownInv, RunInv
        <5>3. /\ works' = {} \/ unreached' # {} \/ WorkersForgotten'
              /\ WorkersKnown'
          BY <3>1, <4>2, <5>1, <5>2
             DEF WorkersKnown, WorkersForgotten, ForceWorkers
        <5>4. tracked' <=> launch' # "none" /\ ~aborted'
          BY <3>1, <5>1 DEF DownInv, RunInv
        <5> QED BY <4>2, <5>1, <5>3, <5>4 DEF RunInv
      <4> QED BY <4>1, <4>2
    <3> QED BY <3>2, <3>3 DEF DownInv
  <2>11. ASSUME NEW ok \in BOOLEAN, Start(ok) PROVE DownInv'
    <3>1. /\ Command("start") /\ cmds' = Tail(cmds)
          /\ UNCHANGED <<jobVars, works, resumed, unreached, restarts>>
      BY <2>11 DEF Start
    <3>2. /\ ~(status = "none" \/ creating)' /\ StartFirst(cmds')
          /\ ~Carries(cmds', {"start"})
      BY <3>1, DownTook
    <3>3. Carries(cmds, {"start"}) BY <3>1, TookCommand
    <3>4. Untouched BY <3>3 DEF DownInv
    <3>5. RunInv'
      <4>1. CASE ok
        <5>1. /\ launch' = "build" /\ ~aborted' /\ tracked' /\ head' = "absent"
              /\ msgs' = msgs
          BY <2>11, <4>1 DEF Start
        <5> QED BY <3>1, <3>4, <5>1 DEF Untouched, RunInv, HeadDown, WorkersKnown
      <4>2. CASE ~ok
        <5>1. UNCHANGED <<launch, aborted, tracked, head>>
          BY <2>11, <4>2 DEF Start
        <5> QED BY <3>1, <3>4, <5>1 DEF Untouched, RunInv, HeadDown, WorkersKnown
      <4> QED BY <4>1, <4>2
    <3> QED BY <3>2, <3>5 DEF DownInv
  <2>12. ASSUME NEW ok \in BOOLEAN, MergeStart(ok) PROVE DownInv'
    <3>1. UNCHANGED <<launch, aborted, tracked, head, works, resumed, unreached, restarts,
                      status, creating, deploying, deleting, restarting>>
      BY <2>12 DEF MergeStart
    <3>2. Carries(msgs', TrainReports) => Carries(msgs, TrainReports)
      BY <2>12, NotTraining DEF MergeStart
    <3>3. Command("merge") /\ cmds' = Tail(cmds) /\ UNCHANGED jobVars
      BY <2>12 DEF MergeStart
    <3>4. /\ ~(status = "none" \/ creating)' /\ StartFirst(cmds')
          /\ ~Carries(cmds', {"start"})
      BY <3>3, DownTook
    <3> QED BY <2>0, <3>1, <3>2, <3>4, DownKept
  <2>13. ASSUME NEW ok \in BOOLEAN, QuantizeStart(ok) PROVE DownInv'
    <3>1. UNCHANGED <<launch, aborted, tracked, head, works, resumed, unreached, restarts,
                      status, creating, deploying, deleting, restarting>>
      BY <2>13 DEF QuantizeStart
    <3>2. Carries(msgs', TrainReports) => Carries(msgs, TrainReports)
      BY <2>13, NotTraining DEF QuantizeStart
    <3>3. Command("quantize") /\ cmds' = Tail(cmds) /\ UNCHANGED jobVars
      BY <2>13 DEF QuantizeStart
    <3>4. /\ ~(status = "none" \/ creating)' /\ StartFirst(cmds')
          /\ ~Carries(cmds', {"start"})
      BY <3>3, DownTook
    <3> QED BY <2>0, <3>1, <3>2, <3>4, DownKept
  <2>14. ASSUME Serve PROVE DownInv'
    <3>1. UNCHANGED <<launch, aborted, tracked, head, works, resumed, unreached, restarts,
                      status, creating, deploying, deleting, restarting>>
      BY <2>14 DEF Serve
    <3>2. Carries(msgs', TrainReports) => Carries(msgs, TrainReports)
      BY <2>14, NotTraining DEF Serve
    <3>3. Command("deploy") /\ cmds' = Tail(cmds) /\ UNCHANGED jobVars
      BY <2>14 DEF Serve
    <3>4. /\ ~(status = "none" \/ creating)' /\ StartFirst(cmds')
          /\ ~Carries(cmds', {"start"})
      BY <3>3, DownTook
    <3> QED BY <2>0, <3>1, <3>2, <3>4, DownKept
  <2>15. ASSUME NEW ok \in BOOLEAN, MergeExit(ok) PROVE DownInv'
    <3>1. UNCHANGED <<launch, aborted, tracked, head, works, resumed, unreached, restarts,
                      status, creating, cmds, deploying, deleting, restarting>>
      BY <2>15 DEF MergeExit
    <3>2. Carries(msgs', TrainReports) => Carries(msgs, TrainReports)
      BY <2>15, NotTraining DEF MergeExit
    <3> QED BY <2>0, <3>1, <3>2, DownKept
  <2>16. ASSUME NEW ok \in BOOLEAN, QuantizeExit(ok) PROVE DownInv'
    <3>1. UNCHANGED <<launch, aborted, tracked, head, works, resumed, unreached, restarts,
                      status, creating, cmds, deploying, deleting, restarting>>
      BY <2>16 DEF QuantizeExit
    <3>2. Carries(msgs', TrainReports) => Carries(msgs, TrainReports)
      BY <2>16, NotTraining DEF QuantizeExit
    <3> QED BY <2>0, <3>1, <3>2, DownKept
  <2>17. ASSUME NEW ok \in BOOLEAN, OrphanMergeEnds(ok) PROVE DownInv'
    <3>1. UNCHANGED <<launch, aborted, tracked, head, works, resumed, unreached, restarts,
                      status, creating, cmds, deploying, deleting, restarting>>
      BY <2>17 DEF OrphanMergeEnds
    <3>2. Carries(msgs', TrainReports) => Carries(msgs, TrainReports)
      BY <2>17, NotTraining DEF OrphanMergeEnds
    <3> QED BY <2>0, <3>1, <3>2, DownKept
  <2>18. ASSUME NEW ok \in BOOLEAN, OrphanQuantizeEnds(ok) PROVE DownInv'
    <3>1. UNCHANGED <<launch, aborted, tracked, head, works, resumed, unreached, restarts,
                      status, creating, cmds, deploying, deleting, restarting,
                      msgs>>
      BY <2>18 DEF OrphanQuantizeEnds
    <3> QED BY <2>0, <3>1, DownKept
  <2>19. ASSUME TailTraining PROVE DownInv'
    <3>1. UNCHANGED <<launch, aborted, tracked, head, works, resumed, unreached, restarts,
                      status, creating, cmds, deploying, deleting, restarting>>
      BY <2>19 DEF TailTraining
    <3>2. Carries(msgs', TrainReports) => Carries(msgs, TrainReports)
      BY <2>19, NotTraining DEF TailTraining, ExitResult
    <3> QED BY <2>0, <3>1, <3>2, DownKept
  <2>20. ASSUME CreateSend PROVE DownInv'
    <3>1. /\ UNCHANGED <<launch, aborted, tracked, head, works, resumed,
                         unreached, restarts, msgs>>
          /\ creating /\ ~creating' /\ cmds' = ToAgent("start")
          /\ status' = IF Row THEN "starting" ELSE status
      BY <2>20 DEF CreateSend
    <3>2. cmds = <<>> /\ Untouched BY <3>1 DEF DownInv
    <3>3. StartFirst(cmds')
      BY <3>1, <3>2 DEF ToAgent, StartFirst
    <3>4. Untouched' BY <3>1, <3>2 DEF Untouched
    <3>5. RunInv' BY <3>1, RunKept DEF DownInv
    <3>6. status' # "none" BY <3>1 DEF DownInv, Row
    <3> QED BY <3>1, <3>3, <3>4, <3>5, <3>6 DEF DownInv
  <2>21. ASSUME HandleReport PROVE DownInv'
    <3>1. UNCHANGED <<launch, aborted, tracked, head, works, resumed, unreached,
                      restarts, creating, cmds, deploying, deleting, restarting>>
      BY <2>21 DEF HandleReport
    <3>2. PICK m \in Reports : m = Head(msgs)
      BY <2>21, Taken DEF HandleReport, TypeOK, NetTypeOK
    <3>3. Carries(msgs, TrainReports)
            <=> m \in TrainReports \/ Carries(msgs', TrainReports)
      BY <2>21, <3>2, TookReport DEF HandleReport
    <3>4. status' = status \/ (m \in TrainReports /\ status' = m.result)
      BY <2>21, <3>2 DEF HandleReport, TrainReports
    <3>5. m.result # "none" BY DEF Reports
    <3> QED BY <2>0, <3>1, <3>3, <3>4, <3>5, DownKept
  <2>22. ASSUME DeployRefused PROVE DownInv'
    <3>1. /\ UNCHANGED <<launch, aborted, tracked, head, works, resumed,
                         unreached, restarts, creating, msgs, cmds>>
          /\ deploying # Idle /\ status' \in {status, "gone"}
      BY <2>22 DEF DeployRefused, Idle
    <3>2. ~creating /\ status # "none" BY <3>1 DEF DownInv
    <3> QED BY <2>0, <3>1, <3>2, DownKept
  <2>23. ASSUME DeployUpsert PROVE DownInv'
    <3>1. /\ UNCHANGED <<launch, aborted, tracked, head, works, resumed,
                         unreached, restarts, creating, msgs, cmds>>
          /\ deploying # Idle /\ status' \in {status, "gone"}
      BY <2>23 DEF DeployUpsert, Idle
    <3>2. ~creating /\ status # "none" BY <3>1 DEF DownInv
    <3> QED BY <2>0, <3>1, <3>2, DownKept
  <2>24. ASSUME DeployCreate PROVE DownInv'
    <3>1. /\ UNCHANGED <<launch, aborted, tracked, head, works, resumed,
                         unreached, restarts, creating, msgs, cmds>>
          /\ deploying # Idle /\ status' \in {status, "gone"}
      BY <2>24 DEF DeployCreate, Idle
    <3>2. ~creating /\ status # "none" BY <3>1 DEF DownInv
    <3> QED BY <2>0, <3>1, <3>2, DownKept
  <2>25. ASSUME NEW c \in BOOLEAN, DeleteSweep(c) PROVE DownInv'
    <3>1. /\ UNCHANGED <<launch, aborted, tracked, head, works, resumed,
                         unreached, restarts, creating, msgs>>
          /\ deleting # Idle /\ status' \in {status, "gone"}
      BY <2>25 DEF DeleteSweep, Idle
    <3>2. ~creating /\ status # "none" BY <3>1 DEF DownInv
    <3>3. /\ StartFirst(cmds')
          /\ Carries(cmds', {"start"}) => Carries(cmds, {"start"})
      <4>1. CASE cmds' = ToAgent("stop") BY <4>1, DownAsked DEF Commands
      <4>2. CASE cmds' = cmds BY <2>0, <4>2
      <4> QED BY <2>25, <4>1, <4>2 DEF DeleteSweep
    <3> QED BY <3>1, <3>2, <3>3, DownKept
  <2>26. ASSUME DeleteRow PROVE DownInv'
    <3>1. /\ UNCHANGED <<launch, aborted, tracked, head, works, resumed,
                         unreached, restarts, creating, msgs, cmds>>
          /\ deleting # Idle /\ status' \in {status, "gone"}
      BY <2>26 DEF DeleteRow, Idle
    <3>2. ~creating /\ status # "none" BY <3>1 DEF DownInv
    <3> QED BY <2>0, <3>1, <3>2, DownKept
  <2>27. ASSUME Create PROVE DownInv'
    <3>1. /\ UNCHANGED <<launch, aborted, tracked, head, works, resumed,
                         unreached, restarts, msgs, cmds, deploying, deleting, restarting>>
          /\ status = "none" /\ status' = "pending"
      BY <2>27 DEF Create
    <3> QED BY <2>0, <3>1, DownKept
  <2>28. ASSUME Stop PROVE DownInv'
    <3>1. /\ UNCHANGED <<launch, aborted, tracked, head, works, resumed,
                         unreached, restarts, creating, msgs>>
          /\ ~creating /\ status # "none" /\ status' \in {status, "stopping"}
      BY <2>28, FineTuneAssumption DEF Stop, MayAsk, Room, Row
    <3>2. cmds' = ToAgent("stop") BY <2>28 DEF Stop
    <3>3. /\ StartFirst(cmds')
          /\ Carries(cmds', {"start"}) => Carries(cmds, {"start"})
      BY <3>2, DownAsked DEF Commands
    <3> QED BY <3>1, <3>3, DownKept
  <2>29. ASSUME Merge PROVE DownInv'
    <3>1. /\ UNCHANGED <<launch, aborted, tracked, head, works, resumed,
                         unreached, restarts, creating, msgs>>
          /\ ~creating /\ status # "none" /\ status' \in {status, "stopping"}
      BY <2>29, FineTuneAssumption DEF Merge, MayAsk, Room, Row
    <3>2. cmds' = ToAgent("merge") BY <2>29 DEF Merge
    <3>3. /\ StartFirst(cmds')
          /\ Carries(cmds', {"start"}) => Carries(cmds, {"start"})
      BY <3>2, DownAsked DEF Commands
    <3> QED BY <3>1, <3>3, DownKept
  <2>30. ASSUME Quantize PROVE DownInv'
    <3>1. /\ UNCHANGED <<launch, aborted, tracked, head, works, resumed,
                         unreached, restarts, creating, msgs>>
          /\ ~creating /\ status # "none" /\ status' \in {status, "stopping"}
      BY <2>30, FineTuneAssumption DEF Quantize, MayAsk, Room, Row
    <3>2. cmds' = ToAgent("quantize") BY <2>30 DEF Quantize
    <3>3. /\ StartFirst(cmds')
          /\ Carries(cmds', {"start"}) => Carries(cmds, {"start"})
      BY <3>2, DownAsked DEF Commands
    <3> QED BY <3>1, <3>3, DownKept
  <2>31. ASSUME DeployCheck PROVE DownInv'
    <3>1. /\ UNCHANGED <<launch, aborted, tracked, head, works, resumed,
                         unreached, restarts, creating, msgs>>
          /\ ~creating /\ status # "none" /\ status' \in {status, "stopping"}
      BY <2>31, FineTuneAssumption DEF DeployCheck, MayAsk, Room, Row
    <3>2. UNCHANGED cmds BY <2>31 DEF DeployCheck
    <3> QED BY <2>0, <3>1, <3>2, DownKept
  <2>32. ASSUME DeleteCheck PROVE DownInv'
    <3>1. /\ UNCHANGED <<launch, aborted, tracked, head, works, resumed,
                         unreached, restarts, creating, msgs>>
          /\ ~creating /\ status # "none" /\ status' \in {status, "stopping"}
      BY <2>32, FineTuneAssumption DEF DeleteCheck, MayAsk, Room, Row
    <3>2. UNCHANGED cmds BY <2>32 DEF DeleteCheck
    <3> QED BY <2>0, <3>1, <3>2, DownKept
  <2>33. ASSUME NEW n \in Names, Rename(n) PROVE DownInv'
    <3>1. UNCHANGED <<launch, aborted, tracked, head, works, resumed, unreached, restarts,
                      status, creating, cmds, deploying, deleting, restarting,
                      msgs>>
      BY <2>33 DEF Rename
    <3> QED BY <2>0, <3>1, DownKept
  <2>34. ASSUME AgentRestart PROVE DownInv'
    <3>1. /\ UNCHANGED <<jobVars, msgs, head, works, resumed, unreached, restarting>>
          /\ cmds' = <<>> /\ launch' = "none" /\ ~aborted' /\ ~tracked'
          /\ restarts' > 0
      BY <2>34 DEF AgentRestart, TypeOK, CntTypeOK
    <3>2. RunInv'
      BY <3>1 DEF DownInv, RunInv, HeadDown, WorkersKnown, WorkersForgotten
    <3>3. StartFirst(cmds') /\ ~Carries(cmds', {"start"})
      BY <3>1 DEF StartFirst, Carries
    <3>4. Untouched => Untouched' BY <3>1 DEF Untouched
    <3> QED BY <3>1, <3>2, <3>3, <3>4 DEF DownInv
  <2>35. ASSUME Drop PROVE DownInv'
    <3>1. /\ UNCHANGED <<jobVars, launch, aborted, tracked, head, works,
                         resumed, unreached, restarts, restarting>>
          /\ cmds' = <<>> /\ msgs' = <<>>
      BY <2>35 DEF Drop
    <3>2. ~Carries(msgs', TrainReports) BY <3>1 DEF Carries
    <3>3. StartFirst(cmds') /\ ~Carries(cmds', {"start"})
      BY <3>1 DEF StartFirst, Carries
    <3>4. Untouched => Untouched' BY <3>1, <3>2 DEF Untouched
    <3>5. RunInv' BY <3>1, <3>2, RunKept DEF DownInv
    <3> QED BY <3>1, <3>3, <3>4, <3>5 DEF DownInv
  <2>36. ASSUME DeploymentEnds PROVE DownInv'
    <3>1. UNCHANGED <<launch, aborted, tracked, head, works, resumed, unreached, restarts,
                      status, creating, cmds, deploying, deleting, restarting,
                      msgs>>
      BY <2>36 DEF DeploymentEnds
    <3> QED BY <2>0, <3>1, DownKept
  <2>37. ASSUME NEW ok \in BOOLEAN, TrainingEnds(ok) PROVE DownInv'
    <3>1. /\ UNCHANGED <<jobVars, cmds, msgs, launch, aborted, tracked, works,
                         resumed, unreached, restarts>>
          /\ head = "training"
      BY <2>37 DEF TrainingEnds
    <3>2. RunInv'
      BY <3>1 DEF DownInv, RunInv, HeadDown, WorkersKnown, WorkersForgotten
    <3> QED BY <3>1, <3>2, DownRun DEF Untouched
  <2>38. ASSUME NEW w \in Workers, WorkerDies(w) PROVE DownInv'
    <3>1. UNCHANGED <<launch, aborted, tracked, head, works, resumed, unreached, restarts,
                      status, creating, cmds, deploying, deleting, restarting,
                      msgs>>
      BY <2>38 DEF WorkerDies
    <3> QED BY <2>0, <3>1, DownKept
  <2>39. ASSUME Reconnect PROVE DownInv'
    <3>1. UNCHANGED <<launch, aborted, tracked, head, works, resumed, unreached, restarts,
                      status, creating, cmds, deploying, deleting, restarting,
                      msgs>>
      BY <2>39 DEF Reconnect
    <3> QED BY <2>0, <3>1, DownKept
  <2>40. ASSUME UNCHANGED vars PROVE DownInv'
    BY <2>0, <2>40, DownKept DEF vars
  <2>41. ASSUME NEW u \in SUBSET Hosts, HeadStopped(u) PROVE DownInv'
    <3>1. /\ launch # "none" /\ Cleanup(u, head) /\ UNCHANGED <<jobVars, cmds>>
          /\ launch' = "none" /\ UNCHANGED <<resumed, restarts>> /\ ~tracked'
      BY <2>41 DEF HeadStopped, Cleanup
    <3>2. RunInv' BY <3>1, CleanedUp
    <3> QED BY <3>1, <3>2, DownRun DEF Untouched
  <2>42. ASSUME DeploySend PROVE DownInv'
    <3>1. /\ UNCHANGED <<launch, aborted, tracked, head, works, resumed,
                         unreached, restarts, creating, msgs, status>>
          /\ deploying # Idle
      BY <2>42 DEF DeploySend, Idle
    <3>2. ~creating /\ status # "none" BY <3>1 DEF DownInv
    <3>3. /\ StartFirst(cmds')
          /\ Carries(cmds', {"start"}) => Carries(cmds, {"start"})
      <4>1. CASE cmds' = ToAgent("deploy") BY <4>1, DownAsked DEF Commands
      <4>2. CASE cmds' = cmds BY <2>0, <4>2
      <4> QED BY <2>42, <4>1, <4>2 DEF DeploySend
    <3> QED BY <3>1, <3>2, <3>3, DownKept
  <2>43. ASSUME RestartCheck PROVE DownInv'
    <3>1. /\ UNCHANGED <<launch, aborted, tracked, head, works, resumed,
                         unreached, restarts, creating, msgs, status, cmds>>
          /\ ~creating /\ status # "none"
      BY <2>43, FineTuneAssumption DEF RestartCheck, MayAsk, Room, Row
    <3> QED BY <2>0, <3>1, DownKept
  <2>44. ASSUME RestartRefused PROVE DownInv'
    <3>1. /\ UNCHANGED <<launch, aborted, tracked, head, works, resumed,
                         unreached, restarts, creating, msgs, status, cmds>>
          /\ restarting
      BY <2>44 DEF RestartRefused
    <3>2. ~creating /\ status # "none" BY <3>1 DEF DownInv
    <3> QED BY <2>0, <3>1, <3>2, DownKept
  <2>45. ASSUME RestartSend PROVE DownInv'
    <3>1. /\ UNCHANGED <<launch, aborted, tracked, head, works, resumed,
                         unreached, restarts, creating, msgs, status>>
          /\ restarting
      BY <2>45 DEF RestartSend
    <3>2. ~creating /\ status # "none" BY <3>1 DEF DownInv
    <3>3. cmds' = ToAgent("deploy") BY <2>45 DEF RestartSend
    <3>4. /\ StartFirst(cmds')
          /\ Carries(cmds', {"start"}) => Carries(cmds, {"start"})
      BY <3>3, DownAsked DEF Commands
    <3> QED BY <3>1, <3>2, <3>4, DownKept
  <2>46. ASSUME DeploymentDown PROVE DownInv'
    <3>1. UNCHANGED <<launch, aborted, tracked, head, works, resumed, unreached, restarts,
                      status, creating, cmds, deploying, deleting, restarting,
                      msgs>>
      BY <2>46 DEF DeploymentDown
    <3> QED BY <2>0, <3>1, DownKept
  <2>47. ASSUME DeploymentUp PROVE DownInv'
    <3>1. UNCHANGED <<launch, aborted, tracked, head, works, resumed, unreached, restarts,
                      status, creating, cmds, deploying, deleting, restarting,
                      msgs>>
      BY <2>47 DEF DeploymentUp
    <3> QED BY <2>0, <3>1, DownKept
  <2> QED
    BY <2>1, <2>2, <2>3, <2>4, <2>5, <2>6, <2>7, <2>8, <2>9, <2>10, <2>11,
       <2>12, <2>13, <2>14, <2>15, <2>16, <2>17, <2>18, <2>19, <2>20, <2>21,
       <2>22, <2>23, <2>24, <2>25, <2>26, <2>27, <2>28, <2>29, <2>30, <2>31,
       <2>32, <2>33, <2>34, <2>35, <2>36, <2>37, <2>38, <2>39, <2>40, <2>41,
       <2>42, <2>43, <2>44, <2>45, <2>46, <2>47 DEF Next, TrainStep,
       CommandStep, MergeStep, QuantizeStep, OrphanStep, ManagerStep,
       OperatorStep, Event
<1>3. DownInv => OverMeansDown
  BY DEF DownInv, RunInv, SaidOver, OverMeansDown, NoContainers, HeadDown
<1> QED BY <1>1, <1>2, <1>3, TypeCorrect, PTL DEF Spec


-----------------------------------------------------------------------------
(* At most one of a kind under way.                                        *)

Once(q, D) ==
  \A i, j \in 1 .. Len(q) : q[i] \in D /\ q[j] \in D => i = j

\* The empty queue carries nothing.
LEMMA OnceEmpty == \A D : Once(<<>>, D) /\ ~Carries(<<>>, D)
BY DEF Once, Carries

\* A message of a kind the queue does not carry is there once.
LEMMA OnceAppended ==
  ASSUME NEW S, NEW D, NEW q \in Seq(S), NEW e \in S, Once(q, D),
         e \notin D \/ ~Carries(q, D)
  PROVE  Once(Append(q, e), D)
<1>1. /\ Len(Append(q, e)) = Len(q) + 1 /\ Append(q, e)[Len(q) + 1] = e
      /\ \A i \in 1 .. Len(q) : Append(q, e)[i] = q[i] /\ Len(q) \in Nat
  BY Appended
<1> SUFFICES ASSUME NEW i \in 1 .. Len(q) + 1, NEW j \in 1 .. Len(q) + 1,
                    Append(q, e)[i] \in D, Append(q, e)[j] \in D
             PROVE  i = j
  BY <1>1 DEF Once
<1>2. CASE i = Len(q) + 1 /\ j = Len(q) + 1 BY <1>2
<1>3. CASE i \in 1 .. Len(q) /\ j \in 1 .. Len(q) BY <1>1, <1>3 DEF Once
<1>4. CASE i = Len(q) + 1 /\ j \in 1 .. Len(q) BY <1>1, <1>4 DEF Carries
<1>5. CASE i \in 1 .. Len(q) /\ j = Len(q) + 1 BY <1>1, <1>5 DEF Carries
<1> QED BY <1>1, <1>2, <1>3, <1>4, <1>5

\* Taking the head removes the only message of its kind.
LEMMA OnceTaken ==
  ASSUME NEW S, NEW D, NEW q \in Seq(S), q # <<>>, Once(q, D)
  PROVE  Once(Tail(q), D) /\ (Head(q) \in D => ~Carries(Tail(q), D))
<1>1. /\ Head(q) = q[1] /\ Len(q) \in Nat \ {0} /\ Len(Tail(q)) = Len(q) - 1
      /\ \A i \in 1 .. Len(q) - 1 : Tail(q)[i] = q[i + 1]
  BY Taken
<1>2. \A i \in 1 .. Len(q) - 1 : i + 1 \in 1 .. Len(q) /\ i + 1 # 1
  BY <1>1
<1>3. Once(Tail(q), D)
  <2> SUFFICES ASSUME NEW i \in 1 .. Len(q) - 1, NEW j \in 1 .. Len(q) - 1,
                      Tail(q)[i] \in D, Tail(q)[j] \in D
               PROVE  i = j
    BY <1>1 DEF Once
  <2>1. q[i + 1] \in D /\ q[j + 1] \in D BY <1>1
  <2>2. i + 1 = j + 1 BY <1>2, <2>1 DEF Once
  <2> QED BY <2>2
<1>4. ASSUME Head(q) \in D, Carries(Tail(q), D) PROVE FALSE
  <2>1. PICK i \in 1 .. Len(q) - 1 : Tail(q)[i] \in D BY <1>1, <1>4 DEF Carries
  <2>2. q[i + 1] \in D /\ q[1] \in D BY <1>1, <1>4, <2>1
  <2>3. 1 \in 1 .. Len(q) BY <1>1
  <2> QED BY <1>2, <2>1, <2>2, <2>3 DEF Once
<1> QED BY <1>3, <1>4

\* A command other than c was sent, or taken.
LEMMA SentFacts ==
  ASSUME TypeOK, NEW x \in Commands, cmds' = ToAgent(x),
         NEW c \in Commands, c # x
  PROVE  /\ Carries(cmds', {c}) <=> Carries(cmds, {c})
         /\ Once(cmds, {c}) => Once(cmds', {c})
<1>1. cmds \in Seq(Commands) BY DEF TypeOK, NetTypeOK
<1>2. x \notin {c} BY DEF Commands
<1>3. Carries(cmds', {c}) <=> Carries(cmds, {c}) BY <1>2, SentOther
<1>4. CASE link BY <1>1, <1>2, <1>3, <1>4, OnceAppended DEF ToAgent
<1>5. CASE ~link BY <1>3, <1>5 DEF ToAgent
<1> QED BY <1>4, <1>5

\* What is left of the commands when the agent has taken one.
LEMMA TookFacts ==
  ASSUME TypeOK, NEW x, Command(x), cmds' = Tail(cmds), NEW c
  PROVE  /\ Carries(cmds', {c}) => Carries(cmds, {c})
         /\ Once(cmds, {c}) => Once(cmds', {c})
         /\ c = x => /\ Carries(cmds, {c})
                     /\ Once(cmds, {c}) => ~Carries(cmds', {c})
<1>1. cmds \in Seq(Commands) /\ cmds # <<>> /\ Head(cmds) = x
  BY DEF TypeOK, NetTypeOK, Command
<1>2. Carries(cmds, {c}) <=> x \in {c} \/ Carries(cmds', {c}) BY TookCommand
<1>3. ASSUME Once(cmds, {c})
      PROVE  Once(cmds', {c}) /\ (c = x => ~Carries(cmds', {c}))
  BY <1>1, <1>3, OnceTaken
<1> QED BY <1>2, <1>3

\* A report outside D was sent.
LEMMA ToldFacts ==
  ASSUME TypeOK, NEW r \in Reports, msgs' = ToManager(r), NEW D, r \notin D
  PROVE  /\ Carries(msgs', D) <=> Carries(msgs, D)
         /\ Once(msgs, D) => Once(msgs', D)
<1>1. msgs \in Seq(Reports) BY DEF TypeOK, NetTypeOK
<1>2. Carries(msgs', D) <=> Carries(msgs, D) BY ToldOther
<1>3. CASE link BY <1>1, <1>2, <1>3, OnceAppended DEF ToManager
<1>4. CASE ~link BY <1>2, <1>4 DEF ToManager
<1> QED BY <1>3, <1>4

\* The only report of D was sent.
LEMMA ToldOnce ==
  ASSUME TypeOK, NEW r \in Reports, msgs' = ToManager(r), NEW D,
         Once(msgs, D), ~Carries(msgs, D)
  PROVE  Once(msgs', D)
<1>1. msgs \in Seq(Reports) BY DEF TypeOK, NetTypeOK
<1>2. CASE link BY <1>1, <1>2, OnceAppended DEF ToManager
<1>3. CASE ~link BY <1>3 DEF ToManager
<1> QED BY <1>2, <1>3

\* The manager takes a report.
LEMMA HeardFacts ==
  ASSUME TypeOK, msgs # <<>>, msgs' = Tail(msgs), NEW D
  PROVE  /\ Carries(msgs', D) => Carries(msgs, D)
         /\ Head(msgs) \in D => Carries(msgs, D)
         /\ Once(msgs, D) => Once(msgs', D)
         /\ Once(msgs, D) /\ Head(msgs) \in D => ~Carries(msgs', D)
<1>1. msgs \in Seq(Reports) BY DEF TypeOK, NetTypeOK
<1>2. Carries(msgs, D) <=> Head(msgs) \in D \/ Carries(msgs', D)
  BY TookReport
<1>3. ASSUME Once(msgs, D)
      PROVE  Once(msgs', D) /\ (Head(msgs) \in D => ~Carries(msgs', D))
  BY <1>1, <1>3, OnceTaken
<1> QED BY <1>2, <1>3

MergeReports == {r \in Reports : r.stage = "merge" /\ r.whole}
QuantizeReports == {r \in Reports : r.stage = "quantize" /\ r.whole}

\* Which reports are about which stage.
LEMMA ReportFacts ==
  ASSUME NEW stage \in {"train", "merge", "quantize"},
         NEW result \in {"completed", "failed", "stopped"},
         NEW whole \in BOOLEAN, result = "stopped" => stage = "train"
  PROVE  /\ Report(stage, result, whole) \in Reports
         /\ Report(stage, result, whole).stage = stage
         /\ Report(stage, result, whole).result = result
         /\ Report(stage, result, whole).whole = whole
         /\ Report(stage, result, whole) \in MergeReports
              <=> stage = "merge" /\ whole
         /\ Report(stage, result, whole) \in QuantizeReports
              <=> stage = "quantize" /\ whole
BY DEF Report, Reports, MergeReports, QuantizeReports

\* A merge is on its way to the agent, running, or reported, one of the three
\* and once; and while it is the row says running.
MergeOnce ==
  /\ Carries(cmds, {"merge"}) \/ merger # "none" \/ Carries(msgs, MergeReports)
       => merge = "running"
  /\ Once(cmds, {"merge"}) /\ Once(msgs, MergeReports)
  /\ Carries(cmds, {"merge"})
       => merger = "none" /\ ~Carries(msgs, MergeReports)
  /\ merger # "none" => ~Carries(msgs, MergeReports)

\* The same for a quantization.
QuantizeOnce ==
  /\ Carries(cmds, {"quantize"}) \/ quantizer # "none"
       \/ Carries(msgs, QuantizeReports)
       => quant = "quantizing"
  /\ Once(cmds, {"quantize"}) /\ Once(msgs, QuantizeReports)
  /\ Carries(cmds, {"quantize"})
       => quantizer = "none" /\ ~Carries(msgs, QuantizeReports)
  /\ quantizer # "none" => ~Carries(msgs, QuantizeReports)

\* What is not about a merge.
LEMMA MergeOnceKept ==
  ASSUME MergeOnce, UNCHANGED merge, merger' # "none" => merger # "none",
         Once(cmds', {"merge"}), Carries(cmds', {"merge"}) => Carries(cmds, {"merge"}),
         Once(msgs', MergeReports), Carries(msgs', MergeReports) => Carries(msgs, MergeReports)
  PROVE  MergeOnce'
BY DEF MergeOnce

\* Every step of a patient operator keeps MergeOnce.
LEMMA MergeOnceStep ==
  ASSUME Patient, TypeOK, MergeOnce, [Next]_vars
  PROVE  MergeOnce'
<1>1. ASSUME NEW u \in SUBSET Hosts, RunHead(u) PROVE MergeOnce'
  <2>1. UNCHANGED <<cmds, msgs, merge, merger>>
    BY <1>1 DEF RunHead
  <2> QED BY <2>1, MergeOnceKept DEF MergeOnce
<1>2. ASSUME NEW u \in SUBSET Hosts, BuildFails(u) PROVE MergeOnce'
  <2>1. PICK r \in Reports : /\ r.stage = "train" /\ r.whole = TRUE
                             /\ msgs' = ToManager(r)
    BY <1>2, ReportFacts DEF BuildFails, LaunchFails
  <2>2. /\ Carries(msgs', MergeReports) => Carries(msgs, MergeReports)
        /\ Once(msgs, MergeReports) => Once(msgs', MergeReports)
    BY <2>1, ToldFacts DEF MergeReports
  <2>3. UNCHANGED <<cmds, merge, merger>>
    BY <1>2 DEF BuildFails, LaunchFails
  <2> QED BY <2>1, <2>2, <2>3, MergeOnceKept DEF MergeOnce
<1>3. ASSUME NEW u \in SUBSET Hosts, ReadyFails(u) PROVE MergeOnce'
  <2>1. PICK r \in Reports : /\ r.stage = "train" /\ r.whole = TRUE
                             /\ msgs' = ToManager(r)
    BY <1>3, ReportFacts DEF ReadyFails, LaunchFails
  <2>2. /\ Carries(msgs', MergeReports) => Carries(msgs, MergeReports)
        /\ Once(msgs, MergeReports) => Once(msgs', MergeReports)
    BY <2>1, ToldFacts DEF MergeReports
  <2>3. UNCHANGED <<cmds, merge, merger>>
    BY <1>3 DEF ReadyFails, LaunchFails
  <2> QED BY <2>1, <2>2, <2>3, MergeOnceKept DEF MergeOnce
<1>4. ASSUME NEW u \in SUBSET Hosts, WorkerFails(u) PROVE MergeOnce'
  <2>1. PICK r \in Reports : /\ r.stage = "train" /\ r.whole = TRUE
                             /\ msgs' = ToManager(r)
    BY <1>4, ReportFacts DEF WorkerFails, LaunchFails
  <2>2. /\ Carries(msgs', MergeReports) => Carries(msgs, MergeReports)
        /\ Once(msgs, MergeReports) => Once(msgs', MergeReports)
    BY <2>1, ToldFacts DEF MergeReports
  <2>3. UNCHANGED <<cmds, merge, merger>>
    BY <1>4 DEF WorkerFails, LaunchFails
  <2> QED BY <2>1, <2>2, <2>3, MergeOnceKept DEF MergeOnce
<1>5. ASSUME NEW u \in SUBSET Hosts, ExecExit(u) PROVE MergeOnce'
  <2>1. PICK r \in Reports : /\ r.stage = "train" /\ r.whole = TRUE
                             /\ msgs' = ToManager(r)
    BY <1>5, ReportFacts DEF ExecExit, ExitResult
  <2>2. /\ Carries(msgs', MergeReports) => Carries(msgs, MergeReports)
        /\ Once(msgs, MergeReports) => Once(msgs', MergeReports)
    BY <2>1, ToldFacts DEF MergeReports
  <2>3. UNCHANGED <<cmds, merge, merger>>
    BY <1>5 DEF ExecExit
  <2> QED BY <2>1, <2>2, <2>3, MergeOnceKept DEF MergeOnce
<1>6. ASSUME NEW u \in SUBSET Hosts, Watchdog(u) PROVE MergeOnce'
  <2>1. PICK r \in Reports : /\ r.stage = "train" /\ r.whole = TRUE
                             /\ msgs' = ToManager(r)
    BY <1>6, ReportFacts DEF Watchdog
  <2>2. /\ Carries(msgs', MergeReports) => Carries(msgs, MergeReports)
        /\ Once(msgs, MergeReports) => Once(msgs', MergeReports)
    BY <2>1, ToldFacts DEF MergeReports
  <2>3. UNCHANGED <<cmds, merge, merger>>
    BY <1>6 DEF Watchdog
  <2> QED BY <2>1, <2>2, <2>3, MergeOnceKept DEF MergeOnce
<1>7. ASSUME NEW w \in Workers, WorkerReady(w) PROVE MergeOnce'
  <2>1. UNCHANGED <<cmds, msgs, merge, merger>>
    BY <1>7 DEF WorkerReady
  <2> QED BY <2>1, MergeOnceKept DEF MergeOnce
<1>8. ASSUME HeadReady PROVE MergeOnce'
  <2>1. UNCHANGED <<cmds, msgs, merge, merger>>
    BY <1>8 DEF HeadReady
  <2> QED BY <2>1, MergeOnceKept DEF MergeOnce
<1>9. ASSUME ExecAborted PROVE MergeOnce'
  <2>1. UNCHANGED <<cmds, msgs, merge, merger>>
    BY <1>9 DEF ExecAborted
  <2> QED BY <2>1, MergeOnceKept DEF MergeOnce
<1>10. ASSUME NEW u \in SUBSET Hosts, StopJob(u) PROVE MergeOnce'
  <2>1. Command("stop") /\ cmds' = Tail(cmds)
    BY <1>10 DEF StopJob
  <2>2. /\ Carries(cmds', {"merge"}) => Carries(cmds, {"merge"})
        /\ Once(cmds, {"merge"}) => Once(cmds', {"merge"})
    BY <2>1, TookFacts
  <2>3. PICK r \in Reports : /\ r.stage = "train" /\ r.whole = TRUE
                             /\ msgs' = ToManager(r)
    BY <1>10, ReportFacts DEF StopJob
  <2>4. /\ Carries(msgs', MergeReports) => Carries(msgs, MergeReports)
        /\ Once(msgs, MergeReports) => Once(msgs', MergeReports)
    BY <2>3, ToldFacts DEF MergeReports
  <2>5. UNCHANGED <<merge, merger>>
    BY <1>10 DEF StopJob
  <2> QED BY <2>1, <2>2, <2>3, <2>4, <2>5, MergeOnceKept DEF MergeOnce
<1>11. ASSUME NEW ok \in BOOLEAN, Start(ok) PROVE MergeOnce'
  <2>1. Command("start") /\ cmds' = Tail(cmds)
    BY <1>11 DEF Start
  <2>2. /\ Carries(cmds', {"merge"}) => Carries(cmds, {"merge"})
        /\ Once(cmds, {"merge"}) => Once(cmds', {"merge"})
    BY <2>1, TookFacts
  <2>3. PICK r \in Reports : /\ r.stage = "train" /\ r.whole = TRUE
                             /\ msgs' = ToManager(r) \/ msgs' = msgs
    BY <1>11, ReportFacts DEF Start
  <2>4. /\ Carries(msgs', MergeReports) => Carries(msgs, MergeReports)
        /\ Once(msgs, MergeReports) => Once(msgs', MergeReports)
    BY <2>3, ToldFacts DEF MergeReports
  <2>5. UNCHANGED <<merge, merger>>
    BY <1>11 DEF Start
  <2> QED BY <2>1, <2>2, <2>3, <2>4, <2>5, MergeOnceKept DEF MergeOnce
<1>12. ASSUME NEW ok \in BOOLEAN, MergeStart(ok) PROVE MergeOnce'
  <2>1. Command("merge") /\ cmds' = Tail(cmds)
    BY <1>12 DEF MergeStart
  <2>2. /\ Carries(cmds', {"merge"}) => Carries(cmds, {"merge"})
        /\ Once(cmds, {"merge"}) => Once(cmds', {"merge"})
        /\ Carries(cmds, {"merge"})
        /\ Once(cmds, {"merge"}) => ~Carries(cmds', {"merge"})
    BY <2>1, TookFacts
  <2>3. PICK r \in Reports : /\ r.stage = "merge" /\ r.whole = TRUE
                             /\ msgs' = ToManager(r) \/ msgs' = msgs
    BY <1>12, ReportFacts DEF MergeStart
  <2>4. Once(msgs, MergeReports) /\ ~Carries(msgs, MergeReports) => Once(msgs', MergeReports)
    BY <2>3, ToldOnce
  <2>5. /\ UNCHANGED merge /\ merger' \in {"none", "tracked"}
        /\ merger' # "none" => msgs' = msgs
    BY <1>12 DEF MergeStart
  <2> QED BY <2>1, <2>2, <2>3, <2>4, <2>5 DEF MergeOnce
<1>13. ASSUME NEW ok \in BOOLEAN, QuantizeStart(ok) PROVE MergeOnce'
  <2>1. Command("quantize") /\ cmds' = Tail(cmds)
    BY <1>13 DEF QuantizeStart
  <2>2. /\ Carries(cmds', {"merge"}) => Carries(cmds, {"merge"})
        /\ Once(cmds, {"merge"}) => Once(cmds', {"merge"})
    BY <2>1, TookFacts
  <2>3. PICK r \in Reports : /\ r.stage = "quantize" /\ r.whole = TRUE
                             /\ msgs' = ToManager(r) \/ msgs' = msgs
    BY <1>13, ReportFacts DEF QuantizeStart
  <2>4. /\ Carries(msgs', MergeReports) => Carries(msgs, MergeReports)
        /\ Once(msgs, MergeReports) => Once(msgs', MergeReports)
    BY <2>3, ToldFacts DEF MergeReports
  <2>5. UNCHANGED <<merge, merger>>
    BY <1>13 DEF QuantizeStart
  <2> QED BY <2>1, <2>2, <2>3, <2>4, <2>5, MergeOnceKept DEF MergeOnce
<1>14. ASSUME Serve PROVE MergeOnce'
  <2>1. Command("deploy") /\ cmds' = Tail(cmds)
    BY <1>14 DEF Serve
  <2>2. /\ Carries(cmds', {"merge"}) => Carries(cmds, {"merge"})
        /\ Once(cmds, {"merge"}) => Once(cmds', {"merge"})
    BY <2>1, TookFacts
  <2>3. UNCHANGED <<msgs, merge, merger>>
    BY <1>14 DEF Serve
  <2> QED BY <2>1, <2>2, <2>3, MergeOnceKept DEF MergeOnce
<1>15. ASSUME NEW ok \in BOOLEAN, MergeExit(ok) PROVE MergeOnce'
  <2>1. PICK r \in Reports : /\ r.stage = "merge" /\ r.whole = TRUE
                             /\ msgs' = ToManager(r)
    BY <1>15, ReportFacts DEF MergeExit
  <2>2. Once(msgs, MergeReports) /\ ~Carries(msgs, MergeReports) => Once(msgs', MergeReports)
    BY <2>1, ToldOnce
  <2>3. UNCHANGED <<cmds, merge>> /\ merger # "none" /\ merger' = "none"
    BY <1>15 DEF MergeExit
  <2> QED BY <2>1, <2>2, <2>3 DEF MergeOnce
<1>16. ASSUME NEW ok \in BOOLEAN, QuantizeExit(ok) PROVE MergeOnce'
  <2>1. PICK r \in Reports : /\ r.stage = "quantize" /\ r.whole = TRUE
                             /\ msgs' = ToManager(r)
    BY <1>16, ReportFacts DEF QuantizeExit
  <2>2. /\ Carries(msgs', MergeReports) => Carries(msgs, MergeReports)
        /\ Once(msgs, MergeReports) => Once(msgs', MergeReports)
    BY <2>1, ToldFacts DEF MergeReports
  <2>3. UNCHANGED <<cmds, merge, merger>>
    BY <1>16 DEF QuantizeExit
  <2> QED BY <2>1, <2>2, <2>3, MergeOnceKept DEF MergeOnce
<1>17. ASSUME NEW ok \in BOOLEAN, OrphanMergeEnds(ok) PROVE MergeOnce'
  <2>1. PICK r \in Reports : /\ r.stage = "merge" /\ r.whole = FALSE
                             /\ msgs' = ToManager(r) \/ msgs' = msgs
    BY <1>17, ReportFacts DEF OrphanMergeEnds
  <2>2. /\ Carries(msgs', MergeReports) => Carries(msgs, MergeReports)
        /\ Once(msgs, MergeReports) => Once(msgs', MergeReports)
    BY <2>1, ToldFacts DEF MergeReports
  <2>3. UNCHANGED <<cmds, merge>> /\ merger' = "none"
    BY <1>17 DEF OrphanMergeEnds
  <2> QED BY <2>1, <2>2, <2>3, MergeOnceKept DEF MergeOnce
<1>18. ASSUME NEW ok \in BOOLEAN, OrphanQuantizeEnds(ok) PROVE MergeOnce'
  <2>1. UNCHANGED <<cmds, msgs, merge, merger>>
    BY <1>18 DEF OrphanQuantizeEnds
  <2> QED BY <2>1, MergeOnceKept DEF MergeOnce
<1>19. ASSUME TailTraining PROVE MergeOnce'
  <2>1. PICK r \in Reports : /\ r.stage = "train" /\ r.whole = FALSE
                             /\ msgs' = ToManager(r)
    BY <1>19, ReportFacts DEF TailTraining, ExitResult
  <2>2. /\ Carries(msgs', MergeReports) => Carries(msgs, MergeReports)
        /\ Once(msgs, MergeReports) => Once(msgs', MergeReports)
    BY <2>1, ToldFacts DEF MergeReports
  <2>3. UNCHANGED <<cmds, merge, merger>>
    BY <1>19 DEF TailTraining
  <2> QED BY <2>1, <2>2, <2>3, MergeOnceKept DEF MergeOnce
<1>20. ASSUME CreateSend PROVE MergeOnce'
  <2>1. /\ Carries(cmds', {"merge"}) => Carries(cmds, {"merge"})
        /\ Once(cmds, {"merge"}) => Once(cmds', {"merge"})
    BY <1>20, SentFacts DEF CreateSend, Commands
  <2>2. UNCHANGED <<msgs, merge, merger>>
    BY <1>20 DEF CreateSend
  <2> QED BY <2>1, <2>2, MergeOnceKept DEF MergeOnce
<1>21. ASSUME HandleReport PROVE MergeOnce'
  <2>1. UNCHANGED <<cmds, merger>> /\ msgs # <<>> /\ msgs' = Tail(msgs)
    BY <1>21 DEF HandleReport
  <2>2. /\ Carries(msgs', MergeReports) => Carries(msgs, MergeReports)
        /\ Head(msgs) \in MergeReports => Carries(msgs, MergeReports)
        /\ Once(msgs, MergeReports) => Once(msgs', MergeReports)
        /\ Once(msgs, MergeReports) /\ Head(msgs) \in MergeReports
             => ~Carries(msgs', MergeReports)
    BY <2>1, HeardFacts
  <2>3. Head(msgs) \in Reports
    BY <2>1, Taken DEF TypeOK, NetTypeOK
  <2>4. merge' = merge \/ Head(msgs) \in MergeReports
    BY <1>21, <2>3 DEF HandleReport, MergeReports
  <2> QED BY <2>1, <2>2, <2>4 DEF MergeOnce
<1>22. ASSUME DeployRefused PROVE MergeOnce'
  <2>1. UNCHANGED <<cmds, msgs, merge, merger>>
    BY <1>22 DEF DeployRefused
  <2> QED BY <2>1, MergeOnceKept DEF MergeOnce
<1>23. ASSUME DeployUpsert PROVE MergeOnce'
  <2>1. UNCHANGED <<cmds, msgs, merge, merger>>
    BY <1>23 DEF DeployUpsert
  <2> QED BY <2>1, MergeOnceKept DEF MergeOnce
<1>24. ASSUME DeployCreate PROVE MergeOnce'
  <2>1. UNCHANGED <<cmds, msgs, merge, merger>>
    BY <1>24 DEF DeployCreate
  <2> QED BY <2>1, MergeOnceKept DEF MergeOnce
<1>25. ASSUME NEW c \in BOOLEAN, DeleteSweep(c) PROVE MergeOnce'
  <2>1. /\ Carries(cmds', {"merge"}) => Carries(cmds, {"merge"})
        /\ Once(cmds, {"merge"}) => Once(cmds', {"merge"})
    <3>1. CASE cmds' = ToAgent("stop") BY <3>1, SentFacts DEF Commands
    <3>2. CASE cmds' = cmds BY <3>2
    <3> QED BY <1>25, <3>1, <3>2 DEF DeleteSweep
  <2>2. UNCHANGED <<msgs, merge, merger>>
    BY <1>25 DEF DeleteSweep
  <2> QED BY <2>1, <2>2, MergeOnceKept DEF MergeOnce
<1>26. ASSUME DeleteRow PROVE MergeOnce'
  <2>1. UNCHANGED <<cmds, msgs, merge, merger>>
    BY <1>26 DEF DeleteRow
  <2> QED BY <2>1, MergeOnceKept DEF MergeOnce
<1>27. ASSUME Create PROVE MergeOnce'
  <2>1. UNCHANGED <<cmds, msgs, merge, merger>>
    BY <1>27 DEF Create
  <2> QED BY <2>1, MergeOnceKept DEF MergeOnce
<1>28. ASSUME Stop PROVE MergeOnce'
  <2>1. /\ Carries(cmds', {"merge"}) => Carries(cmds, {"merge"})
        /\ Once(cmds, {"merge"}) => Once(cmds', {"merge"})
    BY <1>28, SentFacts DEF Stop, Commands
  <2>2. UNCHANGED <<msgs, merge, merger>>
    BY <1>28 DEF Stop
  <2> QED BY <2>1, <2>2, MergeOnceKept DEF MergeOnce
<1>29. ASSUME Merge PROVE MergeOnce'
  <2>1. /\ merge # "running" /\ merge' = "running" /\ UNCHANGED <<merger, msgs>>
        /\ cmds' = ToAgent("merge")
    BY <1>29 DEF Merge
  <2>2. /\ ~Carries(cmds, {"merge"}) /\ merger = "none" /\ ~Carries(msgs, MergeReports)
        /\ Once(cmds, {"merge"}) /\ Once(msgs, MergeReports)
    BY <2>1 DEF MergeOnce
  <2>3. Once(cmds', {"merge"})
    <3>1. cmds \in Seq(Commands) BY DEF TypeOK, NetTypeOK
    <3>2. CASE link
      BY <2>1, <2>2, <3>1, <3>2, OnceAppended DEF ToAgent, Commands
    <3>3. CASE ~link BY <2>1, <2>2, <3>3 DEF ToAgent
    <3> QED BY <3>2, <3>3
  <2> QED BY <2>1, <2>2, <2>3 DEF MergeOnce
<1>30. ASSUME Quantize PROVE MergeOnce'
  <2>1. /\ Carries(cmds', {"merge"}) => Carries(cmds, {"merge"})
        /\ Once(cmds, {"merge"}) => Once(cmds', {"merge"})
    BY <1>30, SentFacts DEF Quantize, Commands
  <2>2. UNCHANGED <<msgs, merge, merger>>
    BY <1>30 DEF Quantize
  <2> QED BY <2>1, <2>2, MergeOnceKept DEF MergeOnce
<1>31. ASSUME DeployCheck PROVE MergeOnce'
  <2>1. UNCHANGED <<cmds, msgs, merge, merger>>
    BY <1>31 DEF DeployCheck
  <2> QED BY <2>1, MergeOnceKept DEF MergeOnce
<1>32. ASSUME DeleteCheck PROVE MergeOnce'
  <2>1. UNCHANGED <<cmds, msgs, merge, merger>>
    BY <1>32 DEF DeleteCheck
  <2> QED BY <2>1, MergeOnceKept DEF MergeOnce
<1>33. ASSUME NEW n \in Names, Rename(n) PROVE MergeOnce'
  <2>1. UNCHANGED <<cmds, msgs, merge, merger>>
    BY <1>33 DEF Rename
  <2> QED BY <2>1, MergeOnceKept DEF MergeOnce
<1>34. ASSUME AgentRestart PROVE MergeOnce'
  <2>1. Once(cmds', {"merge"}) /\ ~Carries(cmds', {"merge"})
    BY <1>34, OnceEmpty DEF AgentRestart
  <2>2. UNCHANGED <<msgs, merge>> /\ (merger' # "none" => merger # "none")
    BY <1>34 DEF AgentRestart
  <2> QED BY <2>1, <2>2, MergeOnceKept DEF MergeOnce
<1>35. ASSUME Drop PROVE MergeOnce'
  <2>1. Once(cmds', {"merge"}) /\ ~Carries(cmds', {"merge"})
    BY <1>35, OnceEmpty DEF Drop
  <2>2. Once(msgs', MergeReports) /\ ~Carries(msgs', MergeReports)
    BY <1>35, OnceEmpty DEF Drop
  <2>3. UNCHANGED <<merge, merger>>
    BY <1>35 DEF Drop
  <2> QED BY <2>1, <2>2, <2>3, MergeOnceKept DEF MergeOnce
<1>36. ASSUME DeploymentEnds PROVE MergeOnce'
  <2>1. UNCHANGED <<cmds, msgs, merge, merger>>
    BY <1>36 DEF DeploymentEnds
  <2> QED BY <2>1, MergeOnceKept DEF MergeOnce
<1>37. ASSUME NEW ok \in BOOLEAN, TrainingEnds(ok) PROVE MergeOnce'
  <2>1. UNCHANGED <<cmds, msgs, merge, merger>>
    BY <1>37 DEF TrainingEnds
  <2> QED BY <2>1, MergeOnceKept DEF MergeOnce
<1>38. ASSUME NEW w \in Workers, WorkerDies(w) PROVE MergeOnce'
  <2>1. UNCHANGED <<cmds, msgs, merge, merger>>
    BY <1>38 DEF WorkerDies
  <2> QED BY <2>1, MergeOnceKept DEF MergeOnce
<1>39. ASSUME Reconnect PROVE MergeOnce'
  <2>1. UNCHANGED <<cmds, msgs, merge, merger>>
    BY <1>39 DEF Reconnect
  <2> QED BY <2>1, MergeOnceKept DEF MergeOnce
<1>40. ASSUME UNCHANGED vars PROVE MergeOnce'
  BY <1>40 DEF vars, MergeOnce
<1>41. ASSUME NEW u \in SUBSET Hosts, HeadStopped(u) PROVE MergeOnce'
  <2>1. UNCHANGED <<cmds, msgs, merge, merger>>
    BY <1>41 DEF HeadStopped
  <2> QED BY <2>1, MergeOnceKept DEF MergeOnce
<1>42. ASSUME DeploySend PROVE MergeOnce'
  <2>1. /\ Carries(cmds', {"merge"}) => Carries(cmds, {"merge"})
        /\ Once(cmds, {"merge"}) => Once(cmds', {"merge"})
    <3>1. CASE cmds' = ToAgent("deploy") BY <3>1, SentFacts DEF Commands
    <3>2. CASE cmds' = cmds BY <3>2
    <3> QED BY <1>42, <3>1, <3>2 DEF DeploySend
  <2>2. UNCHANGED <<msgs, merge, merger>>
    BY <1>42 DEF DeploySend
  <2> QED BY <2>1, <2>2, MergeOnceKept DEF MergeOnce
<1>43. ASSUME RestartCheck PROVE MergeOnce'
  <2>1. UNCHANGED <<cmds, msgs, merge, merger>>
    BY <1>43 DEF RestartCheck
  <2> QED BY <2>1, MergeOnceKept DEF MergeOnce
<1>44. ASSUME RestartRefused PROVE MergeOnce'
  <2>1. UNCHANGED <<cmds, msgs, merge, merger>>
    BY <1>44 DEF RestartRefused
  <2> QED BY <2>1, MergeOnceKept DEF MergeOnce
<1>45. ASSUME RestartSend PROVE MergeOnce'
  <2>1. /\ Carries(cmds', {"merge"}) => Carries(cmds, {"merge"})
        /\ Once(cmds, {"merge"}) => Once(cmds', {"merge"})
    BY <1>45, SentFacts DEF RestartSend, Commands
  <2>2. UNCHANGED <<msgs, merge, merger>>
    BY <1>45 DEF RestartSend
  <2> QED BY <2>1, <2>2, MergeOnceKept DEF MergeOnce
<1>46. ASSUME DeploymentDown PROVE MergeOnce'
  <2>1. UNCHANGED <<cmds, msgs, merge, merger>>
    BY <1>46 DEF DeploymentDown
  <2> QED BY <2>1, MergeOnceKept DEF MergeOnce
<1>47. ASSUME DeploymentUp PROVE MergeOnce'
  <2>1. UNCHANGED <<cmds, msgs, merge, merger>>
    BY <1>47 DEF DeploymentUp
  <2> QED BY <2>1, MergeOnceKept DEF MergeOnce
<1> QED
  BY <1>1, <1>2, <1>3, <1>4, <1>5, <1>6, <1>7, <1>8, <1>9, <1>10, <1>11, <1>12,
     <1>13, <1>14, <1>15, <1>16, <1>17, <1>18, <1>19, <1>20, <1>21, <1>22,
     <1>23, <1>24, <1>25, <1>26, <1>27, <1>28, <1>29, <1>30, <1>31, <1>32,
     <1>33, <1>34, <1>35, <1>36, <1>37, <1>38, <1>39, <1>40, <1>41, <1>42,
     <1>43, <1>44, <1>45, <1>46, <1>47 DEF Next, TrainStep, CommandStep,
     MergeStep, QuantizeStep, OrphanStep, ManagerStep, OperatorStep, Event

\* What is not about a quantize.
LEMMA QuantizeOnceKept ==
  ASSUME QuantizeOnce, UNCHANGED quant, quantizer' # "none" => quantizer # "none",
         Once(cmds', {"quantize"}), Carries(cmds', {"quantize"}) => Carries(cmds, {"quantize"}),
         Once(msgs', QuantizeReports), Carries(msgs', QuantizeReports) => Carries(msgs, QuantizeReports)
  PROVE  QuantizeOnce'
BY DEF QuantizeOnce

\* Every step keeps QuantizeOnce.
LEMMA QuantizeOnceStep ==
  ASSUME TypeOK, QuantizeOnce, [Next]_vars
  PROVE  QuantizeOnce'
<1>1. ASSUME NEW u \in SUBSET Hosts, RunHead(u) PROVE QuantizeOnce'
  <2>1. UNCHANGED <<cmds, msgs, quant, quantizer>>
    BY <1>1 DEF RunHead
  <2> QED BY <2>1, QuantizeOnceKept DEF QuantizeOnce
<1>2. ASSUME NEW u \in SUBSET Hosts, BuildFails(u) PROVE QuantizeOnce'
  <2>1. PICK r \in Reports : /\ r.stage = "train" /\ r.whole = TRUE
                             /\ msgs' = ToManager(r)
    BY <1>2, ReportFacts DEF BuildFails, LaunchFails
  <2>2. /\ Carries(msgs', QuantizeReports) => Carries(msgs, QuantizeReports)
        /\ Once(msgs, QuantizeReports) => Once(msgs', QuantizeReports)
    BY <2>1, ToldFacts DEF QuantizeReports
  <2>3. UNCHANGED <<cmds, quant, quantizer>>
    BY <1>2 DEF BuildFails, LaunchFails
  <2> QED BY <2>1, <2>2, <2>3, QuantizeOnceKept DEF QuantizeOnce
<1>3. ASSUME NEW u \in SUBSET Hosts, ReadyFails(u) PROVE QuantizeOnce'
  <2>1. PICK r \in Reports : /\ r.stage = "train" /\ r.whole = TRUE
                             /\ msgs' = ToManager(r)
    BY <1>3, ReportFacts DEF ReadyFails, LaunchFails
  <2>2. /\ Carries(msgs', QuantizeReports) => Carries(msgs, QuantizeReports)
        /\ Once(msgs, QuantizeReports) => Once(msgs', QuantizeReports)
    BY <2>1, ToldFacts DEF QuantizeReports
  <2>3. UNCHANGED <<cmds, quant, quantizer>>
    BY <1>3 DEF ReadyFails, LaunchFails
  <2> QED BY <2>1, <2>2, <2>3, QuantizeOnceKept DEF QuantizeOnce
<1>4. ASSUME NEW u \in SUBSET Hosts, WorkerFails(u) PROVE QuantizeOnce'
  <2>1. PICK r \in Reports : /\ r.stage = "train" /\ r.whole = TRUE
                             /\ msgs' = ToManager(r)
    BY <1>4, ReportFacts DEF WorkerFails, LaunchFails
  <2>2. /\ Carries(msgs', QuantizeReports) => Carries(msgs, QuantizeReports)
        /\ Once(msgs, QuantizeReports) => Once(msgs', QuantizeReports)
    BY <2>1, ToldFacts DEF QuantizeReports
  <2>3. UNCHANGED <<cmds, quant, quantizer>>
    BY <1>4 DEF WorkerFails, LaunchFails
  <2> QED BY <2>1, <2>2, <2>3, QuantizeOnceKept DEF QuantizeOnce
<1>5. ASSUME NEW u \in SUBSET Hosts, ExecExit(u) PROVE QuantizeOnce'
  <2>1. PICK r \in Reports : /\ r.stage = "train" /\ r.whole = TRUE
                             /\ msgs' = ToManager(r)
    BY <1>5, ReportFacts DEF ExecExit, ExitResult
  <2>2. /\ Carries(msgs', QuantizeReports) => Carries(msgs, QuantizeReports)
        /\ Once(msgs, QuantizeReports) => Once(msgs', QuantizeReports)
    BY <2>1, ToldFacts DEF QuantizeReports
  <2>3. UNCHANGED <<cmds, quant, quantizer>>
    BY <1>5 DEF ExecExit
  <2> QED BY <2>1, <2>2, <2>3, QuantizeOnceKept DEF QuantizeOnce
<1>6. ASSUME NEW u \in SUBSET Hosts, Watchdog(u) PROVE QuantizeOnce'
  <2>1. PICK r \in Reports : /\ r.stage = "train" /\ r.whole = TRUE
                             /\ msgs' = ToManager(r)
    BY <1>6, ReportFacts DEF Watchdog
  <2>2. /\ Carries(msgs', QuantizeReports) => Carries(msgs, QuantizeReports)
        /\ Once(msgs, QuantizeReports) => Once(msgs', QuantizeReports)
    BY <2>1, ToldFacts DEF QuantizeReports
  <2>3. UNCHANGED <<cmds, quant, quantizer>>
    BY <1>6 DEF Watchdog
  <2> QED BY <2>1, <2>2, <2>3, QuantizeOnceKept DEF QuantizeOnce
<1>7. ASSUME NEW w \in Workers, WorkerReady(w) PROVE QuantizeOnce'
  <2>1. UNCHANGED <<cmds, msgs, quant, quantizer>>
    BY <1>7 DEF WorkerReady
  <2> QED BY <2>1, QuantizeOnceKept DEF QuantizeOnce
<1>8. ASSUME HeadReady PROVE QuantizeOnce'
  <2>1. UNCHANGED <<cmds, msgs, quant, quantizer>>
    BY <1>8 DEF HeadReady
  <2> QED BY <2>1, QuantizeOnceKept DEF QuantizeOnce
<1>9. ASSUME ExecAborted PROVE QuantizeOnce'
  <2>1. UNCHANGED <<cmds, msgs, quant, quantizer>>
    BY <1>9 DEF ExecAborted
  <2> QED BY <2>1, QuantizeOnceKept DEF QuantizeOnce
<1>10. ASSUME NEW u \in SUBSET Hosts, StopJob(u) PROVE QuantizeOnce'
  <2>1. Command("stop") /\ cmds' = Tail(cmds)
    BY <1>10 DEF StopJob
  <2>2. /\ Carries(cmds', {"quantize"}) => Carries(cmds, {"quantize"})
        /\ Once(cmds, {"quantize"}) => Once(cmds', {"quantize"})
    BY <2>1, TookFacts
  <2>3. PICK r \in Reports : /\ r.stage = "train" /\ r.whole = TRUE
                             /\ msgs' = ToManager(r)
    BY <1>10, ReportFacts DEF StopJob
  <2>4. /\ Carries(msgs', QuantizeReports) => Carries(msgs, QuantizeReports)
        /\ Once(msgs, QuantizeReports) => Once(msgs', QuantizeReports)
    BY <2>3, ToldFacts DEF QuantizeReports
  <2>5. UNCHANGED <<quant, quantizer>>
    BY <1>10 DEF StopJob
  <2> QED BY <2>1, <2>2, <2>3, <2>4, <2>5, QuantizeOnceKept DEF QuantizeOnce
<1>11. ASSUME NEW ok \in BOOLEAN, Start(ok) PROVE QuantizeOnce'
  <2>1. Command("start") /\ cmds' = Tail(cmds)
    BY <1>11 DEF Start
  <2>2. /\ Carries(cmds', {"quantize"}) => Carries(cmds, {"quantize"})
        /\ Once(cmds, {"quantize"}) => Once(cmds', {"quantize"})
    BY <2>1, TookFacts
  <2>3. PICK r \in Reports : /\ r.stage = "train" /\ r.whole = TRUE
                             /\ msgs' = ToManager(r) \/ msgs' = msgs
    BY <1>11, ReportFacts DEF Start
  <2>4. /\ Carries(msgs', QuantizeReports) => Carries(msgs, QuantizeReports)
        /\ Once(msgs, QuantizeReports) => Once(msgs', QuantizeReports)
    BY <2>3, ToldFacts DEF QuantizeReports
  <2>5. UNCHANGED <<quant, quantizer>>
    BY <1>11 DEF Start
  <2> QED BY <2>1, <2>2, <2>3, <2>4, <2>5, QuantizeOnceKept DEF QuantizeOnce
<1>12. ASSUME NEW ok \in BOOLEAN, MergeStart(ok) PROVE QuantizeOnce'
  <2>1. Command("merge") /\ cmds' = Tail(cmds)
    BY <1>12 DEF MergeStart
  <2>2. /\ Carries(cmds', {"quantize"}) => Carries(cmds, {"quantize"})
        /\ Once(cmds, {"quantize"}) => Once(cmds', {"quantize"})
    BY <2>1, TookFacts
  <2>3. PICK r \in Reports : /\ r.stage = "merge" /\ r.whole = TRUE
                             /\ msgs' = ToManager(r) \/ msgs' = msgs
    BY <1>12, ReportFacts DEF MergeStart
  <2>4. /\ Carries(msgs', QuantizeReports) => Carries(msgs, QuantizeReports)
        /\ Once(msgs, QuantizeReports) => Once(msgs', QuantizeReports)
    BY <2>3, ToldFacts DEF QuantizeReports
  <2>5. UNCHANGED <<quant, quantizer>>
    BY <1>12 DEF MergeStart
  <2> QED BY <2>1, <2>2, <2>3, <2>4, <2>5, QuantizeOnceKept DEF QuantizeOnce
<1>13. ASSUME NEW ok \in BOOLEAN, QuantizeStart(ok) PROVE QuantizeOnce'
  <2>1. Command("quantize") /\ cmds' = Tail(cmds)
    BY <1>13 DEF QuantizeStart
  <2>2. /\ Carries(cmds', {"quantize"}) => Carries(cmds, {"quantize"})
        /\ Once(cmds, {"quantize"}) => Once(cmds', {"quantize"})
        /\ Carries(cmds, {"quantize"})
        /\ Once(cmds, {"quantize"}) => ~Carries(cmds', {"quantize"})
    BY <2>1, TookFacts
  <2>3. PICK r \in Reports : /\ r.stage = "quantize" /\ r.whole = TRUE
                             /\ msgs' = ToManager(r) \/ msgs' = msgs
    BY <1>13, ReportFacts DEF QuantizeStart
  <2>4. Once(msgs, QuantizeReports) /\ ~Carries(msgs, QuantizeReports) => Once(msgs', QuantizeReports)
    BY <2>3, ToldOnce
  <2>5. /\ UNCHANGED quant /\ quantizer' \in {"none", "tracked"}
        /\ quantizer' # "none" => msgs' = msgs
    BY <1>13 DEF QuantizeStart
  <2> QED BY <2>1, <2>2, <2>3, <2>4, <2>5 DEF QuantizeOnce
<1>14. ASSUME Serve PROVE QuantizeOnce'
  <2>1. Command("deploy") /\ cmds' = Tail(cmds)
    BY <1>14 DEF Serve
  <2>2. /\ Carries(cmds', {"quantize"}) => Carries(cmds, {"quantize"})
        /\ Once(cmds, {"quantize"}) => Once(cmds', {"quantize"})
    BY <2>1, TookFacts
  <2>3. UNCHANGED <<msgs, quant, quantizer>>
    BY <1>14 DEF Serve
  <2> QED BY <2>1, <2>2, <2>3, QuantizeOnceKept DEF QuantizeOnce
<1>15. ASSUME NEW ok \in BOOLEAN, MergeExit(ok) PROVE QuantizeOnce'
  <2>1. PICK r \in Reports : /\ r.stage = "merge" /\ r.whole = TRUE
                             /\ msgs' = ToManager(r)
    BY <1>15, ReportFacts DEF MergeExit
  <2>2. /\ Carries(msgs', QuantizeReports) => Carries(msgs, QuantizeReports)
        /\ Once(msgs, QuantizeReports) => Once(msgs', QuantizeReports)
    BY <2>1, ToldFacts DEF QuantizeReports
  <2>3. UNCHANGED <<cmds, quant, quantizer>>
    BY <1>15 DEF MergeExit
  <2> QED BY <2>1, <2>2, <2>3, QuantizeOnceKept DEF QuantizeOnce
<1>16. ASSUME NEW ok \in BOOLEAN, QuantizeExit(ok) PROVE QuantizeOnce'
  <2>1. PICK r \in Reports : /\ r.stage = "quantize" /\ r.whole = TRUE
                             /\ msgs' = ToManager(r)
    BY <1>16, ReportFacts DEF QuantizeExit
  <2>2. Once(msgs, QuantizeReports) /\ ~Carries(msgs, QuantizeReports) => Once(msgs', QuantizeReports)
    BY <2>1, ToldOnce
  <2>3. UNCHANGED <<cmds, quant>> /\ quantizer # "none" /\ quantizer' = "none"
    BY <1>16 DEF QuantizeExit
  <2> QED BY <2>1, <2>2, <2>3 DEF QuantizeOnce
<1>17. ASSUME NEW ok \in BOOLEAN, OrphanMergeEnds(ok) PROVE QuantizeOnce'
  <2>1. PICK r \in Reports : /\ r.stage = "merge" /\ r.whole = FALSE
                             /\ msgs' = ToManager(r) \/ msgs' = msgs
    BY <1>17, ReportFacts DEF OrphanMergeEnds
  <2>2. /\ Carries(msgs', QuantizeReports) => Carries(msgs, QuantizeReports)
        /\ Once(msgs, QuantizeReports) => Once(msgs', QuantizeReports)
    BY <2>1, ToldFacts DEF QuantizeReports
  <2>3. UNCHANGED <<cmds, quant, quantizer>>
    BY <1>17 DEF OrphanMergeEnds
  <2> QED BY <2>1, <2>2, <2>3, QuantizeOnceKept DEF QuantizeOnce
<1>18. ASSUME NEW ok \in BOOLEAN, OrphanQuantizeEnds(ok) PROVE QuantizeOnce'
  <2>1. UNCHANGED <<cmds, msgs, quant>> /\ quantizer' = "none"
    BY <1>18 DEF OrphanQuantizeEnds
  <2> QED BY <2>1, QuantizeOnceKept DEF QuantizeOnce
<1>19. ASSUME TailTraining PROVE QuantizeOnce'
  <2>1. PICK r \in Reports : /\ r.stage = "train" /\ r.whole = FALSE
                             /\ msgs' = ToManager(r)
    BY <1>19, ReportFacts DEF TailTraining, ExitResult
  <2>2. /\ Carries(msgs', QuantizeReports) => Carries(msgs, QuantizeReports)
        /\ Once(msgs, QuantizeReports) => Once(msgs', QuantizeReports)
    BY <2>1, ToldFacts DEF QuantizeReports
  <2>3. UNCHANGED <<cmds, quant, quantizer>>
    BY <1>19 DEF TailTraining
  <2> QED BY <2>1, <2>2, <2>3, QuantizeOnceKept DEF QuantizeOnce
<1>20. ASSUME CreateSend PROVE QuantizeOnce'
  <2>1. /\ Carries(cmds', {"quantize"}) => Carries(cmds, {"quantize"})
        /\ Once(cmds, {"quantize"}) => Once(cmds', {"quantize"})
    BY <1>20, SentFacts DEF CreateSend, Commands
  <2>2. UNCHANGED <<msgs, quant, quantizer>>
    BY <1>20 DEF CreateSend
  <2> QED BY <2>1, <2>2, QuantizeOnceKept DEF QuantizeOnce
<1>21. ASSUME HandleReport PROVE QuantizeOnce'
  <2>1. UNCHANGED <<cmds, quantizer>> /\ msgs # <<>> /\ msgs' = Tail(msgs)
    BY <1>21 DEF HandleReport
  <2>2. /\ Carries(msgs', QuantizeReports) => Carries(msgs, QuantizeReports)
        /\ Head(msgs) \in QuantizeReports => Carries(msgs, QuantizeReports)
        /\ Once(msgs, QuantizeReports) => Once(msgs', QuantizeReports)
        /\ Once(msgs, QuantizeReports) /\ Head(msgs) \in QuantizeReports
             => ~Carries(msgs', QuantizeReports)
    BY <2>1, HeardFacts
  <2>3. Head(msgs) \in Reports
    BY <2>1, Taken DEF TypeOK, NetTypeOK
  <2>4. quant' = quant \/ Head(msgs) \in QuantizeReports
    BY <1>21, <2>3 DEF HandleReport, QuantizeReports
  <2> QED BY <2>1, <2>2, <2>4 DEF QuantizeOnce
<1>22. ASSUME DeployRefused PROVE QuantizeOnce'
  <2>1. UNCHANGED <<cmds, msgs, quant, quantizer>>
    BY <1>22 DEF DeployRefused
  <2> QED BY <2>1, QuantizeOnceKept DEF QuantizeOnce
<1>23. ASSUME DeployUpsert PROVE QuantizeOnce'
  <2>1. UNCHANGED <<cmds, msgs, quant, quantizer>>
    BY <1>23 DEF DeployUpsert
  <2> QED BY <2>1, QuantizeOnceKept DEF QuantizeOnce
<1>24. ASSUME DeployCreate PROVE QuantizeOnce'
  <2>1. UNCHANGED <<cmds, msgs, quant, quantizer>>
    BY <1>24 DEF DeployCreate
  <2> QED BY <2>1, QuantizeOnceKept DEF QuantizeOnce
<1>25. ASSUME NEW c \in BOOLEAN, DeleteSweep(c) PROVE QuantizeOnce'
  <2>1. /\ Carries(cmds', {"quantize"}) => Carries(cmds, {"quantize"})
        /\ Once(cmds, {"quantize"}) => Once(cmds', {"quantize"})
    <3>1. CASE cmds' = ToAgent("stop") BY <3>1, SentFacts DEF Commands
    <3>2. CASE cmds' = cmds BY <3>2
    <3> QED BY <1>25, <3>1, <3>2 DEF DeleteSweep
  <2>2. UNCHANGED <<msgs, quant, quantizer>>
    BY <1>25 DEF DeleteSweep
  <2> QED BY <2>1, <2>2, QuantizeOnceKept DEF QuantizeOnce
<1>26. ASSUME DeleteRow PROVE QuantizeOnce'
  <2>1. UNCHANGED <<cmds, msgs, quant, quantizer>>
    BY <1>26 DEF DeleteRow
  <2> QED BY <2>1, QuantizeOnceKept DEF QuantizeOnce
<1>27. ASSUME Create PROVE QuantizeOnce'
  <2>1. UNCHANGED <<cmds, msgs, quant, quantizer>>
    BY <1>27 DEF Create
  <2> QED BY <2>1, QuantizeOnceKept DEF QuantizeOnce
<1>28. ASSUME Stop PROVE QuantizeOnce'
  <2>1. /\ Carries(cmds', {"quantize"}) => Carries(cmds, {"quantize"})
        /\ Once(cmds, {"quantize"}) => Once(cmds', {"quantize"})
    BY <1>28, SentFacts DEF Stop, Commands
  <2>2. UNCHANGED <<msgs, quant, quantizer>>
    BY <1>28 DEF Stop
  <2> QED BY <2>1, <2>2, QuantizeOnceKept DEF QuantizeOnce
<1>29. ASSUME Merge PROVE QuantizeOnce'
  <2>1. /\ Carries(cmds', {"quantize"}) => Carries(cmds, {"quantize"})
        /\ Once(cmds, {"quantize"}) => Once(cmds', {"quantize"})
    BY <1>29, SentFacts DEF Merge, Commands
  <2>2. UNCHANGED <<msgs, quant, quantizer>>
    BY <1>29 DEF Merge
  <2> QED BY <2>1, <2>2, QuantizeOnceKept DEF QuantizeOnce
<1>30. ASSUME Quantize PROVE QuantizeOnce'
  <2>1. /\ quant # "quantizing" /\ quant' = "quantizing" /\ UNCHANGED <<quantizer, msgs>>
        /\ cmds' = ToAgent("quantize")
    BY <1>30 DEF Quantize
  <2>2. /\ ~Carries(cmds, {"quantize"}) /\ quantizer = "none" /\ ~Carries(msgs, QuantizeReports)
        /\ Once(cmds, {"quantize"}) /\ Once(msgs, QuantizeReports)
    BY <2>1 DEF QuantizeOnce
  <2>3. Once(cmds', {"quantize"})
    <3>1. cmds \in Seq(Commands) BY DEF TypeOK, NetTypeOK
    <3>2. CASE link
      BY <2>1, <2>2, <3>1, <3>2, OnceAppended DEF ToAgent, Commands
    <3>3. CASE ~link BY <2>1, <2>2, <3>3 DEF ToAgent
    <3> QED BY <3>2, <3>3
  <2> QED BY <2>1, <2>2, <2>3 DEF QuantizeOnce
<1>31. ASSUME DeployCheck PROVE QuantizeOnce'
  <2>1. UNCHANGED <<cmds, msgs, quant, quantizer>>
    BY <1>31 DEF DeployCheck
  <2> QED BY <2>1, QuantizeOnceKept DEF QuantizeOnce
<1>32. ASSUME DeleteCheck PROVE QuantizeOnce'
  <2>1. UNCHANGED <<cmds, msgs, quant, quantizer>>
    BY <1>32 DEF DeleteCheck
  <2> QED BY <2>1, QuantizeOnceKept DEF QuantizeOnce
<1>33. ASSUME NEW n \in Names, Rename(n) PROVE QuantizeOnce'
  <2>1. UNCHANGED <<cmds, msgs, quant, quantizer>>
    BY <1>33 DEF Rename
  <2> QED BY <2>1, QuantizeOnceKept DEF QuantizeOnce
<1>34. ASSUME AgentRestart PROVE QuantizeOnce'
  <2>1. Once(cmds', {"quantize"}) /\ ~Carries(cmds', {"quantize"})
    BY <1>34, OnceEmpty DEF AgentRestart
  <2>2. UNCHANGED <<msgs, quant>> /\ (quantizer' # "none" => quantizer # "none")
    BY <1>34 DEF AgentRestart
  <2> QED BY <2>1, <2>2, QuantizeOnceKept DEF QuantizeOnce
<1>35. ASSUME Drop PROVE QuantizeOnce'
  <2>1. Once(cmds', {"quantize"}) /\ ~Carries(cmds', {"quantize"})
    BY <1>35, OnceEmpty DEF Drop
  <2>2. Once(msgs', QuantizeReports) /\ ~Carries(msgs', QuantizeReports)
    BY <1>35, OnceEmpty DEF Drop
  <2>3. UNCHANGED <<quant, quantizer>>
    BY <1>35 DEF Drop
  <2> QED BY <2>1, <2>2, <2>3, QuantizeOnceKept DEF QuantizeOnce
<1>36. ASSUME DeploymentEnds PROVE QuantizeOnce'
  <2>1. UNCHANGED <<cmds, msgs, quant, quantizer>>
    BY <1>36 DEF DeploymentEnds
  <2> QED BY <2>1, QuantizeOnceKept DEF QuantizeOnce
<1>37. ASSUME NEW ok \in BOOLEAN, TrainingEnds(ok) PROVE QuantizeOnce'
  <2>1. UNCHANGED <<cmds, msgs, quant, quantizer>>
    BY <1>37 DEF TrainingEnds
  <2> QED BY <2>1, QuantizeOnceKept DEF QuantizeOnce
<1>38. ASSUME NEW w \in Workers, WorkerDies(w) PROVE QuantizeOnce'
  <2>1. UNCHANGED <<cmds, msgs, quant, quantizer>>
    BY <1>38 DEF WorkerDies
  <2> QED BY <2>1, QuantizeOnceKept DEF QuantizeOnce
<1>39. ASSUME Reconnect PROVE QuantizeOnce'
  <2>1. UNCHANGED <<cmds, msgs, quant, quantizer>>
    BY <1>39 DEF Reconnect
  <2> QED BY <2>1, QuantizeOnceKept DEF QuantizeOnce
<1>40. ASSUME UNCHANGED vars PROVE QuantizeOnce'
  BY <1>40 DEF vars, QuantizeOnce
<1>41. ASSUME NEW u \in SUBSET Hosts, HeadStopped(u) PROVE QuantizeOnce'
  <2>1. UNCHANGED <<cmds, msgs, quant, quantizer>>
    BY <1>41 DEF HeadStopped
  <2> QED BY <2>1, QuantizeOnceKept DEF QuantizeOnce
<1>42. ASSUME DeploySend PROVE QuantizeOnce'
  <2>1. /\ Carries(cmds', {"quantize"}) => Carries(cmds, {"quantize"})
        /\ Once(cmds, {"quantize"}) => Once(cmds', {"quantize"})
    <3>1. CASE cmds' = ToAgent("deploy") BY <3>1, SentFacts DEF Commands
    <3>2. CASE cmds' = cmds BY <3>2
    <3> QED BY <1>42, <3>1, <3>2 DEF DeploySend
  <2>2. UNCHANGED <<msgs, quant, quantizer>>
    BY <1>42 DEF DeploySend
  <2> QED BY <2>1, <2>2, QuantizeOnceKept DEF QuantizeOnce
<1>43. ASSUME RestartCheck PROVE QuantizeOnce'
  <2>1. UNCHANGED <<cmds, msgs, quant, quantizer>>
    BY <1>43 DEF RestartCheck
  <2> QED BY <2>1, QuantizeOnceKept DEF QuantizeOnce
<1>44. ASSUME RestartRefused PROVE QuantizeOnce'
  <2>1. UNCHANGED <<cmds, msgs, quant, quantizer>>
    BY <1>44 DEF RestartRefused
  <2> QED BY <2>1, QuantizeOnceKept DEF QuantizeOnce
<1>45. ASSUME RestartSend PROVE QuantizeOnce'
  <2>1. /\ Carries(cmds', {"quantize"}) => Carries(cmds, {"quantize"})
        /\ Once(cmds, {"quantize"}) => Once(cmds', {"quantize"})
    BY <1>45, SentFacts DEF RestartSend, Commands
  <2>2. UNCHANGED <<msgs, quant, quantizer>>
    BY <1>45 DEF RestartSend
  <2> QED BY <2>1, <2>2, QuantizeOnceKept DEF QuantizeOnce
<1>46. ASSUME DeploymentDown PROVE QuantizeOnce'
  <2>1. UNCHANGED <<cmds, msgs, quant, quantizer>>
    BY <1>46 DEF DeploymentDown
  <2> QED BY <2>1, QuantizeOnceKept DEF QuantizeOnce
<1>47. ASSUME DeploymentUp PROVE QuantizeOnce'
  <2>1. UNCHANGED <<cmds, msgs, quant, quantizer>>
    BY <1>47 DEF DeploymentUp
  <2> QED BY <2>1, QuantizeOnceKept DEF QuantizeOnce
<1> QED
  BY <1>1, <1>2, <1>3, <1>4, <1>5, <1>6, <1>7, <1>8, <1>9, <1>10, <1>11, <1>12,
     <1>13, <1>14, <1>15, <1>16, <1>17, <1>18, <1>19, <1>20, <1>21, <1>22,
     <1>23, <1>24, <1>25, <1>26, <1>27, <1>28, <1>29, <1>30, <1>31, <1>32,
     <1>33, <1>34, <1>35, <1>36, <1>37, <1>38, <1>39, <1>40, <1>41, <1>42,
     <1>43, <1>44, <1>45, <1>46, <1>47 DEF Next, TrainStep, CommandStep,
     MergeStep, QuantizeStep, OrphanStep, ManagerStep, OperatorStep, Event


-----------------------------------------------------------------------------
(* Stages in order.                                                        *)

Stages == {"train", "merge", "quantize"}

\* The reports that a stage has succeeded.
Success(stage) ==
  {r \in Reports : r.stage = stage /\ r.result = "completed" /\ r.whole}

\* Something reads the merged directory, or is going to.
Downstream ==
  \/ quantizer # "none" \/ serving \/ deploying # Idle
  \/ dep # "none" \/ restarting
  \/ Carries(cmds, {"quantize"}) \/ Carries(cmds, {"deploy"})

\* What the rows, the reports and the stages at work take for granted.
AdapterDue ==
  \/ status = "completed" \/ head = "done" \/ merger # "none"
  \/ Carries(cmds, {"merge"}) \/ Carries(msgs, Success("train"))

MergedDue == merge = "completed" \/ Carries(msgs, Success("merge"))

Fp8Due == quant = "quantized" \/ Carries(msgs, Success("quantize"))

\* The inductive invariant behind StagesInOrder, beside MergeOnce and
\* QuantizeOnce.
FilesInv ==
  /\ Downstream => merge = "completed"
  /\ ~erased => /\ AdapterDue => "adapter" \in files
                /\ MergedDue => "merged" \in files
                /\ Fp8Due => "fp8" \in files

\* No stage begins or ends, and no artifact goes.
Quiet ==
  /\ status' = "completed" => status = "completed"
  /\ head' = "done" => head = "done"
  /\ merger' # "none" => merger # "none"
  /\ quantizer' # "none" => quantizer # "none"
  /\ serving' => serving
  /\ deploying' # Idle => deploying # Idle
  /\ dep' # "none" => dep # "none"
  /\ restarting' => restarting
  /\ UNCHANGED <<merge, quant, erased>>
  /\ files \subseteq files'

CommandsQuiet ==
  \A c \in {"merge", "quantize", "deploy"} :
    Carries(cmds', {c}) => Carries(cmds, {c})

ReportsQuiet ==
  \A s \in Stages : Carries(msgs', Success(s)) => Carries(msgs, Success(s))

\* Quiet steps keep FilesInv.
LEMMA FilesQuiet ==
  ASSUME FilesInv, Quiet, CommandsQuiet, ReportsQuiet
  PROVE  FilesInv'
<1>1. Downstream' => Downstream BY DEF Downstream, Quiet, CommandsQuiet
<1>2. AdapterDue' => AdapterDue
  BY DEF AdapterDue, Quiet, CommandsQuiet, ReportsQuiet, Stages
<1>3. MergedDue' => MergedDue BY DEF MergedDue, Quiet, ReportsQuiet, Stages
<1>4. Fp8Due' => Fp8Due BY DEF Fp8Due, Quiet, ReportsQuiet, Stages
<1> QED BY <1>1, <1>2, <1>3, <1>4 DEF FilesInv, Quiet

\* Taking a command sends none.
LEMMA QuietTaken ==
  ASSUME TypeOK, NEW x, Command(x), cmds' = Tail(cmds)
  PROVE  CommandsQuiet
BY TookFacts DEF CommandsQuiet

\* Starting or stopping the training asks for no other stage.
LEMMA QuietSent ==
  ASSUME TypeOK, NEW x \in {"start", "stop"}, cmds' = ToAgent(x)
  PROVE  CommandsQuiet
BY SentFacts DEF CommandsQuiet, Commands

\* An empty queue asks for nothing and reports nothing.
LEMMA QuietEmpty ==
  /\ cmds' = <<>> => CommandsQuiet
  /\ msgs' = <<>> => ReportsQuiet
BY OnceEmpty DEF CommandsQuiet, ReportsQuiet

\* A report that is not of a success tells of none.
LEMMA QuietTold ==
  ASSUME TypeOK, NEW r \in Reports, msgs' = ToManager(r), NEW s,
         ~(r.stage = s /\ r.result = "completed" /\ r.whole)
  PROVE  Carries(msgs', Success(s)) => Carries(msgs, Success(s))
BY ToldFacts DEF Success

\* A report that is no success.
LEMMA QuietFailure ==
  ASSUME TypeOK, NEW stage \in Stages,
         NEW result \in {"completed", "failed", "stopped"}, NEW whole \in BOOLEAN,
         result = "stopped" => stage = "train", ~(result = "completed" /\ whole),
         msgs' = ToManager(Report(stage, result, whole))
  PROVE  ReportsQuiet
<1>1. PICK r \in Reports : /\ r = Report(stage, result, whole)
                           /\ r.result = result /\ r.whole = whole
  BY ReportFacts DEF Stages
<1>2. msgs' = ToManager(r) BY <1>1
<1>3. ~(r.result = "completed" /\ r.whole) BY <1>1
<1> QED BY <1>2, <1>3, QuietTold DEF ReportsQuiet

\* A finished merge is not begun again by a patient operator, and a report about
\* it is not outstanding.
LEMMA MergeStays ==
  ASSUME Patient, TypeOK, MergeOnce, [Next]_vars, merge = "completed"
  PROVE  merge' = "completed"
<1>1. ASSUME NEW u \in SUBSET Hosts, RunHead(u) PROVE merge' = "completed"
  BY <1>1 DEF RunHead
<1>2. ASSUME NEW u \in SUBSET Hosts, BuildFails(u) PROVE merge' = "completed"
  BY <1>2 DEF BuildFails, LaunchFails
<1>3. ASSUME NEW u \in SUBSET Hosts, ReadyFails(u) PROVE merge' = "completed"
  BY <1>3 DEF ReadyFails, LaunchFails
<1>4. ASSUME NEW u \in SUBSET Hosts, WorkerFails(u) PROVE merge' = "completed"
  BY <1>4 DEF WorkerFails, LaunchFails
<1>5. ASSUME NEW u \in SUBSET Hosts, ExecExit(u) PROVE merge' = "completed"
  BY <1>5 DEF ExecExit
<1>6. ASSUME NEW u \in SUBSET Hosts, Watchdog(u) PROVE merge' = "completed"
  BY <1>6 DEF Watchdog
<1>7. ASSUME NEW w \in Workers, WorkerReady(w) PROVE merge' = "completed"
  BY <1>7 DEF WorkerReady
<1>8. ASSUME HeadReady PROVE merge' = "completed"
  BY <1>8 DEF HeadReady
<1>9. ASSUME ExecAborted PROVE merge' = "completed"
  BY <1>9 DEF ExecAborted
<1>10. ASSUME NEW u \in SUBSET Hosts, StopJob(u) PROVE merge' = "completed"
  BY <1>10 DEF StopJob
<1>11. ASSUME NEW ok \in BOOLEAN, Start(ok) PROVE merge' = "completed"
  BY <1>11 DEF Start
<1>12. ASSUME NEW ok \in BOOLEAN, MergeStart(ok) PROVE merge' = "completed"
  BY <1>12 DEF MergeStart
<1>13. ASSUME NEW ok \in BOOLEAN, QuantizeStart(ok) PROVE merge' = "completed"
  BY <1>13 DEF QuantizeStart
<1>14. ASSUME Serve PROVE merge' = "completed"
  BY <1>14 DEF Serve
<1>15. ASSUME NEW ok \in BOOLEAN, MergeExit(ok) PROVE merge' = "completed"
  BY <1>15 DEF MergeExit
<1>16. ASSUME NEW ok \in BOOLEAN, QuantizeExit(ok) PROVE merge' = "completed"
  BY <1>16 DEF QuantizeExit
<1>17. ASSUME NEW ok \in BOOLEAN, OrphanMergeEnds(ok) PROVE merge' = "completed"
  BY <1>17 DEF OrphanMergeEnds
<1>18. ASSUME NEW ok \in BOOLEAN, OrphanQuantizeEnds(ok)
       PROVE  merge' = "completed"
  BY <1>18 DEF OrphanQuantizeEnds
<1>19. ASSUME TailTraining PROVE merge' = "completed"
  BY <1>19 DEF TailTraining
<1>20. ASSUME CreateSend PROVE merge' = "completed"
  BY <1>20 DEF CreateSend
<1>21. ASSUME HandleReport PROVE merge' = "completed"
  <2>1. msgs # <<>> /\ msgs' = Tail(msgs) BY <1>21 DEF HandleReport
  <2>2. Head(msgs) \in Reports BY <2>1, Taken DEF TypeOK, NetTypeOK
  <2>3. Head(msgs) \notin MergeReports BY <2>1, HeardFacts DEF MergeOnce
  <2> QED BY <1>21, <2>2, <2>3 DEF HandleReport, MergeReports
<1>22. ASSUME DeployRefused PROVE merge' = "completed"
  BY <1>22 DEF DeployRefused
<1>23. ASSUME DeployUpsert PROVE merge' = "completed"
  BY <1>23 DEF DeployUpsert
<1>24. ASSUME DeployCreate PROVE merge' = "completed"
  BY <1>24 DEF DeployCreate
<1>25. ASSUME NEW c \in BOOLEAN, DeleteSweep(c) PROVE merge' = "completed"
  BY <1>25 DEF DeleteSweep
<1>26. ASSUME DeleteRow PROVE merge' = "completed"
  BY <1>26 DEF DeleteRow
<1>27. ASSUME Create PROVE merge' = "completed"
  BY <1>27 DEF Create
<1>28. ASSUME Stop PROVE merge' = "completed"
  BY <1>28 DEF Stop
<1>29. ASSUME Merge PROVE merge' = "completed"
  BY <1>29 DEF Merge
<1>30. ASSUME Quantize PROVE merge' = "completed"
  BY <1>30 DEF Quantize
<1>31. ASSUME DeployCheck PROVE merge' = "completed"
  BY <1>31 DEF DeployCheck
<1>32. ASSUME DeleteCheck PROVE merge' = "completed"
  BY <1>32 DEF DeleteCheck
<1>33. ASSUME NEW n \in Names, Rename(n) PROVE merge' = "completed"
  BY <1>33 DEF Rename
<1>34. ASSUME AgentRestart PROVE merge' = "completed"
  BY <1>34 DEF AgentRestart
<1>35. ASSUME Drop PROVE merge' = "completed"
  BY <1>35 DEF Drop
<1>36. ASSUME DeploymentEnds PROVE merge' = "completed"
  BY <1>36 DEF DeploymentEnds
<1>37. ASSUME NEW ok \in BOOLEAN, TrainingEnds(ok) PROVE merge' = "completed"
  BY <1>37 DEF TrainingEnds
<1>38. ASSUME NEW w \in Workers, WorkerDies(w) PROVE merge' = "completed"
  BY <1>38 DEF WorkerDies
<1>39. ASSUME Reconnect PROVE merge' = "completed"
  BY <1>39 DEF Reconnect
<1>40. ASSUME UNCHANGED vars PROVE merge' = "completed"
  BY <1>40 DEF vars
<1>41. ASSUME NEW u \in SUBSET Hosts, HeadStopped(u) PROVE merge' = "completed"
  BY <1>41 DEF HeadStopped
<1>42. ASSUME DeploySend PROVE merge' = "completed"
  BY <1>42 DEF DeploySend
<1>43. ASSUME RestartCheck PROVE merge' = "completed"
  BY <1>43 DEF RestartCheck
<1>44. ASSUME RestartRefused PROVE merge' = "completed"
  BY <1>44 DEF RestartRefused
<1>45. ASSUME RestartSend PROVE merge' = "completed"
  BY <1>45 DEF RestartSend
<1>46. ASSUME DeploymentDown PROVE merge' = "completed"
  BY <1>46 DEF DeploymentDown
<1>47. ASSUME DeploymentUp PROVE merge' = "completed"
  BY <1>47 DEF DeploymentUp
<1> QED
  BY <1>1, <1>2, <1>3, <1>4, <1>5, <1>6, <1>7, <1>8, <1>9, <1>10, <1>11, <1>12,
     <1>13, <1>14, <1>15, <1>16, <1>17, <1>18, <1>19, <1>20, <1>21, <1>22,
     <1>23, <1>24, <1>25, <1>26, <1>27, <1>28, <1>29, <1>30, <1>31, <1>32,
     <1>33, <1>34, <1>35, <1>36, <1>37, <1>38, <1>39, <1>40, <1>41, <1>42,
     <1>43, <1>44, <1>45, <1>46, <1>47 DEF Next, TrainStep, CommandStep,
     MergeStep, QuantizeStep, OrphanStep, ManagerStep, OperatorStep, Event

\* Every step of a patient operator keeps FilesInv.
LEMMA FilesStep ==
  ASSUME Patient, TypeOK, MergeOnce, QuantizeOnce, FilesInv, [Next]_vars
  PROVE  FilesInv'
<1>0. merge = "completed" => merge' = "completed" BY MergeStays
<1>1. ASSUME NEW u \in SUBSET Hosts, RunHead(u) PROVE FilesInv'
  <2>1. Quiet BY <1>1 DEF RunHead, Cleanup, HeadLeft, Quiet
  <2>2. CommandsQuiet
    BY <1>1 DEF RunHead, CommandsQuiet
  <2>3. ReportsQuiet
    BY <1>1 DEF RunHead, ReportsQuiet
  <2> QED BY <2>1, <2>2, <2>3, FilesQuiet
<1>2. ASSUME NEW u \in SUBSET Hosts, BuildFails(u) PROVE FilesInv'
  <2>1. Quiet BY <1>2 DEF BuildFails, LaunchFails, Cleanup, HeadLeft, Quiet
  <2>2. CommandsQuiet
    BY <1>2 DEF BuildFails, LaunchFails, CommandsQuiet
  <2>3. ReportsQuiet
    BY <1>2, QuietFailure DEF BuildFails, LaunchFails, Stages
  <2> QED BY <2>1, <2>2, <2>3, FilesQuiet
<1>3. ASSUME NEW u \in SUBSET Hosts, ReadyFails(u) PROVE FilesInv'
  <2>1. Quiet BY <1>3 DEF ReadyFails, LaunchFails, Cleanup, HeadLeft, Quiet
  <2>2. CommandsQuiet
    BY <1>3 DEF ReadyFails, LaunchFails, CommandsQuiet
  <2>3. ReportsQuiet
    BY <1>3, QuietFailure DEF ReadyFails, LaunchFails, Stages
  <2> QED BY <2>1, <2>2, <2>3, FilesQuiet
<1>4. ASSUME NEW u \in SUBSET Hosts, WorkerFails(u) PROVE FilesInv'
  <2>1. Quiet BY <1>4 DEF WorkerFails, LaunchFails, Cleanup, HeadLeft, Quiet
  <2>2. CommandsQuiet
    BY <1>4 DEF WorkerFails, LaunchFails, CommandsQuiet
  <2>3. ReportsQuiet
    BY <1>4, QuietFailure DEF WorkerFails, LaunchFails, Stages
  <2> QED BY <2>1, <2>2, <2>3, FilesQuiet
<1>5. ASSUME NEW u \in SUBSET Hosts, ExecExit(u) PROVE FilesInv'
  <2>1. Quiet BY <1>5 DEF ExecExit, Cleanup, HeadLeft, Quiet
  <2>2. CommandsQuiet BY <1>5 DEF ExecExit, CommandsQuiet
  <2>3. PICK r \in Reports : /\ r.stage = "train" /\ msgs' = ToManager(r)
                             /\ r.result = "completed" => head = "done"
    BY <1>5, ReportFacts DEF ExecExit, ExitResult
  <2>4. CASE head = "done"
    <3>1. /\ Carries(msgs', Success("merge")) => Carries(msgs, Success("merge"))
          /\ Carries(msgs', Success("quantize"))
               => Carries(msgs, Success("quantize"))
      BY <2>3, QuietTold
    <3>2. AdapterDue BY <2>4 DEF AdapterDue
    <3>3. Downstream' => Downstream
      BY <2>1, <2>2 DEF Quiet, CommandsQuiet, Downstream
    <3>4. (MergedDue' => MergedDue) /\ (Fp8Due' => Fp8Due)
      BY <2>1, <3>1 DEF Quiet, MergedDue, Fp8Due
    <3> QED BY <2>1, <3>2, <3>3, <3>4 DEF FilesInv, Quiet
  <2>5. CASE head # "done"
    <3>1. ReportsQuiet BY <2>3, <2>5, QuietTold DEF ReportsQuiet
    <3> QED BY <2>1, <2>2, <3>1, FilesQuiet
  <2> QED BY <2>4, <2>5
<1>6. ASSUME NEW u \in SUBSET Hosts, Watchdog(u) PROVE FilesInv'
  <2>1. Quiet BY <1>6 DEF Watchdog, Cleanup, HeadLeft, Quiet
  <2>2. CommandsQuiet
    BY <1>6 DEF Watchdog, CommandsQuiet
  <2>3. ReportsQuiet
    BY <1>6, QuietFailure DEF Watchdog, Stages
  <2> QED BY <2>1, <2>2, <2>3, FilesQuiet
<1>7. ASSUME NEW w \in Workers, WorkerReady(w) PROVE FilesInv'
  <2>1. Quiet BY <1>7 DEF WorkerReady, Proceed, Quiet
  <2>2. CommandsQuiet
    BY <1>7 DEF WorkerReady, CommandsQuiet
  <2>3. ReportsQuiet
    BY <1>7 DEF WorkerReady, ReportsQuiet
  <2> QED BY <2>1, <2>2, <2>3, FilesQuiet
<1>8. ASSUME HeadReady PROVE FilesInv'
  <2>1. Quiet BY <1>8 DEF HeadReady, Proceed, Quiet
  <2>2. CommandsQuiet
    BY <1>8 DEF HeadReady, CommandsQuiet
  <2>3. ReportsQuiet
    BY <1>8 DEF HeadReady, ReportsQuiet
  <2> QED BY <2>1, <2>2, <2>3, FilesQuiet
<1>9. ASSUME ExecAborted PROVE FilesInv'
  <2>1. Quiet BY <1>9 DEF ExecAborted, Quiet
  <2>2. CommandsQuiet
    BY <1>9 DEF ExecAborted, CommandsQuiet
  <2>3. ReportsQuiet
    BY <1>9 DEF ExecAborted, ReportsQuiet
  <2> QED BY <2>1, <2>2, <2>3, FilesQuiet
<1>10. ASSUME NEW u \in SUBSET Hosts, StopJob(u) PROVE FilesInv'
  <2>1. Quiet BY <1>10 DEF StopJob, Cleanup, HeadLeft, Quiet
  <2>2. CommandsQuiet
    BY <1>10, QuietTaken DEF StopJob
  <2>3. ReportsQuiet
    BY <1>10, QuietFailure DEF StopJob, Stages
  <2> QED BY <2>1, <2>2, <2>3, FilesQuiet
<1>11. ASSUME NEW ok \in BOOLEAN, Start(ok) PROVE FilesInv'
  <2>1. Quiet BY <1>11 DEF Start, Quiet
  <2>2. CommandsQuiet
    BY <1>11, QuietTaken DEF Start
  <2>3. ReportsQuiet
    <3>1. CASE msgs' = msgs BY <3>1 DEF ReportsQuiet
    <3>2. CASE msgs' # msgs BY <1>11, <3>2, QuietFailure DEF Start, Stages
    <3> QED BY <3>1, <3>2
  <2> QED BY <2>1, <2>2, <2>3, FilesQuiet
<1>12. ASSUME NEW ok \in BOOLEAN, MergeStart(ok) PROVE FilesInv'
  <2>1. /\ Command("merge") /\ cmds' = Tail(cmds) /\ files' = files \ {"merged"}
        /\ UNCHANGED <<status, head, merge, quant, quantizer, serving, deploying,
                       dep, restarting,
                       erased>>
    BY <1>12 DEF MergeStart
  <2>2. CommandsQuiet /\ Carries(cmds, {"merge"})
    BY <2>1, QuietTaken, TookFacts
  <2>3. ReportsQuiet
    <3>1. CASE msgs' = msgs BY <3>1 DEF ReportsQuiet
    <3>2. CASE msgs' # msgs BY <1>12, <3>2, QuietFailure DEF MergeStart, Stages
    <3> QED BY <3>1, <3>2
  <2>4. merge = "running" /\ ~Carries(msgs, MergeReports)
    BY <2>2 DEF MergeOnce
  <2>5. ~Carries(msgs, Success("merge"))
    BY <2>4 DEF Carries, Success, MergeReports
  <2>6. ~MergedDue'
    BY <2>1, <2>3, <2>4, <2>5 DEF MergedDue, ReportsQuiet, Stages
  <2>7. ~Downstream' BY <2>1, <2>2, <2>4 DEF FilesInv, Downstream, CommandsQuiet
  <2>8. AdapterDue BY <2>2 DEF AdapterDue
  <2>9. Fp8Due' => Fp8Due BY <2>1, <2>3 DEF Fp8Due, ReportsQuiet, Stages
  <2> QED BY <2>1, <2>6, <2>7, <2>8, <2>9 DEF FilesInv
<1>13. ASSUME NEW ok \in BOOLEAN, QuantizeStart(ok) PROVE FilesInv'
  <2>1. /\ Command("quantize") /\ cmds' = Tail(cmds) /\ files' = files \ {"fp8"}
        /\ UNCHANGED <<status, head, merge, quant, merger, serving, deploying,
                       dep, restarting,
                       erased>>
    BY <1>13 DEF QuantizeStart
  <2>2. CommandsQuiet /\ Carries(cmds, {"quantize"})
    BY <2>1, QuietTaken, TookFacts
  <2>3. ReportsQuiet
    <3>1. CASE msgs' = msgs BY <3>1 DEF ReportsQuiet
    <3>2. CASE msgs' # msgs
      BY <1>13, <3>2, QuietFailure DEF QuantizeStart, Stages
    <3> QED BY <3>1, <3>2
  <2>4. quant = "quantizing" /\ ~Carries(msgs, QuantizeReports)
    BY <2>2 DEF QuantizeOnce
  <2>5. ~Carries(msgs, Success("quantize"))
    BY <2>4 DEF Carries, Success, QuantizeReports
  <2>6. ~Fp8Due' BY <2>1, <2>3, <2>4, <2>5 DEF Fp8Due, ReportsQuiet, Stages
  <2>7. Downstream BY <2>2 DEF Downstream
  <2>8. AdapterDue' => AdapterDue
    BY <2>1, <2>2, <2>3 DEF AdapterDue, CommandsQuiet, ReportsQuiet, Stages
  <2>9. MergedDue' => MergedDue
    BY <2>1, <2>3 DEF MergedDue, ReportsQuiet, Stages
  <2> QED BY <2>1, <2>6, <2>7, <2>8, <2>9 DEF FilesInv
<1>14. ASSUME Serve PROVE FilesInv'
  <2>1. /\ Command("deploy") /\ cmds' = Tail(cmds)
        /\ UNCHANGED <<status, head, merge, quant, merger, quantizer, deploying,
                       dep, restarting,
                       msgs, files, erased>>
    BY <1>14 DEF Serve
  <2>2. CommandsQuiet /\ Carries(cmds, {"deploy"})
    BY <2>1, QuietTaken, TookFacts
  <2>3. Downstream BY <2>2 DEF Downstream
  <2>4. AdapterDue' => AdapterDue BY <2>1, <2>2 DEF AdapterDue, CommandsQuiet
  <2>5. (MergedDue' => MergedDue) /\ (Fp8Due' => Fp8Due)
    BY <2>1 DEF MergedDue, Fp8Due
  <2> QED BY <2>1, <2>3, <2>4, <2>5 DEF FilesInv
<1>15. ASSUME NEW ok \in BOOLEAN, MergeExit(ok) PROVE FilesInv'
  <2>1. /\ UNCHANGED <<status, head, merge, quant, quantizer, serving, deploying,
                       dep, restarting,
                       cmds, erased>>
        /\ merger' = "none" /\ merger # "none" /\ files \subseteq files'
        /\ ok => "merged" \in files'
    BY <1>15 DEF MergeExit
  <2>2. PICK r \in Reports : /\ r.stage = "merge" /\ msgs' = ToManager(r)
                             /\ r.result = "completed" => ok
    BY <1>15, ReportFacts DEF MergeExit
  <2>3. \A s \in Stages \ {"merge"} :
          Carries(msgs', Success(s)) => Carries(msgs, Success(s))
    BY <2>2, QuietTold
  <2>4. MergedDue' => MergedDue \/ ok
    <3>1. CASE ok BY <3>1
    <3>2. CASE ~ok
      <4>1. Carries(msgs', Success("merge")) => Carries(msgs, Success("merge"))
        BY <2>2, <3>2, QuietTold
      <4> QED BY <2>1, <4>1 DEF MergedDue
    <3> QED BY <3>1, <3>2
  <2>5. (AdapterDue' => AdapterDue) /\ (Fp8Due' => Fp8Due)
    BY <2>1, <2>3 DEF AdapterDue, Fp8Due, Stages
  <2>6. Downstream' => Downstream BY <2>1 DEF Downstream
  <2> QED BY <2>1, <2>4, <2>5, <2>6 DEF FilesInv
<1>16. ASSUME NEW ok \in BOOLEAN, QuantizeExit(ok) PROVE FilesInv'
  <2>1. /\ UNCHANGED <<status, head, merge, quant, merger, serving, deploying,
                       dep, restarting,
                       cmds, erased>>
        /\ quantizer' = "none" /\ quantizer # "none" /\ files \subseteq files'
        /\ ok => "fp8" \in files'
    BY <1>16 DEF QuantizeExit
  <2>2. PICK r \in Reports : /\ r.stage = "quantize" /\ msgs' = ToManager(r)
                             /\ r.result = "completed" => ok
    BY <1>16, ReportFacts DEF QuantizeExit
  <2>3. \A s \in Stages \ {"quantize"} :
          Carries(msgs', Success(s)) => Carries(msgs, Success(s))
    BY <2>2, QuietTold
  <2>4. Fp8Due' => Fp8Due \/ ok
    <3>1. CASE ok BY <3>1
    <3>2. CASE ~ok
      <4>1. Carries(msgs', Success("quantize")) => Carries(msgs, Success("quantize"))
        BY <2>2, <3>2, QuietTold
      <4> QED BY <2>1, <4>1 DEF Fp8Due
    <3> QED BY <3>1, <3>2
  <2>5. (AdapterDue' => AdapterDue) /\ (MergedDue' => MergedDue)
    BY <2>1, <2>3 DEF AdapterDue, MergedDue, Stages
  <2>6. Downstream' => Downstream BY <2>1 DEF Downstream
  <2> QED BY <2>1, <2>4, <2>5, <2>6 DEF FilesInv
<1>17. ASSUME NEW ok \in BOOLEAN, OrphanMergeEnds(ok) PROVE FilesInv'
  <2>1. Quiet BY <1>17 DEF OrphanMergeEnds, Quiet
  <2>2. CommandsQuiet
    BY <1>17 DEF OrphanMergeEnds, CommandsQuiet
  <2>3. ReportsQuiet
    <3>1. CASE msgs' = msgs BY <3>1 DEF ReportsQuiet
    <3>2. CASE msgs' # msgs
      BY <1>17, <3>2, QuietFailure DEF OrphanMergeEnds, Stages
    <3> QED BY <3>1, <3>2
  <2> QED BY <2>1, <2>2, <2>3, FilesQuiet
<1>18. ASSUME NEW ok \in BOOLEAN, OrphanQuantizeEnds(ok) PROVE FilesInv'
  <2>1. Quiet BY <1>18 DEF OrphanQuantizeEnds, Quiet
  <2>2. CommandsQuiet
    BY <1>18 DEF OrphanQuantizeEnds, CommandsQuiet
  <2>3. ReportsQuiet
    BY <1>18 DEF OrphanQuantizeEnds, ReportsQuiet
  <2> QED BY <2>1, <2>2, <2>3, FilesQuiet
<1>19. ASSUME TailTraining PROVE FilesInv'
  <2>1. Quiet BY <1>19 DEF TailTraining, Quiet
  <2>2. CommandsQuiet
    BY <1>19 DEF TailTraining, CommandsQuiet
  <2>3. ReportsQuiet
    BY <1>19, QuietFailure DEF TailTraining, Stages, ExitResult
  <2> QED BY <2>1, <2>2, <2>3, FilesQuiet
<1>20. ASSUME CreateSend PROVE FilesInv'
  <2>1. Quiet BY <1>20 DEF CreateSend, Quiet
  <2>2. CommandsQuiet
    BY <1>20, QuietSent DEF CreateSend
  <2>3. ReportsQuiet
    BY <1>20 DEF CreateSend, ReportsQuiet
  <2> QED BY <2>1, <2>2, <2>3, FilesQuiet
<1>21. ASSUME HandleReport PROVE FilesInv'
  <2>1. /\ UNCHANGED <<head, merger, quantizer, serving, deploying, dep, restarting,
                       cmds, files,
                       erased>>
        /\ msgs # <<>> /\ msgs' = Tail(msgs)
    BY <1>21 DEF HandleReport
  <2>2. PICK m \in Reports : m = Head(msgs)
    BY <2>1, Taken DEF TypeOK, NetTypeOK
  <2>3. /\ status' = "completed" => status = "completed" \/ m \in Success("train")
        /\ merge' = "completed" => merge = "completed" \/ m \in Success("merge")
        /\ quant' = "quantized" => \/ quant = "quantized"
                                   \/ m \in Success("quantize")
    BY <1>21, <2>2 DEF HandleReport, QuantStatus, Success
  <2>4. ASSUME NEW s \in Stages
        PROVE  Carries(msgs', Success(s)) \/ m \in Success(s)
                 => Carries(msgs, Success(s))
    BY <2>1, <2>2, HeardFacts
  <2>5. AdapterDue' => AdapterDue BY <2>1, <2>3, <2>4 DEF AdapterDue, Stages
  <2>6. MergedDue' => MergedDue BY <2>3, <2>4 DEF MergedDue, Stages
  <2>7. Fp8Due' => Fp8Due BY <2>3, <2>4 DEF Fp8Due, Stages
  <2>8. Downstream' => Downstream BY <2>1 DEF Downstream
  <2> QED BY <1>0, <2>1, <2>5, <2>6, <2>7, <2>8 DEF FilesInv
<1>22. ASSUME DeployRefused PROVE FilesInv'
  <2>1. Quiet BY <1>22 DEF DeployRefused, Idle, Quiet
  <2>2. CommandsQuiet
    BY <1>22 DEF DeployRefused, CommandsQuiet
  <2>3. ReportsQuiet
    BY <1>22 DEF DeployRefused, ReportsQuiet
  <2> QED BY <2>1, <2>2, <2>3, FilesQuiet
<1>23. ASSUME DeployUpsert PROVE FilesInv'
  <2>1. Quiet BY <1>23 DEF DeployUpsert, Idle, Quiet
  <2>2. CommandsQuiet
    BY <1>23 DEF DeployUpsert, CommandsQuiet
  <2>3. ReportsQuiet
    BY <1>23 DEF DeployUpsert, ReportsQuiet
  <2> QED BY <2>1, <2>2, <2>3, FilesQuiet
<1>24. ASSUME DeployCreate PROVE FilesInv'
  <2>1. /\ UNCHANGED <<status, head, merge, quant, merger, msgs, cmds, files, erased>>
        /\ deploying # Idle
    BY <1>24 DEF DeployCreate, Idle
  <2>2. Downstream BY <2>1 DEF Downstream
  <2>3. /\ AdapterDue' => AdapterDue
        /\ MergedDue' => MergedDue
        /\ Fp8Due' => Fp8Due
    BY <2>1 DEF AdapterDue, MergedDue, Fp8Due
  <2> QED BY <2>1, <2>2, <2>3 DEF FilesInv
<1>25. ASSUME NEW c \in BOOLEAN, DeleteSweep(c) PROVE FilesInv'
  <2>1. CommandsQuiet
    <3>1. CASE cmds' = ToAgent("stop") BY <3>1, QuietSent
    <3>2. CASE cmds' = cmds BY <3>2 DEF CommandsQuiet
    <3> QED BY <1>25, <3>1, <3>2 DEF DeleteSweep
  <2>2. ReportsQuiet BY <1>25 DEF DeleteSweep, ReportsQuiet
  <2>3. CASE erased'
    <3>1. Downstream' => Downstream
      BY <1>25, <2>1 DEF DeleteSweep, Downstream, CommandsQuiet
    <3> QED BY <1>0, <2>3, <3>1 DEF FilesInv
  <2>4. CASE ~erased'
    <3>1. Quiet BY <1>25, <2>4 DEF DeleteSweep, Quiet
    <3> QED BY <2>1, <2>2, <3>1, FilesQuiet
  <2> QED BY <2>3, <2>4
<1>26. ASSUME DeleteRow PROVE FilesInv'
  <2>1. Quiet BY <1>26 DEF DeleteRow, Quiet
  <2>2. CommandsQuiet
    BY <1>26 DEF DeleteRow, CommandsQuiet
  <2>3. ReportsQuiet
    BY <1>26 DEF DeleteRow, ReportsQuiet
  <2> QED BY <2>1, <2>2, <2>3, FilesQuiet
<1>27. ASSUME Create PROVE FilesInv'
  <2>1. Quiet BY <1>27 DEF Create, Quiet
  <2>2. CommandsQuiet
    BY <1>27 DEF Create, CommandsQuiet
  <2>3. ReportsQuiet
    BY <1>27 DEF Create, ReportsQuiet
  <2> QED BY <2>1, <2>2, <2>3, FilesQuiet
<1>28. ASSUME Stop PROVE FilesInv'
  <2>1. Quiet BY <1>28 DEF Stop, Quiet
  <2>2. CommandsQuiet
    BY <1>28, QuietSent DEF Stop
  <2>3. ReportsQuiet
    BY <1>28 DEF Stop, ReportsQuiet
  <2> QED BY <2>1, <2>2, <2>3, FilesQuiet
<1>29. ASSUME Merge PROVE FilesInv'
  <2>1. /\ UNCHANGED <<status, head, quant, merger, quantizer, serving, deploying,
                       dep, restarting,
                       msgs, files, erased>>
        /\ status = "completed" /\ merge # "completed" /\ merge' = "running"
        /\ cmds' = ToAgent("merge")
    BY <1>29 DEF Merge, MergeAllowed
  <2>2. /\ Carries(cmds', {"quantize"}) => Carries(cmds, {"quantize"})
        /\ Carries(cmds', {"deploy"}) => Carries(cmds, {"deploy"})
    BY <2>1, SentFacts DEF Commands
  <2>3. ~Downstream' BY <2>1, <2>2 DEF FilesInv, Downstream
  <2>4. AdapterDue BY <2>1 DEF AdapterDue
  <2>5. (MergedDue' => MergedDue) /\ (Fp8Due' => Fp8Due)
    BY <2>1 DEF MergedDue, Fp8Due
  <2> QED BY <2>1, <2>3, <2>4, <2>5 DEF FilesInv
<1>30. ASSUME Quantize PROVE FilesInv'
  <2>1. /\ UNCHANGED <<status, head, merge, merger, msgs, files, erased>>
        /\ merge = "completed" /\ quant' = "quantizing"
        /\ cmds' = ToAgent("quantize")
    BY <1>30 DEF Quantize
  <2>2. Carries(cmds', {"merge"}) => Carries(cmds, {"merge"})
    BY <2>1, SentFacts DEF Commands
  <2>3. /\ AdapterDue' => AdapterDue
        /\ MergedDue' => MergedDue
        /\ Fp8Due' => Fp8Due
    BY <2>1, <2>2 DEF AdapterDue, MergedDue, Fp8Due
  <2> QED BY <2>1, <2>3 DEF FilesInv
<1>31. ASSUME DeployCheck PROVE FilesInv'
  <2>1. /\ UNCHANGED <<status, head, merge, quant, merger, cmds, msgs, files, erased>>
        /\ merge = "completed"
    BY <1>31 DEF DeployCheck
  <2>2. /\ AdapterDue' => AdapterDue
        /\ MergedDue' => MergedDue
        /\ Fp8Due' => Fp8Due
    BY <2>1 DEF AdapterDue, MergedDue, Fp8Due
  <2> QED BY <2>1, <2>2 DEF FilesInv
<1>32. ASSUME DeleteCheck PROVE FilesInv'
  <2>1. Quiet BY <1>32 DEF DeleteCheck, Quiet
  <2>2. CommandsQuiet
    BY <1>32 DEF DeleteCheck, CommandsQuiet
  <2>3. ReportsQuiet
    BY <1>32 DEF DeleteCheck, ReportsQuiet
  <2> QED BY <2>1, <2>2, <2>3, FilesQuiet
<1>33. ASSUME NEW n \in Names, Rename(n) PROVE FilesInv'
  <2>1. Quiet BY <1>33 DEF Rename, Quiet
  <2>2. CommandsQuiet
    BY <1>33 DEF Rename, CommandsQuiet
  <2>3. ReportsQuiet
    BY <1>33 DEF Rename, ReportsQuiet
  <2> QED BY <2>1, <2>2, <2>3, FilesQuiet
<1>34. ASSUME AgentRestart PROVE FilesInv'
  <2>1. Quiet BY <1>34 DEF AgentRestart, Quiet
  <2>2. CommandsQuiet
    BY <1>34, QuietEmpty DEF AgentRestart
  <2>3. ReportsQuiet
    BY <1>34 DEF AgentRestart, ReportsQuiet
  <2> QED BY <2>1, <2>2, <2>3, FilesQuiet
<1>35. ASSUME Drop PROVE FilesInv'
  <2>1. Quiet BY <1>35 DEF Drop, Quiet
  <2>2. CommandsQuiet
    BY <1>35, QuietEmpty DEF Drop
  <2>3. ReportsQuiet
    BY <1>35, QuietEmpty DEF Drop
  <2> QED BY <2>1, <2>2, <2>3, FilesQuiet
<1>36. ASSUME DeploymentEnds PROVE FilesInv'
  <2>1. Quiet BY <1>36 DEF DeploymentEnds, Quiet
  <2>2. CommandsQuiet
    BY <1>36 DEF DeploymentEnds, CommandsQuiet
  <2>3. ReportsQuiet
    BY <1>36 DEF DeploymentEnds, ReportsQuiet
  <2> QED BY <2>1, <2>2, <2>3, FilesQuiet
<1>37. ASSUME NEW ok \in BOOLEAN, TrainingEnds(ok) PROVE FilesInv'
  <2>1. /\ UNCHANGED <<status, merge, quant, merger, quantizer, serving, deploying,
                       dep, restarting,
                       cmds, msgs, erased>>
        /\ files \subseteq files'
        /\ head' = "done" => "adapter" \in files'
    BY <1>37 DEF TrainingEnds
  <2>2. AdapterDue' => AdapterDue \/ "adapter" \in files'
    BY <2>1 DEF AdapterDue
  <2>3. /\ MergedDue' => MergedDue
        /\ Fp8Due' => Fp8Due
        /\ Downstream' => Downstream
    BY <2>1 DEF MergedDue, Fp8Due, Downstream
  <2> QED BY <2>1, <2>2, <2>3 DEF FilesInv
<1>38. ASSUME NEW w \in Workers, WorkerDies(w) PROVE FilesInv'
  <2>1. Quiet BY <1>38 DEF WorkerDies, Quiet
  <2>2. CommandsQuiet
    BY <1>38 DEF WorkerDies, CommandsQuiet
  <2>3. ReportsQuiet
    BY <1>38 DEF WorkerDies, ReportsQuiet
  <2> QED BY <2>1, <2>2, <2>3, FilesQuiet
<1>39. ASSUME Reconnect PROVE FilesInv'
  <2>1. Quiet BY <1>39 DEF Reconnect, Quiet
  <2>2. CommandsQuiet
    BY <1>39 DEF Reconnect, CommandsQuiet
  <2>3. ReportsQuiet
    BY <1>39 DEF Reconnect, ReportsQuiet
  <2> QED BY <2>1, <2>2, <2>3, FilesQuiet
<1>40. ASSUME UNCHANGED vars PROVE FilesInv'
  <2>1. Quiet BY <1>40 DEF vars, Quiet
  <2>2. CommandsQuiet BY <1>40 DEF vars, CommandsQuiet
  <2>3. ReportsQuiet BY <1>40 DEF vars, ReportsQuiet
  <2> QED BY <2>1, <2>2, <2>3, FilesQuiet
<1>41. ASSUME NEW u \in SUBSET Hosts, HeadStopped(u) PROVE FilesInv'
  <2>1. Quiet BY <1>41 DEF HeadStopped, Cleanup, HeadLeft, Quiet
  <2>2. CommandsQuiet BY <1>41 DEF HeadStopped, CommandsQuiet
  <2>3. ReportsQuiet BY <1>41 DEF HeadStopped, ReportsQuiet
  <2> QED BY <2>1, <2>2, <2>3, FilesQuiet
<1>42. ASSUME DeploySend PROVE FilesInv'
  <2>1. /\ UNCHANGED <<status, head, merge, quant, merger, msgs, files, erased>>
        /\ deploying # Idle
    BY <1>42 DEF DeploySend, Idle
  <2>2. Downstream BY <2>1 DEF Downstream
  <2>3. Carries(cmds', {"merge"}) => Carries(cmds, {"merge"})
    <3>1. CASE cmds' = ToAgent("deploy") BY <3>1, SentFacts DEF Commands
    <3>2. CASE cmds' = cmds BY <3>2
    <3> QED BY <1>42, <3>1, <3>2 DEF DeploySend
  <2>4. /\ AdapterDue' => AdapterDue
        /\ MergedDue' => MergedDue
        /\ Fp8Due' => Fp8Due
    BY <2>1, <2>3 DEF AdapterDue, MergedDue, Fp8Due
  <2> QED BY <2>1, <2>2, <2>4 DEF FilesInv
<1>43. ASSUME RestartCheck PROVE FilesInv'
  <2>1. /\ UNCHANGED <<status, head, merge, quant, merger, cmds, msgs, files, erased>>
        /\ dep # "none"
    BY <1>43 DEF RestartCheck
  <2>2. Downstream BY <2>1 DEF Downstream
  <2>3. /\ AdapterDue' => AdapterDue
        /\ MergedDue' => MergedDue
        /\ Fp8Due' => Fp8Due
    BY <2>1 DEF AdapterDue, MergedDue, Fp8Due
  <2> QED BY <2>1, <2>2, <2>3 DEF FilesInv
<1>44. ASSUME RestartRefused PROVE FilesInv'
  <2>1. Quiet BY <1>44 DEF RestartRefused, Quiet
  <2>2. CommandsQuiet BY <1>44 DEF RestartRefused, CommandsQuiet
  <2>3. ReportsQuiet BY <1>44 DEF RestartRefused, ReportsQuiet
  <2> QED BY <2>1, <2>2, <2>3, FilesQuiet
<1>45. ASSUME RestartSend PROVE FilesInv'
  <2>1. /\ UNCHANGED <<status, head, merge, quant, merger, msgs, files, erased>>
        /\ restarting /\ cmds' = ToAgent("deploy")
    BY <1>45 DEF RestartSend
  <2>2. Downstream BY <2>1 DEF Downstream
  <2>3. Carries(cmds', {"merge"}) => Carries(cmds, {"merge"})
    BY <2>1, SentFacts DEF Commands
  <2>4. /\ AdapterDue' => AdapterDue
        /\ MergedDue' => MergedDue
        /\ Fp8Due' => Fp8Due
    BY <2>1, <2>3 DEF AdapterDue, MergedDue, Fp8Due
  <2> QED BY <2>1, <2>2, <2>4 DEF FilesInv
<1>46. ASSUME DeploymentDown PROVE FilesInv'
  <2>1. Quiet BY <1>46 DEF DeploymentDown, Quiet
  <2>2. CommandsQuiet BY <1>46 DEF DeploymentDown, CommandsQuiet
  <2>3. ReportsQuiet BY <1>46 DEF DeploymentDown, ReportsQuiet
  <2> QED BY <2>1, <2>2, <2>3, FilesQuiet
<1>47. ASSUME DeploymentUp PROVE FilesInv'
  <2>1. Quiet BY <1>47 DEF DeploymentUp, Quiet
  <2>2. CommandsQuiet BY <1>47 DEF DeploymentUp, CommandsQuiet
  <2>3. ReportsQuiet BY <1>47 DEF DeploymentUp, ReportsQuiet
  <2> QED BY <2>1, <2>2, <2>3, FilesQuiet
<1> QED
  BY <1>1, <1>2, <1>3, <1>4, <1>5, <1>6, <1>7, <1>8, <1>9, <1>10, <1>11, <1>12,
     <1>13, <1>14, <1>15, <1>16, <1>17, <1>18, <1>19, <1>20, <1>21, <1>22,
     <1>23, <1>24, <1>25, <1>26, <1>27, <1>28, <1>29, <1>30, <1>31, <1>32,
     <1>33, <1>34, <1>35, <1>36, <1>37, <1>38, <1>39, <1>40, <1>41, <1>42,
     <1>43, <1>44, <1>45, <1>46, <1>47 DEF Next, TrainStep, CommandStep,
     MergeStep, QuantizeStep, OrphanStep, ManagerStep, OperatorStep, Event

\* What the row says is finished is whole on the shared storage, and no stage
\* works on what an earlier one has not finished, across agent restarts and
\* lost reports, when the operator asks for one stage at a time.
THEOREM StagesInOrderCorrect ==
  ASSUME Patient
  PROVE  Spec => []StagesInOrder
<1> DEFINE StageInv == MergeOnce /\ QuantizeOnce /\ FilesInv
<1>1. Init => StageInv
  <2> SUFFICES ASSUME Init PROVE StageInv
    OBVIOUS
  <2>1. cmds = <<>> /\ msgs = <<>> BY DEF Init
  <2>2. \A D : Once(cmds, D) /\ ~Carries(cmds, D) /\ Once(msgs, D)
               /\ ~Carries(msgs, D)
    BY <2>1, OnceEmpty
  <2>3. MergeOnce /\ QuantizeOnce
    BY <2>2 DEF Init, MergeOnce, QuantizeOnce
  <2>4. ~Downstream /\ ~AdapterDue /\ ~MergedDue /\ ~Fp8Due
    BY <2>2 DEF Init, Idle, Downstream, AdapterDue, MergedDue, Fp8Due
  <2> QED BY <2>3, <2>4 DEF FilesInv
<1>2. TypeOK /\ StageInv /\ [Next]_vars => StageInv'
  BY MergeOnceStep, QuantizeOnceStep, FilesStep
<1>3. StageInv => StagesInOrder
  BY DEF FilesInv, StagesInOrder, Downstream, AdapterDue, MergedDue, Fp8Due
<1> QED BY <1>1, <1>2, <1>3, TypeCorrect, PTL DEF Spec


=============================================================================
