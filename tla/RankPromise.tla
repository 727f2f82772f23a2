---------------------------- MODULE RankPromise ----------------------------
(***************************************************************************)
(* What an agent promises the manager about one rank, without saying how:  *)
(* a command makes it busy; while it is busy the rank may go up and down;  *)
(* when it has settled after a stop the rank is down; and a settled rank   *)
(* never comes up by itself.                                               *)
(***************************************************************************)

VARIABLES
  up,     \* the rank's container is running
  want,   \* the last command
  busy    \* the agent is still carrying commands out

TypeOK ==
  /\ up \in BOOLEAN
  /\ want \in {"none", "deploy", "undeploy"}
  /\ busy \in BOOLEAN

Init == up = FALSE /\ want = "none" /\ busy = FALSE

Command(c) ==
  /\ want' = c
  /\ busy' = TRUE
  /\ UNCHANGED up

Work ==
  /\ busy
  /\ up' \in BOOLEAN
  /\ UNCHANGED <<want, busy>>

\* The promise: nothing is left running when a stop has been carried out.
Settle ==
  /\ busy
  /\ busy' = FALSE
  /\ want = "undeploy" => ~up
  /\ UNCHANGED <<up, want>>

\* The container dies or is taken away.
Lost ==
  /\ up' = FALSE
  /\ UNCHANGED <<want, busy>>

\* The agent process restarts and forgets what it was doing.
Restarted ==
  /\ want' = "none"
  /\ busy' = FALSE
  /\ busy \/ UNCHANGED up
  /\ up' \in BOOLEAN

Next ==
  \/ \E c \in {"deploy", "undeploy"} : Command(c)
  \/ Work \/ Settle \/ Lost \/ Restarted

Spec == Init /\ [][Next]_<<up, want, busy>>
=============================================================================
