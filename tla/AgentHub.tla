------------------------------ MODULE AgentHub ------------------------------
(***************************************************************************)
(* How the manager knows whether one node is up: the node's row (status,   *)
(* lastSeen), the hub's map of live agents, and the last node:status event *)
(* the open dashboards were sent.  Registrations, heartbeats, the close    *)
(* events of sockets and the periodic staleness sweep all write them, each *)
(* across an await.                                                        *)
(*                                                                         *)
(* A database query takes effect together with the code that runs when its *)
(* await returns; two queries that are both under way take effect in       *)
(* either order.  The row exists throughout (offboarding is not here).     *)
(*                                                                         *)
(* Sources: packages/server/src/ws/{agent-hub,staleness}.ts and connect()  *)
(* in packages/agent/src/index.ts.                                         *)
(***************************************************************************)
EXTENDS Naturals

CONSTANTS
  MaxConns,   \* bound: sockets the agent ever opens
  MaxStalls   \* bound: heartbeat gaps over the threshold on a live socket

ASSUME HubAssumption ==
  /\ MaxConns \in Nat \ {0}
  /\ MaxStalls \in Nat

\* Sockets in the order the agent opens them.
Conns == 1 .. MaxConns

None == 0

VARIABLES
  sock,    \* per socket: unused, open, cut (the manager has not noticed), closed
  wire,    \* per socket: a heartbeat is on its way
  reg,     \* per socket: agent:register handler, idle or at its row update
  beat,    \* per socket: agent:metrics handler, idle, at its snapshot or row update
  bye,     \* per socket: close handler, idle or at its row update
  sweep,   \* sweepStale, idle or at its row update
  entry,   \* the socket agents maps the node to, or None
  swept,   \* the node is in sweptOffline
  status,  \* the row's status
  recent,  \* the row's lastSeen is within STALE_THRESHOLD_MS
  shown,   \* the status in the last node:status event
  stalls,
  late     \* history: a close was announced after a newer socket had opened

vars == <<sock, wire, reg, beat, bye, sweep, entry, swept, status, recent,
          shown, stalls, late>>

\* Every variable has its type.
TypeOK ==
  /\ sock \in [Conns -> {"unused", "open", "cut", "closed"}]
  /\ wire \in [Conns -> BOOLEAN]
  /\ reg \in [Conns -> {"idle", "write"}]
  /\ beat \in [Conns -> {"idle", "snapshot", "write"}]
  /\ bye \in [Conns -> {"idle", "write"}]
  /\ sweep \in {"idle", "write"}
  /\ entry \in Conns \cup {None}
  /\ swept \in BOOLEAN
  /\ status \in {"online", "offline"}
  /\ recent \in BOOLEAN
  /\ shown \in {"online", "offline"}
  /\ stalls \in 0 .. MaxStalls
  /\ late \in BOOLEAN

\* A manager that has just started: the row says what it last said, and the
\* dashboards loaded it.
Init ==
  /\ sock = [c \in Conns |-> "unused"]
  /\ wire = [c \in Conns |-> FALSE]
  /\ reg = [c \in Conns |-> "idle"]
  /\ beat = [c \in Conns |-> "idle"]
  /\ bye = [c \in Conns |-> "idle"]
  /\ sweep = "idle"
  /\ entry = None
  /\ swept = FALSE
  /\ status \in {"online", "offline"}
  /\ recent \in BOOLEAN
  /\ shown = status
  /\ stalls = 0
  /\ late = FALSE

AgentUp == \E c \in Conns : sock[c] = "open"

\* isAgentOnline: the mapped socket is open as far as the manager knows.
IsAgentOnline == entry # None /\ sock[entry] \in {"open", "cut"}

-----------------------------------------------------------------------------
(* Registration.                                                           *)

\* connect() runs again only after its socket closed.  The manager maps the
\* socket at once and starts the row update.
Register(c) ==
  /\ sock[c] = "unused"
  /\ \A k \in Conns : /\ k < c => sock[k] \in {"cut", "closed"}
                      /\ k > c => sock[k] = "unused"
  /\ sock' = [sock EXCEPT ![c] = "open"]
  /\ entry' = c
  /\ reg' = [reg EXCEPT ![c] = "write"]
  /\ UNCHANGED <<wire, beat, bye, sweep, swept, status, recent, shown, stalls,
                 late>>

RegisterWrite(c) ==
  /\ reg[c] = "write"
  /\ reg' = [reg EXCEPT ![c] = "idle"]
  /\ status' = "online"
  /\ recent' = TRUE
  /\ shown' = "online"
  /\ UNCHANGED <<sock, wire, beat, bye, sweep, entry, swept, stalls, late>>

-----------------------------------------------------------------------------
(* Heartbeats: one on the wire and one in its handler, per socket.         *)

\* The agent's metrics timer, only on an open socket.
BeatSend(c) ==
  /\ sock[c] = "open"
  /\ ~wire[c]
  /\ wire' = [wire EXCEPT ![c] = TRUE]
  /\ UNCHANGED <<sock, reg, beat, bye, sweep, entry, swept, status, recent,
                 shown, stalls, late>>

BeatReceive(c) ==
  /\ wire[c]
  /\ beat[c] = "idle"
  /\ wire' = [wire EXCEPT ![c] = FALSE]
  /\ beat' = [beat EXCEPT ![c] = "snapshot"]
  /\ UNCHANGED <<sock, reg, bye, sweep, entry, swept, status, recent, shown,
                 stalls, late>>

ReassertedNot(c) == entry         \* mutant: the map is left to agent:register

\* The heartbeat proves that the socket it came on is the node's.
Reasserted(c) == c

\* The snapshot is stored; the handler maps its own socket again, whatever
\* happened meanwhile, and starts the row update.
BeatSnapshot(c) ==
  /\ beat[c] = "snapshot"
  /\ beat' = [beat EXCEPT ![c] = "write"]
  /\ entry' = Reasserted(c)
  /\ UNCHANGED <<sock, wire, reg, bye, sweep, swept, status, recent, shown,
                 stalls, late>>

RecoveredSilently == shown        \* mutant: only the row recovers

\* announceRecoveryIfSwept tells the dashboards only of a node the sweep had
\* taken down.
AnnounceRecoveryIfSwept == IF swept THEN "online" ELSE shown

\* The row is online and fresh again.
BeatWrite(c) ==
  /\ beat[c] = "write"
  /\ beat' = [beat EXCEPT ![c] = "idle"]
  /\ status' = "online"
  /\ recent' = TRUE
  /\ swept' = FALSE
  /\ shown' = AnnounceRecoveryIfSwept
  /\ UNCHANGED <<sock, wire, reg, bye, sweep, entry, stalls, late>>

-----------------------------------------------------------------------------
(* Disconnection.                                                          *)

\* The socket is gone at the agent; a heartbeat on the wire may still arrive.
Cut(c) ==
  /\ sock[c] = "open"
  /\ sock' = [sock EXCEPT ![c] = "cut"]
  /\ \/ wire' = wire
     \/ wire' = [wire EXCEPT ![c] = FALSE]
  /\ UNCHANGED <<reg, beat, bye, sweep, entry, swept, status, recent, shown,
                 stalls, late>>

\* The close event, after everything the socket delivered.  The handler drops
\* the node from the map without looking at which socket is mapped.
CloseSeen(c) ==
  /\ sock[c] = "cut"
  /\ ~wire[c]
  /\ sock' = [sock EXCEPT ![c] = "closed"]
  /\ entry' = None
  /\ bye' = [bye EXCEPT ![c] = "write"]
  /\ UNCHANGED <<wire, reg, beat, sweep, swept, status, recent, shown, stalls,
                 late>>

DisconnectedStatus == "offline"

CloseWrite(c) ==
  /\ bye[c] = "write"
  /\ bye' = [bye EXCEPT ![c] = "idle"]
  /\ status' = DisconnectedStatus
  /\ shown' = "offline"
  /\ late' = (late \/ \E k \in Conns : k > c /\ sock[k] # "unused")
  /\ UNCHANGED <<sock, wire, reg, beat, sweep, entry, swept, recent, stalls>>

-----------------------------------------------------------------------------
(* Staleness.                                                              *)

\* STALE_THRESHOLD_MS pass without a heartbeat being stored.
Age ==
  /\ recent
  /\ recent' = FALSE
  /\ IF AgentUp
     THEN stalls < MaxStalls /\ stalls' = stalls + 1
     ELSE stalls' = stalls
  /\ UNCHANGED <<sock, wire, reg, beat, bye, sweep, entry, swept, status,
                 shown, late>>

\* selectStaleNodes on the rows the sweep read.
SweepFind ==
  /\ sweep = "idle"
  /\ status = "online"
  /\ ~recent
  /\ sweep' = "write"
  /\ UNCHANGED <<sock, wire, reg, beat, bye, entry, swept, status, recent,
                 shown, stalls, late>>

\* The sweep acts on what it read, also when a heartbeat came in between.
SweepWrite ==
  /\ sweep = "write"
  /\ sweep' = "idle"
  /\ status' = "offline"
  /\ entry' = None
  /\ shown' = "offline"
  /\ swept' = TRUE
  /\ UNCHANGED <<sock, wire, reg, beat, bye, recent, stalls, late>>

\* Every socket is used up and closed, and nothing is left to do.
Finished ==
  /\ \A c \in Conns : sock[c] = "closed" /\ reg[c] = "idle" /\ bye[c] = "idle"
  /\ \A c \in Conns : beat[c] = "idle" /\ ~wire[c]
  /\ sweep = "idle"
  /\ status = "offline" /\ ~recent
  /\ UNCHANGED vars

-----------------------------------------------------------------------------

Next ==
  \/ \E c \in Conns :
       \/ Register(c)
       \/ RegisterWrite(c)
       \/ BeatSend(c)
       \/ BeatReceive(c)
       \/ BeatSnapshot(c)
       \/ BeatWrite(c)
       \/ Cut(c)
       \/ CloseSeen(c)
       \/ CloseWrite(c)
  \/ Age
  \/ SweepFind
  \/ SweepWrite
  \/ Finished

Spec == Init /\ [][Next]_vars

\* Handlers run to their end, the metrics timer and the sweep's timer fire, a
\* dead socket is noticed in the end, and time passes.  Nothing makes the agent
\* connect, and nothing cuts a socket.
Fairness ==
  /\ \A c \in Conns :
       /\ WF_vars(RegisterWrite(c))
       /\ WF_vars(BeatSend(c))
       /\ WF_vars(BeatReceive(c))
       /\ WF_vars(BeatSnapshot(c))
       /\ WF_vars(BeatWrite(c))
       /\ WF_vars(CloseSeen(c))
       /\ WF_vars(CloseWrite(c))
  /\ WF_vars(~AgentUp /\ Age)
  /\ WF_vars(SweepFind)
  /\ WF_vars(SweepWrite)

FairSpec == Spec /\ Fairness

-----------------------------------------------------------------------------
(* Properties.                                                             *)

\* What the manager believes is what is true: a connected agent can be sent
\* commands on its own socket and its row is online; a node without one is
\* unreachable and its row is offline.
Believed ==
  /\ \A c \in Conns : sock[c] = "open" => entry = c
  /\ ~AgentUp => ~IsAgentOnline
  /\ status = IF AgentUp THEN "online" ELSE "offline"

\* Once the agent stops flapping, the map and the row settle on the truth,
\* whatever close, sweep and heartbeat handlers overtook one another before
\* (the self-heal of agent:metrics against the sweep and late closes).
StatusSettles == <>[]Believed

\* The dashboards settle on the row's status, unless the close of an old socket
\* was announced after the agent had come back (announceRecoveryIfSwept).
ShownSettles == <>late \/ <>[](shown = status)

=============================================================================
