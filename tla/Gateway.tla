------------------------------ MODULE Gateway ------------------------------
(***************************************************************************)
(* The manager's OpenAI gateway: requests name a model, the deployments    *)
(* publishing that name are its pool, and each request is forwarded to the *)
(* pool member with the fewest requests in flight.  The only state is the  *)
(* in-flight count per deployment and a rotation per name.                 *)
(*                                                                         *)
(* Requests is a set of slots: a request that has been answered leaves its *)
(* slot to a later one.  Deployment ids are numbers, since the pool is     *)
(* read ordered by id.                                                     *)
(*                                                                         *)
(* Sources: packages/server/src/gateway/{router,inflight,rotation,         *)
(* selection,eligibility,modality,proxy}.ts.                               *)
(***************************************************************************)
EXTENDS Integers, FiniteSets

CONSTANTS
  Requests,     \* concurrent request slots
  Deployments,  \* deployment ids
  Names,        \* names a client may ask for
  NameOf,       \* deployment -> the name it publishes while it has one
  Declared,     \* deployment -> what its stored config has for modality
  Wrap,         \* rotation wraps at this value (1_000_000 in the code)
  MaxChanges    \* bound: changes of rows and agent connections

ASSUME GatewayAssumption ==
  /\ IsFiniteSet(Requests)
  /\ Deployments \subseteq Nat /\ IsFiniteSet(Deployments)
  /\ Names # {}
  /\ NameOf \in [Deployments -> Names]
  /\ Wrap \in Nat \ {0}
  /\ MaxChanges \in Nat

VARIABLES
  poolRow,   \* per deployment: its row as the pool query sees it
  online,    \* per deployment: its node's agent is connected
  counts,    \* per deployment: requests in flight (inflight.ts)
  rotation,  \* per name: the stored rotation (rotation.ts)
  phase,     \* per request: how far proxyInference got
  asked,     \* per request: the name and the modality of the path
  rows,      \* per request: the candidates the query returned
  target,    \* per request: the member it is forwarded to
  last,      \* per name: the last selection's tie and the member chosen
  changes

gatewayVars == <<poolRow, online, counts, rotation, phase, asked, rows, target,
          last, changes>>

\* A row has no published name, or is published but cannot serve (not running,
\* no port or no node address), or can serve.
RowStates == {"unnamed", "unready", "ready"}

Phases == {"idle", "query", "rows", "sent", "streaming"}

\* MODALITIES
Modalities == {"text", "image"}

\* The operations that are forwarded; every other one is refused unread.
ForwardedPaths == {"chatCompletions", "embeddings", "imagesGenerations"}

\* PATH_MODALITY
PathModality(path) == IF path = "imagesGenerations" THEN "image" ELSE "text"

\* deploymentModality: a config without the field, with another value in it or
\* unreadable counts as text.
DeploymentModality(d) ==
  IF Declared[d] \in Modalities THEN Declared[d] ELSE "text"

Asks == [name : Names, modality : {PathModality(p) : p \in ForwardedPaths}]

\* The candidate rows, by whether they can serve.
PoolRows == [named : SUBSET Deployments, ready : SUBSET Deployments]

NoRows == [named |-> {}, ready |-> {}]

NoTie == [tied |-> {}, choice |-> -1]

GatewayTypeOK ==
  /\ poolRow \in [Deployments -> RowStates]
  /\ online \in [Deployments -> BOOLEAN]
  /\ counts \in [Deployments -> Nat]
  /\ rotation \in [Names -> 0..(Wrap - 1)]
  /\ phase \in [Requests -> Phases]
  /\ asked \in [Requests -> Asks]
  /\ rows \in [Requests -> PoolRows]
  /\ target \in [Requests -> Deployments \cup {-1}]
  /\ last \in [Names -> [tied : SUBSET Deployments,
                         choice : Deployments \cup {-1}]]
  /\ changes \in 0..MaxChanges

SomeAsk == CHOOSE a \in Asks : TRUE

GatewayInit ==
  /\ poolRow = [d \in Deployments |-> "ready"]
  /\ online = [d \in Deployments |-> TRUE]
  /\ counts = [d \in Deployments |-> 0]
  /\ rotation = [n \in Names |-> 0]
  /\ phase = [r \in Requests |-> "idle"]
  /\ asked = [r \in Requests |-> SomeAsk]
  /\ rows = [r \in Requests |-> NoRows]
  /\ target = [r \in Requests |-> -1]
  /\ last = [n \in Names |-> NoTie]
  /\ changes = 0

\* What a slot leaves behind when its request has been answered.
Answered(r) ==
  /\ phase' = [phase EXCEPT ![r] = "idle"]
  /\ asked' = [asked EXCEPT ![r] = SomeAsk]
  /\ rows' = [rows EXCEPT ![r] = NoRows]
  /\ target' = [target EXCEPT ![r] = -1]

\* POST /v1/...: the body has been read and names a model; the pool query is
\* issued.
Receive(r, ask) ==
  /\ phase[r] = "idle"
  /\ phase' = [phase EXCEPT ![r] = "query"]
  /\ asked' = [asked EXCEPT ![r] = ask]
  /\ UNCHANGED <<poolRow, online, counts, rotation, rows, target, last,
                 changes>>

Candidates(n) == {d \in Deployments : NameOf[d] = n /\ poolRow[d] # "unnamed"}

\* The database answers with the rows as they are now; the handler resumes
\* later.
Query(r) ==
  LET c == Candidates(asked[r].name)
  IN /\ phase[r] = "query"
     /\ phase' = [phase EXCEPT ![r] = "rows"]
     /\ rows' = [rows EXCEPT ![r] =
                   [named |-> c, ready |-> {d \in c : poolRow[d] = "ready"}]]
     /\ UNCHANGED <<poolRow, online, counts, rotation, asked, target, last,
                    changes>>

\* assessPool over the candidates of the right modality: rows as the query saw
\* them, the agent's connection as it is this instant.
Eligible(r) ==
  {d \in rows[r].ready : DeploymentModality(d) = asked[r].modality /\ online[d]}

\* partitionByModality
Matching(r) == {d \in rows[r].named : DeploymentModality(d) = asked[r].modality}

\* selectLeastOutstanding: the members holding the fewest requests.
TiedIgnoringLoad(r) == Eligible(r)             \* mutant: plain round-robin

Tied(r) ==
  {d \in Eligible(r) : \A e \in Eligible(r) : counts[d] <= counts[e]}

NextRotationTwice(n) == rotation[n] + 2    \* mutant: consumed twice

\* nextRotation returns the value before the wrap.
NextRotation(n) == rotation[n] + 1

\* tied[index] of the list ordered by id
NthOf(d, tied, index) == Cardinality({e \in tied : e < d}) = index

Wrapped(v) == v % Wrap

Acquire(d) == counts[d] + 1

\* The handler resumes.  404, 400 and 503 answer at once (the rotation moves on
\* with a 503); otherwise a member is chosen and counted in one turn of the
\* event loop, and the request is sent.
Route(r) ==
  LET n == asked[r].name
  IN /\ phase[r] = "rows"
     /\ \/ /\ rows[r].named = {} \/ Matching(r) = {}
           /\ Answered(r)
           /\ UNCHANGED <<counts, rotation, last>>
        \/ /\ Matching(r) # {} /\ Eligible(r) = {}
           /\ Answered(r)
           /\ rotation' = [rotation EXCEPT ![n] = Wrapped(NextRotation(n))]
           /\ last' = [last EXCEPT ![n] = NoTie]
           /\ UNCHANGED counts
        \/ \E d \in Tied(r) :
             /\ NthOf(d, Tied(r), NextRotation(n) % Cardinality(Tied(r)))
             /\ rotation' = [rotation EXCEPT ![n] = Wrapped(NextRotation(n))]
             /\ counts' = [counts EXCEPT ![d] = Acquire(d)]
             /\ target' = [target EXCEPT ![r] = d]
             /\ phase' = [phase EXCEPT ![r] = "sent"]
             /\ rows' = [rows EXCEPT ![r] = NoRows]
             /\ last' = [last EXCEPT ![n] = [tied |-> Tied(r), choice |-> d]]
             /\ UNCHANGED asked
     /\ UNCHANGED <<poolRow, online, changes>>

\* The member's response headers arrive and are relayed.
Headers(r) ==
  /\ phase[r] = "sent"
  /\ phase' = [phase EXCEPT ![r] = "streaming"]
  /\ UNCHANGED <<poolRow, online, counts, rotation, asked, rows, target,
                 last, changes>>

ReleaseNothing(d) == counts[d]    \* mutant: no release on this path

\* The function acquire returned, called in `finally`.
Release(d) == IF counts[d] - 1 > 0 THEN counts[d] - 1 ELSE 0

\* The response has been relayed to the end.
UpstreamEnds(r) ==
  /\ phase[r] = "streaming"
  /\ counts' = [counts EXCEPT ![target[r]] = Release(target[r])]
  /\ Answered(r)
  /\ UNCHANGED <<poolRow, online, rotation, last, changes>>

\* The hop fails, before the headers (502) or mid-stream (the response is just
\* ended).  A client that hangs up destroys the upstream request, which then
\* fails this way too.
UpstreamFails(r) ==
  /\ phase[r] \in {"sent", "streaming"}
  /\ counts' = [counts EXCEPT ![target[r]] = Release(target[r])]
  /\ Answered(r)
  /\ UNCHANGED <<poolRow, online, rotation, last, changes>>

\* The rest of the manager: status reports change the rows, sockets open and
\* close.
RowChanges(d, s) ==
  /\ changes < MaxChanges
  /\ changes' = changes + 1
  /\ poolRow' = [poolRow EXCEPT ![d] = s]
  /\ UNCHANGED <<online, counts, rotation, phase, asked, rows, target,
                 last>>

AgentChanges(d) ==
  /\ changes < MaxChanges
  /\ changes' = changes + 1
  /\ online' = [online EXCEPT ![d] = ~@]
  /\ UNCHANGED <<poolRow, counts, rotation, phase, asked, rows, target,
                 last>>

RequestStep(r) ==
  \/ \E ask \in Asks : Receive(r, ask)
  \/ Query(r) \/ Route(r) \/ Headers(r) \/ UpstreamEnds(r)
  \/ UpstreamFails(r)

GatewayNext ==
  \/ \E r \in Requests : RequestStep(r)
  \/ \E d \in Deployments : AgentChanges(d)
  \/ \E d \in Deployments, s \in RowStates : RowChanges(d, s)

GatewaySpec == GatewayInit /\ [][GatewayNext]_gatewayVars

(***************************************************************************)
(* Properties.                                                             *)
(***************************************************************************)

\* The requests being forwarded to a member.
InFlightTo(d) ==
  {r \in Requests : phase[r] \in {"sent", "streaming"} /\ target[r] = d}

\* inflight.ts: the count of every deployment is exactly the number of requests
\* being forwarded to it: nothing leaks, whichever way a request ends.
CountsExact == \A d \in Deployments : counts[d] = Cardinality(InFlightTo(d))

\* selection.ts: no concurrent request can make the choice a stale one: at the
\* moment a request is forwarded, no eligible member has fewer in flight.
LeastOutstanding ==
  [][\A r \in Requests :
       phase[r] = "rows" /\ phase'[r] = "sent" =>
         \A e \in Eligible(r) :
           Cardinality(InFlightTo(target'[r])) <= Cardinality(InFlightTo(e))]_gatewayVars

\* rotation.ts: a pool's consecutive choices from the same tie differ, however
\* its traffic is interleaved with other names' (except where the counter wraps).
EvenRotation ==
  [][\A r \in Requests :
       LET n == asked[r].name
       IN /\ phase[r] = "rows" /\ phase'[r] = "sent"
          /\ last'[n].tied = last[n].tied
          /\ Cardinality(last[n].tied) > 1
          /\ rotation[n] # 0
          => last'[n].choice # last[n].choice]_gatewayVars
=============================================================================
