-------------------------- MODULE Manager_proofs --------------------------
(***************************************************************************)
(* Machine-checked proofs about two parts of the manager that share no     *)
(* state: Gateway, for any number of concurrent requests, deployments and  *)
(* names and any wrap of the rotation, and Benchmark, for every kind of    *)
(* run, any length of its log and any number of faults and of answers      *)
(* mistaken for another call's.                                            *)
(***************************************************************************)
EXTENDS Gateway, Benchmark, FiniteSetTheorems, TLAPS

(***************************************************************************)
(* Gateway.                                                                *)
(***************************************************************************)

\* A forwarded request has a member.
Aimed ==
  \A r \in Requests :
    phase[r] \in {"sent", "streaming"} => target[r] \in Deployments

\* There is something to ask for.
LEMMA SomeAskType == SomeAsk \in Asks
<1>1. PICK n \in Names : TRUE
  BY GatewayAssumption DEF GatewayAssumption
<1>2. [name |-> n, modality |-> PathModality("embeddings")] \in Asks
  BY DEF Asks, ForwardedPaths
<1> QED BY <1>2 DEF SomeAsk

\* An answered slot is well typed.
LEMMA AnsweredType ==
  ASSUME GatewayTypeOK, NEW r \in Requests, Answered(r)
  PROVE  /\ phase' \in [Requests -> Phases]
         /\ asked' \in [Requests -> Asks]
         /\ rows' \in [Requests -> PoolRows]
         /\ target' \in [Requests -> Deployments \cup {-1}]
<1>1. NoRows \in PoolRows BY DEF NoRows, PoolRows
<1>2. "idle" \in Phases BY DEF Phases
<1> QED BY <1>1, <1>2, SomeAskType DEF GatewayTypeOK, Answered

\* The rotation stays below its wrap.
LEMMA WrappedType ==
  ASSUME GatewayTypeOK, NEW n \in Names
  PROVE  Wrapped(NextRotation(n)) \in 0..(Wrap - 1)
<1>1. rotation[n] + 1 \in Nat /\ Wrap \in Nat \ {0}
  BY GatewayAssumption DEF GatewayTypeOK, GatewayAssumption
<1> QED BY <1>1 DEF Wrapped, NextRotation

\* Every variable keeps its type.
THEOREM GatewayTypeCorrect == GatewaySpec => []GatewayTypeOK
<1>1. GatewayInit => GatewayTypeOK
  <2> SUFFICES ASSUME GatewayInit PROVE GatewayTypeOK
    OBVIOUS
  <2>1. 0 \in 0..(Wrap - 1) /\ 0 \in 0..MaxChanges
    BY GatewayAssumption DEF GatewayAssumption
  <2>2. NoRows \in PoolRows BY DEF NoRows, PoolRows
  <2>3. NoTie \in [tied : SUBSET Deployments, choice : Deployments \cup {-1}]
    BY DEF NoTie
  <2> QED BY <2>1, <2>2, <2>3, SomeAskType
          DEF GatewayInit, GatewayTypeOK, RowStates, Phases
<1>2. GatewayTypeOK /\ [GatewayNext]_gatewayVars => GatewayTypeOK'
  <2> SUFFICES ASSUME GatewayTypeOK, [GatewayNext]_gatewayVars PROVE GatewayTypeOK'
    OBVIOUS
  <2>1. ASSUME NEW r \in Requests, NEW ask \in Asks, Receive(r, ask)
        PROVE GatewayTypeOK'
    BY <2>1 DEF Receive, GatewayTypeOK, Phases
  <2>2. ASSUME NEW r \in Requests, Query(r) PROVE GatewayTypeOK'
    <3>1. [named |-> Candidates(asked[r].name),
           ready |-> {d \in Candidates(asked[r].name) : poolRow[d] = "ready"}]
             \in PoolRows
      BY DEF Candidates, PoolRows
    <3> QED BY <2>2, <3>1 DEF Query, GatewayTypeOK, Phases
  <2>3. ASSUME NEW r \in Requests, Route(r) PROVE GatewayTypeOK'
    <3>1. asked[r].name \in Names BY DEF GatewayTypeOK, Asks
    <3>2. Wrapped(NextRotation(asked[r].name)) \in 0..(Wrap - 1)
      BY <3>1, WrappedType
    <3>3. NoTie \in [tied : SUBSET Deployments, choice : Deployments \cup {-1}]
      BY DEF NoTie
    <3>4. UNCHANGED <<poolRow, online, changes>> BY <2>3 DEF Route
    <3>5. CASE Answered(r) /\ UNCHANGED <<counts, rotation, last>>
      BY <3>4, <3>5, AnsweredType DEF GatewayTypeOK
    <3>6. CASE /\ Answered(r)
               /\ rotation' = [rotation EXCEPT ![asked[r].name] =
                                 Wrapped(NextRotation(asked[r].name))]
               /\ last' = [last EXCEPT ![asked[r].name] = NoTie]
               /\ UNCHANGED counts
      <4>1. rotation' \in [Names -> 0..(Wrap - 1)]
        BY <3>1, <3>2, <3>6 DEF GatewayTypeOK
      <4>2. last' \in [Names -> [tied : SUBSET Deployments,
                                 choice : Deployments \cup {-1}]]
        BY <3>1, <3>3, <3>6 DEF GatewayTypeOK
      <4> QED BY <3>4, <3>6, <4>1, <4>2, AnsweredType DEF GatewayTypeOK
    <3>7. ASSUME NEW d \in Tied(r),
                 rotation' = [rotation EXCEPT ![asked[r].name] =
                                Wrapped(NextRotation(asked[r].name))],
                 counts' = [counts EXCEPT ![d] = Acquire(d)],
                 target' = [target EXCEPT ![r] = d],
                 phase' = [phase EXCEPT ![r] = "sent"],
                 rows' = [rows EXCEPT ![r] = NoRows],
                 last' = [last EXCEPT ![asked[r].name] =
                            [tied |-> Tied(r), choice |-> d]],
                 UNCHANGED asked
          PROVE GatewayTypeOK'
      <4>1. Tied(r) \subseteq Deployments
        BY DEF Tied, Eligible, GatewayTypeOK, PoolRows
      <4>2. [tied |-> Tied(r), choice |-> d]
              \in [tied : SUBSET Deployments, choice : Deployments \cup {-1}]
        BY <3>7, <4>1
      <4>3. last' \in [Names -> [tied : SUBSET Deployments,
                                 choice : Deployments \cup {-1}]]
        BY <3>1, <3>7, <4>2 DEF GatewayTypeOK
      <4>4. rotation' \in [Names -> 0..(Wrap - 1)]
        BY <3>1, <3>2, <3>7 DEF GatewayTypeOK
      <4>5. counts' \in [Deployments -> Nat]
        BY <3>7, <4>1 DEF Acquire, GatewayTypeOK
      <4>6. rows' \in [Requests -> PoolRows]
        BY <3>7 DEF GatewayTypeOK, PoolRows, NoRows
      <4>7. /\ phase' \in [Requests -> Phases]
            /\ target' \in [Requests -> Deployments \cup {-1}]
        BY <3>7, <4>1 DEF GatewayTypeOK, Phases
      <4> QED BY <3>4, <3>7, <4>3, <4>4, <4>5, <4>6, <4>7 DEF GatewayTypeOK
    <3> QED BY <2>3, <3>5, <3>6, <3>7 DEF Route
  <2>4. ASSUME NEW r \in Requests, Headers(r) PROVE GatewayTypeOK'
    BY <2>4 DEF Headers, GatewayTypeOK, Phases
  <2>5. ASSUME NEW r \in Requests, UpstreamEnds(r) \/ UpstreamFails(r)
        PROVE GatewayTypeOK'
    <3>1. counts' \in [Deployments -> Nat]
      <4>1. counts' = [counts EXCEPT ![target[r]] = Release(target[r])]
        BY <2>5 DEF UpstreamEnds, UpstreamFails
      <4>2. CASE target[r] \in Deployments
        <5>1. Release(target[r]) \in Nat BY <4>2 DEF Release, GatewayTypeOK
        <5> QED BY <4>1, <4>2, <5>1 DEF GatewayTypeOK
      <4>3. CASE target[r] \notin Deployments
        BY <4>1, <4>3 DEF GatewayTypeOK
      <4> QED BY <4>2, <4>3
    <3>2. Answered(r) /\ UNCHANGED <<poolRow, online, rotation, last, changes>>
      BY <2>5 DEF UpstreamEnds, UpstreamFails
    <3> QED BY <3>1, <3>2, AnsweredType DEF GatewayTypeOK
  <2>6. ASSUME NEW d \in Deployments, AgentChanges(d) PROVE GatewayTypeOK'
    BY <2>6, GatewayAssumption DEF AgentChanges, GatewayTypeOK, GatewayAssumption
  <2>7. ASSUME NEW d \in Deployments, NEW s \in RowStates, RowChanges(d, s)
        PROVE GatewayTypeOK'
    BY <2>7, GatewayAssumption DEF RowChanges, GatewayTypeOK, GatewayAssumption
  <2>8. CASE UNCHANGED gatewayVars BY <2>8 DEF gatewayVars, GatewayTypeOK
  <2> QED BY <2>1, <2>2, <2>3, <2>4, <2>5, <2>6, <2>7, <2>8
          DEF GatewayNext, RequestStep
<1> QED BY <1>1, <1>2, PTL DEF GatewaySpec

(***************************************************************************)
(* Accounting.                                                             *)
(***************************************************************************)
\* A forwarded request has a member, and the counts are exact.
Accounted == Aimed /\ CountsExact

\* The requests forwarded to a member are finitely many.
LEMMA InFlightFinite ==
  ASSUME NEW d PROVE IsFiniteSet(InFlightTo(d))
BY GatewayAssumption, FS_Subset DEF GatewayAssumption, InFlightTo

\* A step that forwards nothing and ends nothing leaves the accounts alone.
LEMMA AccountsKept ==
  ASSUME Accounted, UNCHANGED counts,
         \A r \in Requests :
           \/ phase'[r] = phase[r] /\ target'[r] = target[r]
           \/ phase[r] \notin {"sent", "streaming"}
                /\ phase'[r] \notin {"sent", "streaming"}
           \/ /\ phase[r] \in {"sent", "streaming"}
              /\ phase'[r] \in {"sent", "streaming"}
              /\ target'[r] = target[r]
  PROVE  Accounted'
<1>1. \A d \in Deployments : InFlightTo(d)' = InFlightTo(d)
  BY DEF InFlightTo
<1> QED BY <1>1 DEF Accounted, Aimed, CountsExact

\* A request that is answered is taken off the count of its member.
LEMMA AccountsReleased ==
  ASSUME GatewayTypeOK, Accounted, NEW r \in Requests,
         phase[r] \in {"sent", "streaming"}, Answered(r),
         counts' = [counts EXCEPT ![target[r]] = Release(target[r])]
  PROVE  Accounted'
<1>1. PICK d \in Deployments : target[r] = d
  BY DEF Accounted, Aimed
<1>2. phase'[r] = "idle"
  BY DEF Answered, GatewayTypeOK
<1>3. \A q \in Requests \ {r} :
        phase'[q] = phase[q] /\ target'[q] = target[q]
  BY DEF Answered, GatewayTypeOK
<1>4. Aimed'
  BY <1>2, <1>3 DEF Accounted, Aimed
<1>5. r \in InFlightTo(d) /\ InFlightTo(d)' = InFlightTo(d) \ {r}
  BY <1>1, <1>2, <1>3 DEF InFlightTo
<1>6. \A e \in Deployments \ {d} : InFlightTo(e)' = InFlightTo(e)
  BY <1>1, <1>2, <1>3 DEF InFlightTo
<1>7. counts'[d] = Cardinality(InFlightTo(d)')
  <2>1. Cardinality(InFlightTo(d)') = Cardinality(InFlightTo(d)) - 1
    BY <1>5, InFlightFinite, FS_RemoveElement
  <2>2. Cardinality(InFlightTo(d)') \in Nat
    BY <1>5, InFlightFinite, FS_RemoveElement, FS_CardinalityType
  <2>3. counts[d] = Cardinality(InFlightTo(d)) /\ counts[d] \in Nat
    BY DEF Accounted, CountsExact, GatewayTypeOK
  <2>4. counts'[d] = Release(d)
    BY <1>1 DEF GatewayTypeOK
  <2> QED BY <2>1, <2>2, <2>3, <2>4 DEF Release
<1>8. \A e \in Deployments \ {d} : counts'[e] = counts[e]
  BY <1>1 DEF GatewayTypeOK
<1>9. CountsExact'
  BY <1>6, <1>7, <1>8 DEF CountsExact, Accounted
<1> QED BY <1>4, <1>9 DEF Accounted

\* A request that is forwarded is put on the count of its member.
LEMMA AccountsAcquired ==
  ASSUME GatewayTypeOK, Accounted, NEW r \in Requests, NEW d \in Deployments,
         phase[r] = "rows",
         counts' = [counts EXCEPT ![d] = Acquire(d)],
         target' = [target EXCEPT ![r] = d],
         phase' = [phase EXCEPT ![r] = "sent"]
  PROVE  Accounted'
<1>1. phase'[r] = "sent" /\ target'[r] = d
  BY DEF GatewayTypeOK
<1>2. \A q \in Requests \ {r} :
        phase'[q] = phase[q] /\ target'[q] = target[q]
  BY DEF GatewayTypeOK
<1>3. Aimed'
  BY <1>1, <1>2 DEF Accounted, Aimed
<1>4. r \notin InFlightTo(d) /\ InFlightTo(d)' = InFlightTo(d) \cup {r}
  BY <1>1, <1>2 DEF InFlightTo
<1>5. \A e \in Deployments \ {d} : InFlightTo(e)' = InFlightTo(e)
  BY <1>1, <1>2 DEF InFlightTo
<1>6. counts'[d] = Cardinality(InFlightTo(d)')
  <2>1. Cardinality(InFlightTo(d)') = Cardinality(InFlightTo(d)) + 1
    BY <1>4, InFlightFinite, FS_AddElement
  <2>2. counts[d] = Cardinality(InFlightTo(d))
    BY DEF Accounted, CountsExact
  <2>3. counts'[d] = counts[d] + 1
    BY DEF GatewayTypeOK, Acquire
  <2> QED BY <2>1, <2>2, <2>3
<1>7. \A e \in Deployments \ {d} : counts'[e] = counts[e]
  BY DEF GatewayTypeOK
<1>8. CountsExact'
  BY <1>5, <1>6, <1>7 DEF CountsExact, Accounted
<1> QED BY <1>3, <1>8 DEF Accounted

\* The accounts survive every step.
LEMMA AccountedStep ==
  ASSUME GatewayTypeOK, Accounted, [GatewayNext]_gatewayVars
  PROVE  Accounted'
<1>1. ASSUME NEW r \in Requests, NEW ask \in Asks, Receive(r, ask)
      PROVE Accounted'
  BY <1>1, AccountsKept DEF Receive, GatewayTypeOK
<1>2. ASSUME NEW r \in Requests, Query(r) PROVE Accounted'
  BY <1>2, AccountsKept DEF Query, GatewayTypeOK
<1>3. ASSUME NEW r \in Requests, Route(r) PROVE Accounted'
  <2>1. CASE Answered(r) /\ UNCHANGED counts
    BY <1>3, <2>1, AccountsKept DEF Route, Answered, GatewayTypeOK
  <2>2. ASSUME NEW d \in Tied(r),
               counts' = [counts EXCEPT ![d] = Acquire(d)],
               target' = [target EXCEPT ![r] = d],
               phase' = [phase EXCEPT ![r] = "sent"]
        PROVE Accounted'
    <3>1. d \in Deployments
      BY DEF Tied, Eligible, GatewayTypeOK, PoolRows
    <3>2. phase[r] = "rows" BY <1>3 DEF Route
    <3> QED BY <2>2, <3>1, <3>2, AccountsAcquired
  <2> QED BY <1>3, <2>1, <2>2 DEF Route
<1>4. ASSUME NEW r \in Requests, Headers(r) PROVE Accounted'
  BY <1>4, AccountsKept DEF Headers, GatewayTypeOK
<1>5. ASSUME NEW r \in Requests, UpstreamEnds(r) \/ UpstreamFails(r)
      PROVE Accounted'
  BY <1>5, AccountsReleased DEF UpstreamEnds, UpstreamFails
<1>6. ASSUME NEW d \in Deployments, AgentChanges(d) PROVE Accounted'
  BY <1>6, AccountsKept DEF AgentChanges
<1>7. ASSUME NEW d \in Deployments, NEW s \in RowStates, RowChanges(d, s)
      PROVE Accounted'
  BY <1>7, AccountsKept DEF RowChanges
<1>8. CASE UNCHANGED gatewayVars BY <1>8, AccountsKept DEF gatewayVars
<1> QED BY <1>1, <1>2, <1>3, <1>4, <1>5, <1>6, <1>7, <1>8
        DEF GatewayNext, RequestStep

\* Nothing is forwarded at the start.
LEMMA AccountedInit == GatewayInit => Accounted
<1> SUFFICES ASSUME GatewayInit PROVE Accounted
  OBVIOUS
<1>1. \A d \in Deployments : InFlightTo(d) = {}
  BY DEF GatewayInit, InFlightTo
<1> QED BY <1>1, FS_EmptySet DEF GatewayInit, Accounted, Aimed, CountsExact

\* inflight.ts: no request ever leaks a count or is counted twice, whichever
\* way it ends and however many are under way.
THEOREM CountsExactCorrect == GatewaySpec => []CountsExact
<1>1. Accounted => CountsExact BY DEF Accounted
<1>2. GatewayTypeOK /\ Accounted /\ [GatewayNext]_gatewayVars => Accounted' BY AccountedStep
<1> QED BY <1>1, <1>2, AccountedInit, GatewayTypeCorrect, PTL DEF GatewaySpec

\* A request is forwarded by its own Route and by no other step.
LEMMA ForwardedByRoute ==
  ASSUME GatewayTypeOK, [GatewayNext]_gatewayVars, NEW r \in Requests,
         phase[r] = "rows", phase'[r] = "sent"
  PROVE  Route(r)
<1>1. ASSUME NEW q \in Requests, q # r,
             RequestStep(q)
      PROVE FALSE
  BY <1>1 DEF RequestStep, Receive, Query, Route, Headers,
     UpstreamEnds, UpstreamFails, Answered, GatewayTypeOK
<1>2. ASSUME RequestStep(r) PROVE Route(r)
  BY <1>2 DEF RequestStep, Receive, Query, Headers, UpstreamEnds,
     UpstreamFails, Answered, GatewayTypeOK
<1> QED BY <1>1, <1>2 DEF GatewayNext, AgentChanges, RowChanges, gatewayVars

\* selection.ts: every request goes to an eligible member that really has the
\* fewest requests in flight at that moment.
THEOREM LeastOutstandingCorrect == GatewaySpec => LeastOutstanding
<1> DEFINE Least ==
      \A r \in Requests :
        phase[r] = "rows" /\ phase'[r] = "sent" =>
          \A e \in Eligible(r) :
            Cardinality(InFlightTo(target'[r])) <= Cardinality(InFlightTo(e))
<1>1. ASSUME GatewayTypeOK, CountsExact, [GatewayNext]_gatewayVars PROVE Least
  <2> SUFFICES ASSUME NEW r \in Requests, phase[r] = "rows",
                      phase'[r] = "sent", NEW e \in Eligible(r)
               PROVE  Cardinality(InFlightTo(target'[r]))
                        <= Cardinality(InFlightTo(e))
    OBVIOUS
  <2>1. Route(r)
    BY <1>1, ForwardedByRoute
  <2>2. target'[r] \in Tied(r)
    BY <1>1, <2>1 DEF Route, Answered, GatewayTypeOK
  <2>3. Eligible(r) \subseteq Deployments
    BY <1>1 DEF Eligible, GatewayTypeOK, PoolRows
  <2>4. /\ target'[r] \in Deployments /\ e \in Deployments
        /\ counts[target'[r]] <= counts[e]
    BY <2>2, <2>3 DEF Tied
  <2> QED BY <1>1, <2>4 DEF CountsExact
<1>2. GatewayTypeOK /\ CountsExact /\ [GatewayNext]_gatewayVars
        => [Least]_gatewayVars
  BY <1>1
<1> QED BY <1>2, GatewayTypeCorrect, CountsExactCorrect, PTL
        DEF GatewaySpec, LeastOutstanding

(***************************************************************************)
(* Rotation.                                                               *)
(***************************************************************************)

\* The stored rotation is the one the last choice from a tie was made with,
\* unless it has wrapped since.
RotationRemembered ==
  \A n \in Names :
    last[n].tied # {} /\ rotation[n] # 0 =>
      NthOf(last[n].choice, last[n].tied,
            rotation[n] % Cardinality(last[n].tied))

\* Successive rotations select different places of a tie of several members.
LEMMA SuccessorsDiffer ==
  ASSUME NEW a \in Nat, NEW k \in Nat, k > 1
  PROVE  (a + 1) % k # a % k
<1> DEFINE p == a \div k
           q == (a + 1) \div k
<1>1. /\ p \in Int /\ q \in Int
      /\ a = k * p + (a % k)
      /\ a + 1 = k * q + ((a + 1) % k)
  OBVIOUS
<1> HIDE DEF p, q
<1>2. SUFFICES ASSUME (a + 1) % k = a % k PROVE FALSE
  OBVIOUS
<1>3. k * q = k * p + 1
  BY <1>1, <1>2
<1>4. k * (q - p) = 1
  BY <1>1, <1>3
<1>5. CASE q - p <= 0
  BY <1>1, <1>4, <1>5
<1>6. CASE q - p >= 1
  BY <1>1, <1>4, <1>6
<1> QED BY <1>1, <1>5, <1>6

\* What forwarding leaves of the rotation and of the last choice.
LEMMA Forwarding ==
  ASSUME GatewayTypeOK, NEW r \in Requests, Route(r), phase'[r] = "sent"
  PROVE  LET n == asked[r].name
         IN /\ n \in Names
            /\ rotation' = [rotation EXCEPT ![n] = (rotation[n] + 1) % Wrap]
            /\ \E d \in Tied(r) :
                 /\ last' = [last EXCEPT ![n] = [tied |-> Tied(r), choice |-> d]]
                 /\ NthOf(d, Tied(r), (rotation[n] + 1) % Cardinality(Tied(r)))
<1>1. asked[r].name \in Names BY DEF GatewayTypeOK, Asks
<1>2. ~Answered(r) BY DEF Answered, GatewayTypeOK
<1> QED BY <1>1, <1>2 DEF Route, Wrapped, NextRotation

\* The rotation is remembered through every step.
LEMMA RememberedStep ==
  ASSUME GatewayTypeOK, RotationRemembered, [GatewayNext]_gatewayVars
  PROVE  RotationRemembered'
<1>1. CASE UNCHANGED <<rotation, last>>
  BY <1>1 DEF RotationRemembered, NthOf
<1>2. ASSUME NEW r \in Requests, Route(r) PROVE RotationRemembered'
  <2> DEFINE n == asked[r].name
  <2>1. n \in Names BY DEF GatewayTypeOK, Asks
  <2>2. CASE UNCHANGED <<rotation, last>> BY <1>1, <2>2
  <2>3. CASE /\ last' = [last EXCEPT ![n] = NoTie]
             /\ rotation' = [rotation EXCEPT ![n] = Wrapped(NextRotation(n))]
    <3>1. last'[n].tied = {} BY <2>1, <2>3 DEF NoTie, GatewayTypeOK
    <3>2. \A m \in Names \ {n} : last'[m] = last[m] /\ rotation'[m] = rotation[m]
      BY <2>3 DEF GatewayTypeOK
    <3> QED BY <3>1, <3>2 DEF RotationRemembered, NthOf
  <2>4. CASE phase'[r] = "sent"
    <3>1. PICK d \in Tied(r) :
            /\ last' = [last EXCEPT ![n] = [tied |-> Tied(r), choice |-> d]]
            /\ NthOf(d, Tied(r), (rotation[n] + 1) % Cardinality(Tied(r)))
      BY <1>2, <2>4, Forwarding
    <3>2. rotation' = [rotation EXCEPT ![n] = (rotation[n] + 1) % Wrap]
      BY <1>2, <2>4, Forwarding
    <3>3. \A m \in Names \ {n} : last'[m] = last[m] /\ rotation'[m] = rotation[m]
      BY <3>1, <3>2 DEF GatewayTypeOK
    <3>4. last'[n] = [tied |-> Tied(r), choice |-> d]
      BY <2>1, <3>1 DEF GatewayTypeOK
    <3>5. rotation'[n] # 0 => rotation'[n] = rotation[n] + 1
      <4>1. /\ rotation[n] \in Nat /\ rotation[n] < Wrap
            /\ Wrap \in Nat \ {0}
        BY <2>1, GatewayAssumption DEF GatewayTypeOK, GatewayAssumption
      <4>2. rotation'[n] = (rotation[n] + 1) % Wrap
        BY <2>1, <3>2 DEF GatewayTypeOK
      <4>3. CASE rotation[n] + 1 < Wrap
        <5>1. (rotation[n] + 1) % Wrap = rotation[n] + 1
          BY <4>1, <4>3
        <5> QED BY <4>2, <5>1
      <4>4. CASE rotation[n] + 1 = Wrap
        <5>1. Wrap % Wrap = 0 BY <4>1
        <5> QED BY <4>2, <4>4, <5>1
      <4> QED BY <4>1, <4>3, <4>4
    <3>6. rotation'[n] # 0 =>
            NthOf(d, Tied(r), rotation'[n] % Cardinality(Tied(r)))
      BY <3>1, <3>5
    <3>7. ASSUME NEW m \in Names, last'[m].tied # {}, rotation'[m] # 0
          PROVE  Cardinality({e \in last'[m].tied : e < last'[m].choice})
                   = rotation'[m] % Cardinality(last'[m].tied)
      <4>1. CASE m = n BY <3>4, <3>6, <3>7, <4>1 DEF NthOf
      <4>2. CASE m # n BY <3>3, <3>7, <4>2 DEF RotationRemembered, NthOf
      <4> QED BY <4>1, <4>2
    <3> QED BY <3>7 DEF RotationRemembered, NthOf
  <2> QED BY <1>2, <2>2, <2>3, <2>4 DEF Route, GatewayTypeOK
<1> QED BY <1>1, <1>2
        DEF GatewayNext, RequestStep, Receive, Query, Headers, UpstreamEnds,
            UpstreamFails, Answered, AgentChanges, RowChanges, gatewayVars

\* rotation.ts: a name's consecutive choices from the same tie differ, for pools
\* of any size and any wrap of the counter, except where it wraps.
THEOREM EvenRotationCorrect == GatewaySpec => EvenRotation
<1> DEFINE Even ==
      \A r \in Requests :
        LET n == asked[r].name
        IN /\ phase[r] = "rows" /\ phase'[r] = "sent"
           /\ last'[n].tied = last[n].tied
           /\ Cardinality(last[n].tied) > 1
           /\ rotation[n] # 0
           => last'[n].choice # last[n].choice
<1>1. GatewayInit => RotationRemembered
  BY DEF GatewayInit, RotationRemembered, NoTie
<1>2. GatewayTypeOK /\ RotationRemembered /\ [GatewayNext]_gatewayVars
        => RotationRemembered'
  BY RememberedStep
<1>3. ASSUME GatewayTypeOK, RotationRemembered, [GatewayNext]_gatewayVars
      PROVE Even
  <2> SUFFICES ASSUME NEW r \in Requests, phase[r] = "rows",
                      phase'[r] = "sent",
                      last'[asked[r].name].tied = last[asked[r].name].tied,
                      Cardinality(last[asked[r].name].tied) > 1,
                      rotation[asked[r].name] # 0,
                      last'[asked[r].name].choice = last[asked[r].name].choice
               PROVE  FALSE
    OBVIOUS
  <2> DEFINE n == asked[r].name
             k == Cardinality(Tied(r))
  <2>1. Route(r) BY <1>3, ForwardedByRoute
  <2>2. n \in Names BY <1>3 DEF GatewayTypeOK, Asks
  <2>3. PICK d \in Tied(r) :
          /\ last' = [last EXCEPT ![n] = [tied |-> Tied(r), choice |-> d]]
          /\ NthOf(d, Tied(r), (rotation[n] + 1) % k)
    BY <1>3, <2>1, Forwarding
  <2>4. last[n].tied = Tied(r) /\ last[n].choice = d
    BY <1>3, <2>2, <2>3 DEF GatewayTypeOK
  <2>5. NthOf(d, Tied(r), rotation[n] % k)
    BY <1>3, <2>2, <2>3, <2>4 DEF RotationRemembered
  <2>6. (rotation[n] + 1) % k = rotation[n] % k
    BY <2>3, <2>5 DEF NthOf
  <2>7. k \in Nat
    <3>1. Tied(r) \subseteq Deployments
      BY <1>3 DEF Tied, Eligible, GatewayTypeOK, PoolRows
    <3>2. IsFiniteSet(Tied(r))
      BY <3>1, GatewayAssumption, FS_Subset DEF GatewayAssumption
    <3> QED BY <3>2, FS_CardinalityType
  <2>8. k > 1 BY <2>4
  <2>9. rotation[n] \in Nat
    BY <1>3, <2>2, GatewayAssumption DEF GatewayTypeOK, GatewayAssumption
  <2> HIDE DEF n, k
  <2> QED BY <2>6, <2>7, <2>8, <2>9, SuccessorsDiffer
<1>4. GatewayTypeOK /\ RotationRemembered /\ [GatewayNext]_gatewayVars
        => [Even]_gatewayVars
  BY <1>3
<1> QED BY <1>1, <1>2, <1>4, GatewayTypeCorrect, PTL
        DEF GatewaySpec, EvenRotation

(***************************************************************************)
(* Benchmark: what a step does to the calls under way and to the thread.   *)
(***************************************************************************)

\* What the calls under way become when the thread stops waiting: the others stay,
\* and a request of its own that is still to be carried out is nobody's.
Remains(rest) ==
  \A r \in rest :
    \/ r \in net /\ r.tag # "cur"
    \/ /\ r.tag = "stale" /\ r.at = "asked"
       /\ \E q \in net : /\ q.tag = "cur" /\ q.at = "asked" /\ q.name = r.name
                         /\ q.name \in {"job.start", "job.cancel"}
                         /\ r = [q EXCEPT !.tag = "stale"]

\* An answer is an error, one that belongs to an earlier manager's other call, or
\* what some call under way to the same capability was answered.
Given(a) ==
  \/ a.val = "error" /\ a.slip # "mixup"
  \/ a.val = "wrong" /\ a.slip = "mixup"
  \/ \E q \in net :
       /\ q.at = "answered" /\ q.name = Called[thread.at]
       /\ q.val = a.val /\ q.to = a.to
       /\ \/ q.tag = "cur" /\ a.slip = "none"
          \/ q.tag = "old" /\ a.slip = "mixup"

\* A request is one of the calls.
LEMMA RequestType ==
  ASSUME NEW name \in Caps, NEW tag \in {"cur", "old", "stale"}
  PROVE  /\ Request(name, tag) \in Calls
         /\ Request(name, tag).name = name /\ Request(name, tag).tag = tag
         /\ Request(name, tag).at = "asked" /\ Request(name, tag).val = "none"
         /\ Request(name, tag).to = 0
<1>1. 0 \in Nat BY BenchmarkAssumption DEF BenchmarkAssumption
<1> QED BY <1>1 DEF Request, Calls, Caps, Values

\* The capability of every place.
LEMMA CalledValues ==
  /\ DOMAIN Called = {"bootstatus", "bootcancel", "start", "logs", "status",
                      "probe", "tail", "result"}
  /\ Called["bootstatus"] = "job.status" /\ Called["bootcancel"] = "job.cancel"
  /\ Called["start"] = "job.start" /\ Called["logs"] = "job.logs"
  /\ Called["status"] = "job.status" /\ Called["probe"] = "job.result"
  /\ Called["tail"] = "job.logs" /\ Called["result"] = "job.result"
  /\ \A p \in DOMAIN Called : Called[p] \in Caps /\ p \in Places
BY DEF Called, Caps, Places

\* The types of the parts of the state.
LEMMA Types ==
  ASSUME TypeOK
  PROVE  /\ row.status \in Statuses /\ row.error \in Errors
         /\ row.logOffset \in Nat
         /\ thread.at \in Places /\ thread.why \in Errors
         /\ thread.skipStart \in BOOLEAN /\ thread.offset \in Nat
         /\ thread.code \in {"none", "ok", "bad"} /\ thread.raw \in Results
         /\ thread.unsaved \in BOOLEAN
         /\ job.unit \in {"none", "live", "copied", "done", "stopping", "gone"}
         /\ job.rc \in {"none", "ok", "bad"} /\ job.exitFile \in BOOLEAN
         /\ job.result \in Results /\ job.size \in Nat
         /\ log.bytes \in Nat /\ log.twice \in BOOLEAN
         /\ net \subseteq Calls /\ 0 \in Nat
BY BenchmarkAssumption DEF TypeOK, BenchmarkAssumption

\* What is left of some of the calls is typed, and remains.
LEMMA AbandonedRemains ==
  ASSUME NEW S, S \subseteq net, net \subseteq Calls
  PROVE  Abandoned(S) \subseteq Calls /\ Remains(Abandoned(S))
<1>1. ASSUME NEW r \in S
      PROVE  /\ [r EXCEPT !.tag = "stale"] \in Calls
             /\ [r EXCEPT !.tag = "stale"].tag = "stale"
             /\ [r EXCEPT !.tag = "stale"].at = r.at
             /\ [r EXCEPT !.tag = "stale"].name = r.name
  BY <1>1 DEF Calls
<1>2. ASSUME NEW r \in Abandoned(S)
      PROVE  \/ r \in net /\ r.tag # "cur"
             \/ \E q \in S : /\ q.tag = "cur" /\ q.at = "asked"
                             /\ q.name \in {"job.start", "job.cancel"}
                             /\ r = [q EXCEPT !.tag = "stale"]
  BY <1>2 DEF Abandoned
<1>3. Abandoned(S) \subseteq Calls BY <1>1, <1>2
<1>4. ASSUME NEW r \in Abandoned(S)
      PROVE  \/ r \in net /\ r.tag # "cur"
             \/ /\ r.tag = "stale" /\ r.at = "asked"
                /\ \E q \in net : /\ q.tag = "cur" /\ q.at = "asked"
                                  /\ q.name = r.name
                                  /\ q.name \in {"job.start", "job.cancel"}
                                  /\ r = [q EXCEPT !.tag = "stale"]
  <2>1. CASE r \in net /\ r.tag # "cur" BY <2>1
  <2>2. ASSUME NEW q \in S, q.tag = "cur", q.at = "asked",
               q.name \in {"job.start", "job.cancel"},
               r = [q EXCEPT !.tag = "stale"]
        PROVE  /\ r.tag = "stale" /\ r.at = "asked" /\ q \in net
               /\ q.name = r.name
    BY <1>1, <2>2
  <2> QED BY <1>2, <2>1, <2>2
<1> QED BY <1>3, <1>4 DEF Remains

\* The thread has one call under way at most, to the capability of its place.
CallInv ==
  /\ \A r \in net : r.tag = "cur" =>
       thread.at \in DOMAIN Called /\ r.name = Called[thread.at]
  /\ \A r, q \in net : r.tag = "cur" /\ q.tag = "cur" => r = q
  /\ \A r \in net : r.tag = "stale" =>
       r.at = "asked" /\ r.name \in {"job.start", "job.cancel"}
  /\ \A r \in net : r.at = "shown" => r.name = "job.status"

\* The answers the thread may take.
LEMMA AnswersShape ==
  ASSUME net \subseteq Calls, CallInv, NEW a \in Answers
  PROVE  /\ thread.at \in DOMAIN Called
         /\ a.rest \subseteq Calls /\ a.to \in Nat
         /\ a.val \in Values \cup {"wrong"}
         /\ a.slip = "hiccup" => MayFault
         /\ a.slip = "mixup" => mixups < MaxMixups
         /\ Remains(a.rest)
         /\ Given(a)
<1> USE DEF Taken
<1>0. thread.at \in DOMAIN Called BY DEF Answers
<1>1. CASE a \in Replies
  <2>1. PICK q \in net : /\ q.tag = "cur" /\ q.at = "answered"
                         /\ a = Taken(q.val, q.to, net \ {q}, "none")
    BY <1>1 DEF Replies
  <2>2. a.val = q.val /\ a.to = q.to /\ a.rest = net \ {q} /\ a.slip = "none"
    BY <2>1
  <2>3. q.name = Called[thread.at] BY <2>1 DEF CallInv
  <2>4. \A r \in net \ {q} : r.tag # "cur" BY <2>1 DEF CallInv
  <2>5. Remains(a.rest) BY <2>2, <2>4 DEF Remains
  <2>6. Given(a) BY <2>1, <2>2, <2>3 DEF Given
  <2>7. q.val \in Values /\ q.to \in Nat BY DEF Calls
  <2> QED BY <1>0, <2>2, <2>5, <2>6, <2>7
<1>2. CASE a \in TimeOuts
  <2>1. PICK s \in {"none", "hiccup"} :
          /\ s = "hiccup" => MayFault
          /\ a = Taken("error", 0, Abandoned(net), s)
    BY <1>2 DEF TimeOuts
  <2>2. a.val = "error" /\ a.to = 0 /\ a.rest = Abandoned(net) /\ a.slip = s
    BY <2>1
  <2>3. Given(a) BY <2>2 DEF Given
  <2>4. 0 \in Nat /\ "error" \in Values
    BY BenchmarkAssumption DEF BenchmarkAssumption, Values
  <2> QED BY <1>0, <2>1, <2>2, <2>3, <2>4, AbandonedRemains
<1>3. CASE a \in Mixups
  <2>1. PICK q \in net :
          /\ q.tag = "old" /\ q.at = "answered" /\ mixups < MaxMixups
          /\ a = Taken(IF q.name = Called[thread.at] THEN q.val ELSE "wrong",
                       q.to, Abandoned(net \ {q}), "mixup")
    BY <1>3 DEF Mixups
  <2>2. /\ a.val = IF q.name = Called[thread.at] THEN q.val ELSE "wrong"
        /\ a.to = q.to /\ a.rest = Abandoned(net \ {q}) /\ a.slip = "mixup"
    BY <2>1
  <2>3. Given(a) BY <2>1, <2>2 DEF Given
  <2>4. q.val \in Values /\ q.to \in Nat BY DEF Calls
  <2> QED BY <1>0, <2>1, <2>2, <2>3, <2>4, AbandonedRemains
<1> QED BY <1>0, <1>1, <1>2, <1>3 DEF Answers

\* The calls under way after a step of the thread: the others', and its new one.
ThreadNet ==
  /\ net' \subseteq Calls
  /\ \A r \in net' :
       \/ r \in net /\ r.tag # "cur"
       \/ /\ r.tag = "stale" /\ r.at = "asked"
          /\ \E q \in net : /\ q.tag = "cur" /\ q.at = "asked" /\ q.name = r.name
                            /\ q.name \in {"job.start", "job.cancel"}
                            /\ r = [q EXCEPT !.tag = "stale"]
       \/ /\ thread'.at \in DOMAIN Called
          /\ r = Request(Called[thread'.at], "cur")

\* ... after the end of the manager: what the agent has received and not answered.
EndedNet ==
  /\ net' \subseteq Calls
  /\ \A r \in net' :
       /\ r.tag = "old" /\ r.at # "answered"
       /\ \E q \in net : /\ q.name = r.name /\ q.at = r.at /\ q.val = r.val
                         /\ q.to = r.to /\ r = [q EXCEPT !.tag = "old"]
       /\ r.name = "job.start" /\ r.at = "asked" => "startLate" \in happened'

\* ... after the agent has dealt with the call r.
AnsweredNet(r, val, to) ==
  /\ net' \subseteq Calls
  /\ \A x \in net' :
       \/ x \in net /\ x # r
       \/ /\ r.tag # "stale"
          /\ x = [r EXCEPT !.at = "answered", !.val = val, !.to = to]

\* The manager has ended and started again.
Ended ==
  /\ EndedNet
  /\ thread' = Fresh("boot") /\ link' = FALSE
  /\ happened \subseteq happened'
  /\ happened' \subseteq happened \cup {"lostOffset", "startLate"}
  /\ thread.unsaved => "lostOffset" \in happened'

\* The types of a thread.
Threads == [at : Places, why : Errors, skipStart : BOOLEAN,
            offset : Nat, code : {"none", "ok", "bad"},
            raw : Results, unsaved : BOOLEAN]

\* The thread makes a call.
LEMMA CallAtNet ==
  ASSUME NEW t \in Threads, NEW p \in DOMAIN Called, NEW rest,
         rest \subseteq Calls, Remains(rest), CallAt(t, p, rest)
  PROVE  ThreadNet /\ thread' = [t EXCEPT !.at = p] /\ thread'.at = p
<1>1. thread' = [t EXCEPT !.at = p] /\ thread'.at = p BY DEF CallAt, Threads
<1>2. Request(Called[p], "cur") \in Calls BY RequestType, CalledValues
<1>3. net' \subseteq rest \cup {Request(Called[p], "cur")}
  BY DEF CallAt, Invoke
<1> QED BY <1>1, <1>2, <1>3 DEF ThreadNet, Remains

\* The thread makes none.
LEMMA NoCallNet ==
  ASSUME NEW rest, rest \subseteq Calls, Remains(rest), net' = rest
  PROVE  ThreadNet
BY DEF ThreadNet, Remains

\* The manager ends.
LEMMA EndsNet ==
  ASSUME net \subseteq Calls, NEW received, ManagerEnds(received)
  PROVE  Ended
<1>1. ASSUME NEW q \in received
      PROVE  /\ q \in net /\ q.at # "answered"
             /\ [q EXCEPT !.tag = "old"] \in Calls
             /\ [q EXCEPT !.tag = "old"].tag = "old"
             /\ [q EXCEPT !.tag = "old"].name = q.name
             /\ [q EXCEPT !.tag = "old"].at = q.at
             /\ [q EXCEPT !.tag = "old"].val = q.val
             /\ [q EXCEPT !.tag = "old"].to = q.to
  BY <1>1 DEF ManagerEnds, Calls
<1>2. \A r \in net' : \E q \in received : r = [q EXCEPT !.tag = "old"]
  BY DEF ManagerEnds
<1>3. net' \subseteq Calls BY <1>1, <1>2
<1>4. ASSUME NEW q \in received, q.name = "job.start", q.at = "asked"
      PROVE  "startLate" \in happened'
  BY <1>4 DEF ManagerEnds
<1>5. ASSUME NEW r \in net'
      PROVE  /\ r.tag = "old" /\ r.at # "answered"
             /\ \E q \in net : /\ q.name = r.name /\ q.at = r.at /\ q.val = r.val
                               /\ q.to = r.to /\ r = [q EXCEPT !.tag = "old"]
             /\ r.name = "job.start" /\ r.at = "asked" => "startLate" \in happened'
  <2>1. PICK q \in received : r = [q EXCEPT !.tag = "old"] BY <1>2
  <2>2. /\ r.tag = "old" /\ q \in net /\ q.at # "answered" /\ q.name = r.name
        /\ q.at = r.at /\ q.val = r.val /\ q.to = r.to
    BY <1>1, <2>1
  <2> QED BY <1>4, <2>1, <2>2
<1>6. EndedNet BY <1>3, <1>5 DEF EndedNet
<1> QED BY <1>6 DEF Ended, ManagerEnds

\* The agent answers.
LEMMA AnswerNet ==
  ASSUME net \subseteq Calls, CallInv, NEW r \in net, NEW val \in Values,
         NEW to \in Nat, Answer(r, val, to)
  PROVE  AnsweredNet(r, val, to)
<1>1. [r EXCEPT !.at = "answered", !.val = val, !.to = to] \in Calls
  BY DEF Calls
<1> QED BY <1>1 DEF Answer, AnsweredNet

\* An answered call.
LEMMA AnsweredCall ==
  ASSUME NEW r \in Calls, NEW val, NEW to, NEW x,
         x = [r EXCEPT !.at = "answered", !.val = val, !.to = to]
  PROVE  /\ x.name = r.name /\ x.tag = r.tag /\ x.at = "answered"
         /\ x.val = val /\ x.to = to
BY DEF Calls

\* The discipline of calls survives each of these.
LEMMA CallsKept ==
  ASSUME net \subseteq Calls, CallInv,
         \/ ThreadNet
         \/ EndedNet
         \/ \E r \in net, val \in Values, to \in Nat :
              r.at # "answered" /\ AnsweredNet(r, val, to) /\ thread'.at = thread.at
         \/ net' \subseteq net /\ (thread'.at = thread.at \/ \A r \in net : r.tag # "cur")
  PROVE  CallInv'
<1>1. CASE ThreadNet
  <2>1. ASSUME NEW r \in net', r.tag = "cur"
        PROVE  /\ thread'.at \in DOMAIN Called
               /\ r = Request(Called[thread'.at], "cur")
    BY <1>1, <2>1 DEF ThreadNet
  <2>2. ASSUME NEW r \in net' , r.tag = "cur"
        PROVE  r.name = Called[thread'.at]
    BY <2>1, <2>2, RequestType, CalledValues
  <2>3. ASSUME NEW r \in net', r.tag = "stale"
        PROVE  r.at = "asked" /\ r.name \in {"job.start", "job.cancel"}
    <3>1. ~(/\ thread'.at \in DOMAIN Called
            /\ r = Request(Called[thread'.at], "cur"))
      BY <2>3, RequestType, CalledValues
    <3> QED BY <1>1, <2>3, <3>1 DEF ThreadNet, CallInv
  <2>4. ASSUME NEW r \in net', r.at = "shown"
        PROVE  r.name = "job.status"
    <3>1. ~(/\ thread'.at \in DOMAIN Called
            /\ r = Request(Called[thread'.at], "cur"))
      BY <2>4, RequestType, CalledValues
    <3> QED BY <1>1, <2>4, <3>1 DEF ThreadNet, CallInv
  <2> QED BY <2>1, <2>2, <2>3, <2>4 DEF CallInv
<1>2. CASE EndedNet
  BY <1>2 DEF EndedNet, CallInv
<1>3. ASSUME NEW r \in net, NEW val \in Values, NEW to \in Nat,
             r.at # "answered", AnsweredNet(r, val, to), thread'.at = thread.at
      PROVE  CallInv'
  <2>1. ASSUME NEW x \in net'
        PROVE  \/ x \in net /\ x # r
               \/ /\ x = [r EXCEPT !.at = "answered", !.val = val, !.to = to]
                  /\ x.name = r.name /\ x.tag = r.tag /\ x.at = "answered"
                  /\ r.tag # "stale"
    <3>1. r \in Calls OBVIOUS
    <3>2. CASE x \in net /\ x # r BY <3>2
    <3>3. CASE /\ x = [r EXCEPT !.at = "answered", !.val = val, !.to = to]
               /\ r.tag # "stale"
      BY <3>1, <3>3 DEF Calls
    <3> QED BY <1>3, <2>1, <3>2, <3>3 DEF AnsweredNet
  <2>2. ASSUME NEW x \in net', NEW y \in net', x.tag = "cur", y.tag = "cur"
        PROVE  x = y
    BY <2>1, <2>2 DEF CallInv
  <2>3. ASSUME NEW x \in net', x.tag = "cur"
        PROVE  thread'.at \in DOMAIN Called /\ x.name = Called[thread'.at]
    BY <1>3, <2>1, <2>3 DEF CallInv
  <2>4. ASSUME NEW x \in net'
        PROVE  /\ x.tag = "stale" => x.at = "asked" /\ x.name \in {"job.start", "job.cancel"}
               /\ x.at = "shown" => x.name = "job.status"
    BY <1>3, <2>1, <2>4 DEF CallInv
  <2> QED BY <2>2, <2>3, <2>4 DEF CallInv
<1>4. CASE net' \subseteq net /\ (thread'.at = thread.at \/ \A r \in net : r.tag # "cur")
  BY <1>4 DEF CallInv
<1> QED BY <1>1, <1>2, <1>3, <1>4

\* A thread that waits for nothing has no call under way.
LEMMA NoneOfItsOwn ==
  ASSUME CallInv, thread.at \notin DOMAIN Called
  PROVE  Remains(net)
BY DEF CallInv, Remains

\* The thread after each of its steps.
LEMMA StartOutcome ==
  ASSUME TypeOK, CallInv, NEW a \in Answers, TakeStart(a)
  PROVE  /\ ThreadNet /\ thread.at = "start" /\ UNCHANGED <<row, kind, link, job, log>>
         /\ thread' \in Threads
         /\ \/ a.val # "error" /\ thread' = [thread EXCEPT !.at = "logs"]
            \/ a.val = "error" /\ FinishFailed(thread, "start")
         /\ happened' = IF a \in Replies THEN happened ELSE happened \cup {"startLate"}
<1>1. thread \in Threads /\ net \subseteq Calls BY DEF TypeOK, Threads
<1>2. a.rest \subseteq Calls /\ Remains(a.rest) BY <1>1, AnswersShape
<1>3. ASSUME CallAt(thread, "logs", a.rest) PROVE ThreadNet
  BY <1>1, <1>2, <1>3, CallAtNet, CalledValues
<1>4. ASSUME net' = a.rest PROVE ThreadNet
  BY <1>2, <1>4, NoCallNet
<1>5. ASSUME CallAt(thread, "logs", a.rest) PROVE thread' \in Threads
  BY <1>1, <1>5 DEF CallAt, Threads, Places, Called
<1>6. ASSUME FinishFailed(thread, "start") PROVE thread' \in Threads
  BY <1>1, <1>6 DEF FinishFailed, Threads, Places, Errors
<1> QED BY <1>3, <1>4, <1>5, <1>6 DEF TakeStart, Resolved, CallAt

\* Draining moves the offset, and marks it unsaved.
LEMMA DrainedType ==
  ASSUME TypeOK, CallInv, NEW a \in Answers
  PROVE  /\ Drained(a) \in Threads /\ Drained(a).at = thread.at
         /\ Drained(a).why = thread.why /\ Drained(a).skipStart = thread.skipStart
         /\ Drained(a).code = thread.code /\ Drained(a).raw = thread.raw
         /\ a.val = "error" => Drained(a) = thread
         /\ a.val = "wrong" => Drained(a).offset = 0
         /\ a.val \notin {"error", "wrong"} => Drained(a).offset = a.to
         /\ thread.unsaved => Drained(a).unsaved
         /\ Drained(a).unsaved => thread.unsaved \/ Drained(a).offset # thread.offset
         /\ a.val \notin {"error", "wrong"} /\ ~Drained(a).unsaved =>
              a.to = thread.offset
<1>1. thread \in Threads /\ 0 \in Nat /\ a.to \in Nat
  BY Types, AnswersShape DEF TypeOK, Threads
<1>2. CASE a.val = "error"
  BY <1>1, <1>2 DEF Drained
<1>3. CASE a.val = "wrong"
  BY <1>1, <1>3 DEF Drained, Threads
<1>4. CASE a.val \notin {"error", "wrong"}
  <2>1. PICK b \in BOOLEAN : b = (thread.unsaved \/ a.to # thread.offset)
    OBVIOUS
  <2>2. Drained(a) = [thread EXCEPT !.offset = a.to, !.unsaved = b]
    BY <1>1, <1>4, <2>1 DEF Drained, Advanced, Threads
  <2>3. Drained(a) \in Threads /\ Drained(a).unsaved = b
    BY <1>1, <2>2 DEF Threads
  <2>4. /\ Drained(a).at = thread.at /\ Drained(a).why = thread.why
        /\ Drained(a).skipStart = thread.skipStart
        /\ Drained(a).code = thread.code /\ Drained(a).raw = thread.raw
        /\ Drained(a).offset = a.to
    BY <1>1, <2>2 DEF Threads
  <2>5. b <=> (thread.unsaved \/ a.to # thread.offset) BY <2>1
  <2> HIDE DEF Drained
  <2> QED BY <1>4, <2>3, <2>4, <2>5
<1> HIDE DEF Drained
<1> QED BY <1>2, <1>3, <1>4

\* The log after draining.
LEMMA DrainLogType ==
  ASSUME TypeOK, CallInv, NEW a \in Answers, DrainLog(a)
  PROVE  log' \in [bytes : Nat, twice : BOOLEAN, cut : BOOLEAN]
<1>1. a.to \in Nat BY AnswersShape DEF TypeOK
<1>2. log \in [bytes : Nat, twice : BOOLEAN, cut : BOOLEAN] BY DEF TypeOK
<1>3. PICK f \in {From(thread.offset, a.to)} : TRUE OBVIOUS
<1>4. PICK b \in BOOLEAN : b = (log.twice \/ (f < a.to /\ f < log.bytes)) OBVIOUS
<1>5. PICK c \in BOOLEAN : c = (log.cut \/ (f < a.to /\ BreaksLine(f))) OBVIOUS
<1>6. PICK n \in Nat : n = IF a.to > log.bytes THEN a.to ELSE log.bytes BY <1>1, <1>2
<1>7. log' = log \/ log' = [bytes |-> n, twice |-> b, cut |-> c]
  BY <1>3, <1>4, <1>5, <1>6 DEF DrainLog
<1> QED BY <1>2, <1>7

\* The only history a drain may add.
LEMMA MidlineOnly ==
  ASSUME NEW a
  PROVE  /\ ReadMidline(a) \subseteq {"midline"}
         /\ a.val \notin {"error", "wrong"} /\ BreaksLine(a.to) =>
              "midline" \in ReadMidline(a)
BY DEF ReadMidline, Chunk

\* A poll of the log goes on to the status.
LEMMA LogsOutcome ==
  ASSUME TypeOK, CallInv, NEW a \in Answers, TakeLogs(a)
  PROVE  /\ ThreadNet /\ thread.at = "logs"
         /\ UNCHANGED <<row, kind, link, job>>
         /\ happened' = happened \cup ReadMidline(a)
         /\ DrainLog(a) /\ thread' = [Drained(a) EXCEPT !.at = "status"]
         /\ thread' \in Threads
<1>1. thread \in Threads /\ net \subseteq Calls BY DEF TypeOK, Threads
<1>2. a.rest \subseteq Calls /\ Remains(a.rest) /\ a.to \in Nat
  BY <1>1, AnswersShape
<1>3. Drained(a) \in Threads BY DrainedType
<1>4. CallAt(Drained(a), "status", a.rest) BY DEF TakeLogs
<1>5. ThreadNet /\ thread' = [Drained(a) EXCEPT !.at = "status"]
  BY <1>2, <1>3, <1>4, CallAtNet, CalledValues
<1>6. thread' \in Threads BY <1>3, <1>5 DEF Threads, Places, Called
<1> QED BY <1>5, <1>6 DEF TakeLogs, Resolved

\* A fresh thread is a thread.
LEMMA FreshType ==
  ASSUME NEW p \in Places PROVE Fresh(p) \in Threads /\ Fresh(p).at = p
<1>1. 0 \in Nat BY BenchmarkAssumption DEF BenchmarkAssumption
<1> QED BY <1>1 DEF Fresh, Threads, Errors, Results

\* So is one that has ended, or is about to write its end.
LEMMA FinishType ==
  ASSUME NEW t \in Threads
  PROVE  /\ Finalize(t) => thread' \in Threads
         /\ \A why \in Errors : FinishFailed(t, why) => thread' \in Threads
BY DEF Finalize, FinishFailed, Threads, Places

\* A status leads to the probe, the final drain, a failure or the next poll.
LEMMA StatusOutcome ==
  ASSUME TypeOK, CallInv, NEW a \in Answers, TakeStatus(a)
  PROVE  /\ ThreadNet /\ thread.at = "status" /\ thread' \in Threads
         /\ UNCHANGED <<row, kind, link, job, log, happened>>
         /\ \/ a.val = "missing" /\ thread' = [thread EXCEPT !.at = "probe"]
            \/ /\ a.val \in {"ok", "bad"}
               /\ thread' = [thread EXCEPT !.code = a.val, !.at = "tail"]
            \/ a.val = "wrong" /\ FinishFailed(thread, "vanished")
            \/ thread' = [thread EXCEPT !.at = "logs"]
<1>1. thread \in Threads /\ net \subseteq Calls BY DEF TypeOK, Threads
<1>2. a.rest \subseteq Calls /\ Remains(a.rest) BY <1>1, AnswersShape
<1>3. CASE a.val = "missing"
  <2>1. CallAt(thread, "probe", a.rest) BY <1>3 DEF TakeStatus, Missing
  <2>2. ThreadNet /\ thread' = [thread EXCEPT !.at = "probe"]
    BY <1>1, <1>2, <2>1, CallAtNet, CalledValues
  <2> QED BY <1>1, <1>3, <2>2 DEF TakeStatus, Resolved, Threads, Places, Called
<1>4. CASE a.val \in {"ok", "bad"}
  <2>1. CallAt([thread EXCEPT !.code = a.val], "tail", a.rest)
    BY <1>4 DEF TakeStatus, Missing
  <2>2. [thread EXCEPT !.code = a.val] \in Threads BY <1>1, <1>4 DEF Threads
  <2>3. ThreadNet /\ thread' = [[thread EXCEPT !.code = a.val] EXCEPT !.at = "tail"]
    BY <1>2, <2>1, <2>2, CallAtNet, CalledValues
  <2>4. thread' = [thread EXCEPT !.code = a.val, !.at = "tail"]
    BY <1>1, <2>3 DEF Threads
  <2> QED BY <1>1, <1>4, <2>3, <2>4 DEF TakeStatus, Resolved, Threads, Places, Called
<1>5. CASE a.val = "wrong"
  <2>1. FinishFailed(thread, "vanished") /\ net' = a.rest
    BY <1>5 DEF TakeStatus, Missing
  <2>2. ThreadNet BY <1>2, <2>1, NoCallNet
  <2> QED BY <1>1, <1>5, <2>1, <2>2, FinishType DEF TakeStatus, Resolved, Errors
<1>6. CASE a.val \notin {"missing", "ok", "bad", "wrong"}
  <2>1. CallAt(thread, "logs", a.rest) BY <1>6 DEF TakeStatus, Missing
  <2>2. ThreadNet /\ thread' = [thread EXCEPT !.at = "logs"]
    BY <1>1, <1>2, <2>1, CallAtNet, CalledValues
  <2> QED BY <1>1, <1>6, <2>2 DEF TakeStatus, Resolved, Threads, Places, Called
<1> QED BY <1>3, <1>4, <1>5, <1>6

\* The probe of a unit that is gone leads to the final drain or a failure.
LEMMA ProbeOutcome ==
  ASSUME TypeOK, CallInv, NEW a \in Answers, TakeProbe(a)
  PROVE  /\ ThreadNet /\ thread.at = "probe" /\ thread' \in Threads
         /\ UNCHANGED <<row, kind, link, job, log>>
         /\ happened' = IF a.val = "error" THEN happened \cup {"blind"} ELSE happened
         /\ \/ /\ a.val \in {"empty", "good"}
               /\ thread' = [thread EXCEPT !.raw = a.val, !.at = "tail"]
            \/ a.val \notin {"empty", "good"} /\ FinishFailed(thread, "vanished")
<1>1. thread \in Threads /\ net \subseteq Calls BY DEF TypeOK, Threads
<1>2. a.rest \subseteq Calls /\ Remains(a.rest) BY <1>1, AnswersShape
<1>3. CASE a.val \in {"empty", "good"}
  <2>1. CallAt([thread EXCEPT !.raw = a.val], "tail", a.rest)
    BY <1>3 DEF TakeProbe
  <2>2. [thread EXCEPT !.raw = a.val] \in Threads BY <1>1, <1>3 DEF Threads, Results
  <2>3. ThreadNet /\ thread' = [[thread EXCEPT !.raw = a.val] EXCEPT !.at = "tail"]
    BY <1>2, <2>1, <2>2, CallAtNet, CalledValues
  <2>4. thread' = [thread EXCEPT !.raw = a.val, !.at = "tail"]
    BY <1>1, <2>3 DEF Threads
  <2> QED BY <1>1, <1>3, <2>3, <2>4
          DEF TakeProbe, Resolved, Threads, Places, Called, Results
<1>4. CASE a.val \notin {"empty", "good"}
  <2>1. FinishFailed(thread, "vanished") /\ net' = a.rest
    BY <1>4 DEF TakeProbe
  <2>2. ThreadNet BY <1>2, <2>1, NoCallNet
  <2> QED BY <1>1, <1>4, <2>1, <2>2, FinishType DEF TakeProbe, Resolved, Errors
<1> QED BY <1>3, <1>4

\* The final drain leads to the result, or to the end where that is known.
LEMMA TailOutcome ==
  ASSUME TypeOK, CallInv, NEW a \in Answers, TakeTail(a)
  PROVE  /\ ThreadNet /\ thread.at = "tail" /\ thread' \in Threads
         /\ UNCHANGED <<row, kind, link, job>>
         /\ DrainLog(a)
         /\ happened' = happened \cup ReadMidline(a) \cup
                        (IF a.val = "error" THEN {"tailLost"} ELSE {})
         /\ \/ /\ thread.code # "none"
               /\ thread' = [Drained(a) EXCEPT !.at = "result"]
            \/ /\ thread.code = "none"
               /\ Finalize([Drained(a) EXCEPT !.code = "ok"])
<1>1. Drained(a) \in Threads /\ net \subseteq Calls BY DrainedType DEF TypeOK
<1>2. a.rest \subseteq Calls /\ Remains(a.rest) BY <1>1, AnswersShape
<1>3. CASE thread.code # "none"
  <2>1. CallAt(Drained(a), "result", a.rest) BY <1>3 DEF TakeTail
  <2>2. ThreadNet /\ thread' = [Drained(a) EXCEPT !.at = "result"]
    BY <1>1, <1>2, <2>1, CallAtNet, CalledValues
  <2> QED BY <1>1, <1>3, <2>2 DEF TakeTail, Resolved, Threads, Places, Called
<1>4. CASE thread.code = "none"
  <2>1. Finalize([Drained(a) EXCEPT !.code = "ok"]) /\ net' = a.rest
    BY <1>4 DEF TakeTail
  <2>2. [Drained(a) EXCEPT !.code = "ok"] \in Threads BY <1>1 DEF Threads
  <2>3. thread' \in Threads BY <2>1, <2>2, FinishType
  <2>4. ThreadNet BY <1>2, <2>1, NoCallNet
  <2> QED BY <1>4, <2>1, <2>3, <2>4 DEF TakeTail, Resolved
<1> QED BY <1>3, <1>4

\* The result leads to the end.
LEMMA ResultOutcome ==
  ASSUME TypeOK, CallInv, NEW a \in Answers, TakeResult(a)
  PROVE  /\ ThreadNet /\ thread.at = "result" /\ thread' \in Threads
         /\ UNCHANGED <<row, kind, link, job, log>>
         /\ happened' = IF a.val = "error" THEN happened \cup {"blind"} ELSE happened
         /\ Finalize([thread EXCEPT !.raw = RawOutput(a)])
<1>1. thread \in Threads /\ net \subseteq Calls BY DEF TypeOK, Threads
<1>2. a.rest \subseteq Calls /\ Remains(a.rest) BY <1>1, AnswersShape
<1>3. RawOutput(a) \in Results BY DEF RawOutput, Results
<1>4. [thread EXCEPT !.raw = RawOutput(a)] \in Threads BY <1>1, <1>3 DEF Threads
<1>5. ThreadNet BY <1>2, NoCallNet DEF TakeResult
<1>6. thread' \in Threads BY <1>4, FinishType DEF TakeResult
<1> QED BY <1>5, <1>6 DEF TakeResult, Resolved

\* The thread at the end of a reconciliation that fails the run.
BootFailed(why) ==
  \/ /\ Row /\ row' = Failed(why) /\ thread' = Fresh("idle")
     /\ ThreadNet /\ UNCHANGED <<link, happened>>
  \/ ~Row /\ row' = row /\ Ended

\* BootFails is one of the two, with the calls that remain.
LEMMA BootFailsOutcome ==
  ASSUME net \subseteq Calls, NEW why \in Errors, NEW rest,
         rest \subseteq Calls, Remains(rest), BootFails(why, rest)
  PROVE  BootFailed(why)
<1>1. CASE Row
  <2>1. net' = rest BY <1>1 DEF BootFails
  <2>2. ThreadNet BY <2>1, NoCallNet
  <2> QED BY <1>1, <2>2 DEF BootFails, BootFailed
<1>2. CASE ~Row
  <2>1. PICK received \in SUBSET rest : ManagerEnds(received)
    BY <1>2 DEF BootFails
  <2>2. Ended BY <2>1, EndsNet
  <2> QED BY <1>2, <2>2 DEF BootFails, BootFailed
<1> QED BY <1>1, <1>2

\* A run is carried on where its manager left it.
Resumed ==
  thread' = [thread EXCEPT !.skipStart = TRUE, !.offset = row.logOffset,
                           !.at = IF kind = "proxied" THEN "proxy" ELSE "logs"]

\* A reconciliation fails the run, cancels it or carries it on.
LEMMA BootStatusOutcome ==
  ASSUME TypeOK, CallInv, NEW a \in Answers, TakeBootStatus(a)
  PROVE  /\ thread.at = "bootstatus" /\ UNCHANGED <<kind, job, log>>
         /\ \/ a.val = "missing" /\ BootFailed("orphan")
            \/ /\ a.val = "active" /\ kind = "proxied"
               /\ ThreadNet /\ thread' \in Threads
               /\ thread' = [thread EXCEPT !.at = "bootcancel"]
               /\ happened' = happened \cup {"proxyLost"}
               /\ UNCHANGED <<row, link>>
            \/ /\ ~(a.val = "active" /\ kind = "proxied") /\ a.val # "missing"
               /\ ThreadNet /\ thread' \in Threads
               /\ Resumed
               /\ UNCHANGED <<row, link, happened>>
<1>1. thread \in Threads /\ net \subseteq Calls BY DEF TypeOK, Threads
<1>2. a.rest \subseteq Calls /\ Remains(a.rest) BY <1>1, AnswersShape
<1>3. CASE a.val = "missing"
  <2>1. BootFails("orphan", a.rest) BY <1>3 DEF TakeBootStatus, Missing
  <2>2. BootFailed("orphan")
    BY <1>1, <1>2, <2>1, BootFailsOutcome DEF Errors
  <2> QED BY <1>3, <2>2 DEF TakeBootStatus, Resolved
<1>4. CASE a.val = "active" /\ kind = "proxied"
  <2>1. CallAt(thread, "bootcancel", a.rest)
    BY <1>4 DEF TakeBootStatus, Missing
  <2>2. ThreadNet /\ thread' = [thread EXCEPT !.at = "bootcancel"]
    BY <1>1, <1>2, <2>1, CallAtNet, CalledValues
  <2>3. thread' \in Threads BY <1>1, <2>2 DEF Threads, Places, Called
  <2>4. happened' = happened \cup {"proxyLost"} /\ UNCHANGED <<row, link>>
    BY <1>4 DEF TakeBootStatus, Missing
  <2> QED BY <1>4, <2>2, <2>3, <2>4 DEF TakeBootStatus, Resolved
<1>5. CASE ~(a.val = "active" /\ kind = "proxied") /\ a.val # "missing"
  <2> DEFINE t == [thread EXCEPT !.skipStart = TRUE, !.offset = row.logOffset]
  <2>1. Run(t, a.rest) /\ UNCHANGED <<row, link, happened>>
    BY <1>5 DEF TakeBootStatus, Missing, StartOffset
  <2>2. t \in Threads /\ t.skipStart = TRUE BY <1>1, Types DEF Threads
  <2>3. CASE kind = "proxied"
    <3>1. thread' = [t EXCEPT !.at = "proxy"] /\ net' = a.rest
      BY <2>1, <2>3 DEF Run
    <3>2. ThreadNet BY <1>2, <3>1, NoCallNet
    <3>3. thread' \in Threads BY <2>2, <3>1 DEF Threads, Places
    <3>4. Resumed BY <1>1, <2>3, <3>1 DEF Threads, Resumed
    <3> QED BY <1>5, <2>1, <3>2, <3>3, <3>4 DEF TakeBootStatus, Resolved
  <2>4. CASE kind # "proxied"
    <3>1. CallAt(t, "logs", a.rest)
      BY <2>1, <2>2, <2>4 DEF Run, Dispatch
    <3>2. ThreadNet /\ thread' = [t EXCEPT !.at = "logs"]
      BY <1>2, <2>2, <3>1, CallAtNet, CalledValues
    <3>3. thread' \in Threads BY <2>2, <3>2 DEF Threads, Places, Called
    <3>4. Resumed BY <1>1, <2>4, <3>2 DEF Threads, Resumed
    <3> QED BY <1>5, <2>1, <3>2, <3>3, <3>4 DEF TakeBootStatus, Resolved
  <2> QED BY <2>3, <2>4
<1> QED BY <1>3, <1>4, <1>5

\* ... and fails the one it has cancelled.
LEMMA BootCancelOutcome ==
  ASSUME TypeOK, CallInv, NEW a \in Answers, TakeBootCancel(a)
  PROVE  /\ thread.at = "bootcancel" /\ UNCHANGED <<kind, job, log>>
         /\ BootFailed("proxy")
<1>1. thread \in Threads /\ net \subseteq Calls BY DEF TypeOK, Threads
<1>2. a.rest \subseteq Calls /\ Remains(a.rest) BY <1>1, AnswersShape
<1>3. BootFails("proxy", a.rest) BY DEF TakeBootCancel
<1>4. BootFailed("proxy") BY <1>1, <1>2, <1>3, BootFailsOutcome DEF Errors
<1> QED BY <1>4 DEF TakeBootCancel, Resolved

\* The dispatch of a thread that waits for nothing.
LEMMA DispatchOutcome ==
  ASSUME TypeOK, CallInv, Execute \/ ProxyUp
  PROVE  /\ ThreadNet /\ thread' \in Threads
         /\ UNCHANGED <<row, kind, link, job, log, happened, bounds>>
         /\ \/ /\ thread.at = "posted" /\ kind = "proxied"
               /\ thread' = [thread EXCEPT !.at = "proxy"] /\ net' = net
            \/ /\ thread.at \in {"posted", "proxy"}
               /\ thread' = [thread EXCEPT !.at =
                               IF thread.skipStart THEN "logs" ELSE "start"]
<1>1. thread \in Threads /\ net \subseteq Calls BY DEF TypeOK, Threads
<1>2. thread.at \notin DOMAIN Called BY CalledValues DEF Execute, ProxyUp
<1>3. Remains(net) BY <1>2, NoneOfItsOwn
<1>4. ASSUME Dispatch(thread, net)
      PROVE  /\ ThreadNet /\ thread' \in Threads
             /\ thread' = [thread EXCEPT !.at =
                             IF thread.skipStart THEN "logs" ELSE "start"]
  <2> DEFINE p == IF thread.skipStart THEN "logs" ELSE "start"
  <2>1. p \in DOMAIN Called BY CalledValues
  <2>2. CallAt(thread, p, net) BY <1>4 DEF Dispatch
  <2>3. ThreadNet /\ thread' = [thread EXCEPT !.at = p]
    BY <1>1, <1>3, <2>1, <2>2, CallAtNet
  <2>4. p \in Places BY DEF Places, Called
  <2>5. thread' \in Threads BY <1>1, <2>3, <2>4 DEF Threads
  <2> QED BY <2>3, <2>5
<1>5. CASE thread.at = "posted" /\ kind = "proxied"
  <2>1. thread' = [thread EXCEPT !.at = "proxy"] /\ net' = net
    BY <1>5 DEF Execute, ProxyUp, Run
  <2>2. ThreadNet BY <1>1, <1>3, <2>1, NoCallNet
  <2> QED BY <1>1, <1>5, <2>1, <2>2 DEF Execute, ProxyUp, Threads, Places
<1>6. CASE ~(thread.at = "posted" /\ kind = "proxied")
  <2>1. Dispatch(thread, net) BY <1>6 DEF Execute, ProxyUp, Run
  <2> QED BY <1>4, <2>1 DEF Execute, ProxyUp
<1> QED BY <1>5, <1>6

\* A manager's start takes up a stale row.
LEMMA BootOutcome ==
  ASSUME TypeOK, CallInv, Boot
  PROVE  /\ ThreadNet /\ thread' \in Threads /\ thread.at = "boot"
         /\ UNCHANGED <<row, kind, link, job, log, happened, bounds>>
         /\ \/ Stale /\ thread' = [thread EXCEPT !.at = "bootstatus"]
            \/ ~Stale /\ thread' = Fresh("idle")
<1>1. thread \in Threads /\ net \subseteq Calls BY DEF TypeOK, Threads
<1>2. thread.at \notin DOMAIN Called BY CalledValues DEF Boot
<1>3. Remains(net) BY <1>2, NoneOfItsOwn
<1>4. CASE Stale
  <2>1. CallAt(thread, "bootstatus", net) BY <1>4 DEF Boot
  <2>2. ThreadNet /\ thread' = [thread EXCEPT !.at = "bootstatus"]
    BY <1>1, <1>3, <2>1, CallAtNet, CalledValues
  <2> QED BY <1>1, <1>4, <2>2 DEF Boot, Threads, Places, Called
<1>5. CASE ~Stale
  <2>1. thread' = Fresh("idle") /\ net' = net BY <1>5 DEF Boot
  <2>2. ThreadNet BY <1>1, <1>3, <2>1, NoCallNet
  <2> QED BY <1>5, <2>1, <2>2, FreshType DEF Boot, Places
<1> QED BY <1>4, <1>5

\* The write of a failure, or the end of the manager on a deleted row.
LEMMA FailWriteOutcome ==
  ASSUME TypeOK, FailWrite
  PROVE  /\ thread.at = "failwrite" /\ UNCHANGED <<kind, job, log, bounds>>
         /\ \/ /\ Row /\ row' = Failed(thread.why)
               /\ thread' = [thread EXCEPT !.at = "idle"]
               /\ UNCHANGED <<link, net, happened>>
            \/ ~Row /\ row' = row /\ Ended
<1>1. net \subseteq Calls BY DEF TypeOK
<1>2. CASE Row BY <1>2 DEF FailWrite
<1>3. CASE ~Row
  <2>1. PICK received \in SUBSET net : ManagerEnds(received)
    BY <1>3 DEF FailWrite
  <2>2. Ended BY <1>1, <2>1, EndsNet
  <2> QED BY <1>3, <2>2 DEF FailWrite
<1> QED BY <1>2, <1>3

\* A restart leaves row, job and log alone.
LEMMA RestartOutcome ==
  ASSUME TypeOK, ManagerRestart
  PROVE  Ended /\ UNCHANGED <<row, kind, job, log, hiccups, mixups>>
<1>1. net \subseteq Calls BY DEF TypeOK
<1>2. PICK received \in SUBSET net : ManagerEnds(received) BY DEF ManagerRestart
<1> QED BY <1>1, <1>2, EndsNet DEF ManagerRestart

\* ... after the first half of job.status.
ShownNet(r, val) ==
  /\ net' \subseteq Calls
  /\ \A x \in net' :
       \/ x \in net /\ x # r
       \/ x = [r EXCEPT !.at = "shown", !.val = val]

\* The fields of the calls after an answer.
LEMMA AnsweredCalls ==
  ASSUME net \subseteq Calls, NEW r \in net, NEW val \in Values,
         NEW to \in Nat, AnsweredNet(r, val, to), NEW x \in net'
  PROVE  \/ x \in net /\ x # r
         \/ /\ x.name = r.name /\ x.tag = r.tag /\ x.at = "answered"
            /\ x.val = val /\ x.to = to /\ r.tag # "stale"
<1>1. r \in Calls OBVIOUS
<1>2. CASE x = [r EXCEPT !.at = "answered", !.val = val, !.to = to]
           /\ r.tag # "stale"
  BY <1>1, <1>2 DEF Calls
<1> QED BY <1>2 DEF AnsweredNet

\* The agent's handlers.
LEMMA HandleStartOutcome ==
  ASSUME TypeOK, CallInv, NEW r \in net, NEW ok \in BOOLEAN, HandleStart(r, ok)
  PROVE  /\ r.name = "job.start" /\ r.at = "asked"
         /\ \E val \in {"done", "error"} : AnsweredNet(r, val, 0)
         /\ UNCHANGED <<row, kind, thread, link, log, happened, bounds>>
         /\ job' = job \/ job' = [job EXCEPT !.unit = "live"]
<1>1. net \subseteq Calls /\ 0 \in Nat BY Types
<1>2. PICK val \in {"done", "error"} : Answer(r, val, 0) BY DEF HandleStart
<1>3. val \in Values BY DEF Values
<1>4. AnsweredNet(r, val, 0) BY <1>1, <1>2, <1>3, AnswerNet
<1> QED BY <1>4 DEF HandleStart

\* job.status, first half.
LEMMA HandleShowOutcome ==
  ASSUME TypeOK, CallInv, NEW r \in net, NEW unknown \in BOOLEAN,
         HandleShow(r, unknown)
  PROVE  /\ r.name = "job.status" /\ r.at = "asked" /\ r.tag # "stale"
         /\ \E val \in {"error", Show} : ShownNet(r, val)
         /\ UNCHANGED <<row, kind, thread, link, job, log, happened, faults, mixups>>
<1>1. r \in Calls /\ net \subseteq Calls BY Types
<1>2. PICK val \in {"error", Show} :
        net' = (net \ {r}) \cup {[r EXCEPT !.at = "shown", !.val = val]}
  BY DEF HandleShow
<1>3. val \in Values BY <1>2 DEF Values, Show
<1>4. [r EXCEPT !.at = "shown", !.val = val] \in Calls
  BY <1>1, <1>3 DEF Calls
<1>5. ShownNet(r, val) BY <1>1, <1>2, <1>4 DEF ShownNet
<1> QED BY <1>5 DEF HandleShow, CallInv

\* job.status, second half.
LEMMA HandleStatusOutcome ==
  ASSUME TypeOK, CallInv, NEW r \in net, HandleStatus(r)
  PROVE  /\ r.name = "job.status" /\ r.at = "shown"
         /\ WithExitFile(r.val) \in Values /\ AnsweredNet(r, WithExitFile(r.val), 0)
         /\ UNCHANGED <<row, kind, thread, link, job, log, happened, bounds>>
<1>1. r \in Calls /\ net \subseteq Calls /\ 0 \in Nat BY Types
<1>2. WithExitFile(r.val) \in Values
  BY <1>1, Types DEF WithExitFile, Values, Calls
<1>3. AnsweredNet(r, WithExitFile(r.val), 0)
  BY <1>1, <1>2, AnswerNet DEF HandleStatus
<1> QED BY <1>2, <1>3 DEF HandleStatus

\* job.logs.
LEMMA HandleLogsOutcome ==
  ASSUME TypeOK, CallInv, NEW r \in net, HandleLogs(r)
  PROVE  /\ r.name = "job.logs" /\ r.at = "asked"
         /\ "done" \in Values /\ AnsweredNet(r, "done", job.size)
         /\ UNCHANGED <<row, kind, thread, link, job, log, happened, bounds>>
<1>1. net \subseteq Calls /\ job.size \in Nat BY Types
<1>2. "done" \in Values BY DEF Values
<1>3. AnsweredNet(r, "done", job.size)
  BY <1>1, <1>2, AnswerNet DEF HandleLogs
<1> QED BY <1>2, <1>3 DEF HandleLogs

\* job.result.
LEMMA HandleResultOutcome ==
  ASSUME TypeOK, CallInv, NEW r \in net, HandleResult(r)
  PROVE  /\ r.name = "job.result" /\ r.at = "asked"
         /\ job.result \in Values /\ AnsweredNet(r, job.result, 0)
         /\ UNCHANGED <<row, kind, thread, link, job, log, happened, bounds>>
<1>1. net \subseteq Calls /\ 0 \in Nat /\ job.result \in Results BY Types
<1>2. job.result \in Values BY <1>1 DEF Values, Results
<1>3. AnsweredNet(r, job.result, 0)
  BY <1>1, <1>2, AnswerNet DEF HandleResult
<1> QED BY <1>2, <1>3 DEF HandleResult

\* job.cancel.
LEMMA HandleCancelOutcome ==
  ASSUME TypeOK, CallInv, NEW r \in net, HandleCancel(r)
  PROVE  /\ r.name = "job.cancel" /\ r.at = "asked"
         /\ "done" \in Values /\ AnsweredNet(r, "done", 0)
         /\ UNCHANGED <<row, kind, thread, link, log, happened, bounds>>
         /\ job' = IF job.unit \in {"live", "copied", "done"}
                   THEN [job EXCEPT !.unit = "stopping"] ELSE job
<1>1. net \subseteq Calls /\ 0 \in Nat BY Types
<1>2. "done" \in Values BY DEF Values
<1>3. AnsweredNet(r, "done", 0)
  BY <1>1, <1>2, AnswerNet DEF HandleCancel
<1> QED BY <1>2, <1>3 DEF HandleCancel

(***************************************************************************)
(* Types and calls.                                                        *)
(***************************************************************************)

\* Nothing follows a run that has not been posted.
NotYet == row.status = "none" => thread.at = "idle"

\* Types and the discipline of calls.
Base == TypeOK /\ CallInv /\ NotYet

\* The counters stay within their bounds.
LEMMA ResolvedCounts ==
  ASSUME TypeOK, CallInv, NEW a \in Answers, NEW p, Resolved(p, a)
  PROVE  /\ hiccups' \in 0 .. MaxFaults /\ mixups' \in 0 .. MaxMixups
         /\ faults' = faults /\ kind' = kind /\ job' = job
         /\ mixups' >= mixups
         /\ mixups' = 0 => mixups = 0 /\ a.slip # "mixup"
<1>1. /\ a.slip = "hiccup" => hiccups + faults < MaxFaults
      /\ a.slip = "mixup" => mixups < MaxMixups
  BY AnswersShape DEF TypeOK, MayFault
<1>2. /\ hiccups \in 0 .. MaxFaults /\ faults \in 0 .. MaxFaults
      /\ mixups \in 0 .. MaxMixups /\ MaxFaults \in Nat /\ MaxMixups \in Nat
  BY BenchmarkAssumption DEF TypeOK, BenchmarkAssumption
<1> QED BY <1>1, <1>2 DEF Resolved

\* A failed run's row, and the end of the manager, are well typed.
LEMMA FailedType ==
  ASSUME TypeOK, NEW why \in Errors
  PROVE  Failed(why) \in [status : Statuses, error : Errors, logOffset : Nat]
BY DEF Failed, TypeOK, Statuses

\* So is the state after the end of the manager,
LEMMA EndedType ==
  ASSUME TypeOK, Ended
  PROVE  /\ thread' \in Threads /\ link' \in BOOLEAN /\ net' \subseteq Calls
         /\ happened' \subseteq Happenings
<1>1. thread' \in Threads BY FreshType DEF Ended, Places
<1>2. happened' \subseteq Happenings BY DEF Ended, TypeOK, Happenings
<1> QED BY <1>1, <1>2 DEF Ended, EndedNet

\* ... and after a reconciliation that failed the run.
LEMMA BootFailedType ==
  ASSUME TypeOK, NEW why \in Errors, BootFailed(why)
  PROVE  /\ row' \in [status : Statuses, error : Errors, logOffset : Nat]
         /\ thread' \in Threads /\ link' \in BOOLEAN /\ net' \subseteq Calls
         /\ happened' \subseteq Happenings
<1>1. CASE Row /\ row' = Failed(why) /\ thread' = Fresh("idle")
           /\ ThreadNet /\ UNCHANGED <<link, happened>>
  BY <1>1, FailedType, FreshType DEF TypeOK, Places, ThreadNet
<1>2. CASE ~Row /\ row' = row /\ Ended
  BY <1>2, EndedType DEF TypeOK
<1> QED BY <1>1, <1>2 DEF BootFailed

\* The answers of the manager's thread.
LEMMA TakeBase ==
  ASSUME Base, NEW a \in Answers,
         \/ TakeStart(a) \/ TakeLogs(a) \/ TakeStatus(a) \/ TakeProbe(a) \/ TakeTail(a)
         \/ TakeResult(a) \/ TakeBootStatus(a) \/ TakeBootCancel(a)
  PROVE  Base'
<1> USE DEF Base
<1>0. net \subseteq Calls BY DEF TypeOK
<1>1. /\ hiccups' \in 0 .. MaxFaults /\ mixups' \in 0 .. MaxMixups
      /\ faults' = faults /\ kind' = kind /\ job' = job
  BY ResolvedCounts DEF TakeStart, TakeLogs, TakeStatus, TakeProbe, TakeTail,
     TakeResult, TakeBootStatus, TakeBootCancel
<1>2. /\ thread' \in Threads /\ net' \subseteq Calls /\ link' \in BOOLEAN
      /\ row' \in [status : Statuses, error : Errors, logOffset : Nat]
      /\ log' \in [bytes : Nat, twice : BOOLEAN, cut : BOOLEAN]
      /\ happened' \subseteq Happenings
      /\ ThreadNet \/ EndedNet
  <2>1. CASE TakeStart(a)
    BY <2>1, StartOutcome DEF TypeOK, ThreadNet, Happenings
  <2>2. CASE TakeLogs(a)
    BY <2>2, LogsOutcome, DrainLogType, MidlineOnly DEF TypeOK, ThreadNet, Happenings
  <2>3. CASE TakeStatus(a)
    BY <2>3, StatusOutcome DEF TypeOK, ThreadNet, Happenings
  <2>4. CASE TakeProbe(a)
    BY <2>4, ProbeOutcome DEF TypeOK, ThreadNet, Happenings
  <2>5. CASE TakeTail(a)
    <3>1. happened' \subseteq happened \cup {"midline", "tailLost"}
      BY <2>5, TailOutcome, MidlineOnly
    <3> QED BY <2>5, <3>1, TailOutcome, DrainLogType DEF TypeOK, ThreadNet, Happenings
  <2>6. CASE TakeResult(a)
    BY <2>6, ResultOutcome DEF TypeOK, ThreadNet, Happenings
  <2>7. CASE TakeBootStatus(a)
    <3>1. CASE BootFailed("orphan")
      BY <2>7, <3>1, BootStatusOutcome, BootFailedType
         DEF TypeOK, BootFailed, Ended, Errors
    <3>2. CASE ~BootFailed("orphan")
      BY <2>7, <3>2, BootStatusOutcome DEF TypeOK, ThreadNet, Happenings
    <3> QED BY <3>1, <3>2
  <2>8. CASE TakeBootCancel(a)
    BY <2>8, BootCancelOutcome, BootFailedType
       DEF TypeOK, BootFailed, Ended, Errors
  <2> QED BY <2>1, <2>2, <2>3, <2>4, <2>5, <2>6, <2>7, <2>8
<1>3. CallInv' BY <1>0, <1>2, CallsKept
<1>4. row' = row \/ \E why \in Errors : row' = Failed(why)
  BY StartOutcome, LogsOutcome, StatusOutcome, ProbeOutcome, TailOutcome, ResultOutcome,
     BootStatusOutcome, BootCancelOutcome DEF BootFailed, Errors
<1>5. thread.at # "idle" BY <1>0, AnswersShape, CalledValues
<1>6. NotYet' BY <1>4, <1>5 DEF NotYet, Failed, TypeOK
<1> QED BY <1>1, <1>2, <1>3, <1>6 DEF TypeOK, Threads

\* The rest of the thread's steps.
LEMMA ManagerBase ==
  ASSUME Base, PostRunning \/ Execute \/ ProxyUp \/ FinalWrite \/ FailWrite \/ Boot
               \/ SaveOffset \/ Create
  PROVE  Base'
<1> USE DEF Base
<1>0. thread \in Threads /\ net \subseteq Calls BY DEF TypeOK, Threads
<1>8. NotYet'
  <2>1. row.status # "none" \/ Create \/ SaveOffset
    BY DEF NotYet, PostRunning, Execute, ProxyUp, FinalWrite, FailWrite, Boot
  <2>2. row'.status \in {row.status, "pending", "running", "completed", "failed"}
    BY Types DEF PostRunning, Execute, ProxyUp, FinalWrite, FailWrite, Boot,
       SaveOffset, Create, Failed, TypeOK
  <2>3. Create => row'.status = "pending" BY DEF Create, TypeOK
  <2>4. SaveOffset => thread'.at = thread.at BY <1>0 DEF SaveOffset, Threads
  <2> QED BY <2>1, <2>2, <2>3, <2>4 DEF NotYet
<1>1. CASE Execute \/ ProxyUp
  <2>1. CallInv' BY <1>0, <1>1, DispatchOutcome, CallsKept
  <2> QED BY <1>8, <1>1, <2>1, DispatchOutcome DEF TypeOK, ThreadNet, Threads, bounds
<1>2. CASE Boot
  <2>1. CallInv' BY <1>0, <1>2, BootOutcome, CallsKept
  <2> QED BY <1>8, <1>2, <2>1, BootOutcome DEF TypeOK, ThreadNet, Threads, bounds
<1>3. CASE PostRunning
  <2>1. CallInv'
    BY <1>0, <1>3, CalledValues, CallsKept DEF PostRunning, CallInv
  <2>2. thread' \in Threads BY <1>0, <1>3 DEF PostRunning, Threads, Places
  <2>3. row' \in [status : Statuses, error : Errors, logOffset : Nat]
    BY <1>3 DEF PostRunning, TypeOK, Statuses
  <2> QED BY <1>8, <1>3, <2>1, <2>2, <2>3 DEF PostRunning, TypeOK, Threads, bounds
<1>4. CASE FinalWrite
  <2>1. CallInv'
    BY <1>0, <1>4, CalledValues, CallsKept DEF FinalWrite, CallInv
  <2>2. thread' \in Threads
    BY <1>0, <1>4 DEF FinalWrite, FinishFailed, Threads, Places, Errors
  <2>3. row' \in [status : Statuses, error : Errors, logOffset : Nat]
    BY <1>4 DEF FinalWrite, TypeOK, Statuses, Errors
  <2> QED BY <1>8, <1>4, <2>1, <2>2, <2>3 DEF FinalWrite, TypeOK, Threads, bounds
<1>5. CASE FailWrite
  <2>1. CASE Ended /\ row' = row
    <3>1. CallInv' BY <1>0, <2>1, CallsKept DEF Ended
    <3> QED BY <1>8, <1>5, <2>1, <3>1, EndedType, FailWriteOutcome
            DEF TypeOK, Threads, bounds
  <2>2. CASE /\ row' = Failed(thread.why) /\ thread' = [thread EXCEPT !.at = "idle"]
             /\ UNCHANGED <<link, net, happened>>
    <3>1. CallInv'
      BY <1>0, <1>5, <2>2, CalledValues, CallsKept DEF FailWrite, CallInv
    <3>2. thread' \in Threads BY <1>0, <2>2 DEF Threads, Places
    <3> QED BY <1>8, <1>5, <2>2, <3>1, <3>2, Types, FailedType, FailWriteOutcome
            DEF TypeOK, Threads, bounds
  <2> QED BY <1>5, <2>1, <2>2, FailWriteOutcome
<1>6. CASE SaveOffset
  <2>1. thread' \in Threads /\ thread'.at = thread.at
    BY <1>0, <1>6 DEF SaveOffset, Threads
  <2>2. row' \in [status : Statuses, error : Errors, logOffset : Nat]
    BY <1>6, Types DEF SaveOffset, TypeOK
  <2>3. CallInv' BY <1>0, <1>6, <2>1, CallsKept DEF SaveOffset
  <2> QED BY <1>8, <1>6, <2>1, <2>2, <2>3 DEF SaveOffset, TypeOK, Threads, bounds
<1>7. CASE Create
  <2>1. thread' \in Threads BY <1>7, FreshType DEF Create, Places
  <2>2. row' \in [status : Statuses, error : Errors, logOffset : Nat]
    BY <1>7 DEF Create, TypeOK, Statuses
  <2>3. \A r \in net : r.tag # "cur"
    BY <1>7, CalledValues DEF Create, NotYet, CallInv
  <2>4. CallInv' BY <1>0, <1>7, <2>3, CallsKept DEF Create
  <2> QED BY <1>8, <1>7, <2>1, <2>2, <2>4 DEF Create, TypeOK, Threads, bounds
<1> QED BY <1>1, <1>2, <1>3, <1>4, <1>5, <1>6, <1>7

\* The steps of the agent and of the job, and the faults.
LEMMA AgentBase ==
  ASSUME Base, AgentStep
  PROVE  Base'
<1> USE DEF Base
<1>0. /\ net \subseteq Calls /\ 0 \in Nat /\ job.size \in Nat
  BY Types
<1>1. PICK r \in net :
        \/ \E b \in BOOLEAN : HandleStart(r, b) \/ HandleShow(r, b)
        \/ HandleStatus(r) \/ HandleLogs(r) \/ HandleResult(r) \/ HandleCancel(r)
        \/ IgnoreAnswer(r)
  BY DEF AgentStep
<1>2. ASSUME NEW b \in BOOLEAN, HandleStart(r, b) PROVE Base'
  <2>1. PICK val \in {"done", "error"} : AnsweredNet(r, val, 0)
    BY <1>2, HandleStartOutcome
  <2>2. val \in Values BY DEF Values
  <2>3. /\ UNCHANGED <<row, kind, thread, link, log, happened, bounds>>
        /\ job' = job \/ job' = [job EXCEPT !.unit = "live"]
        /\ r.at = "asked"
    BY <1>2, HandleStartOutcome
  <2>4. CallInv' BY <1>0, <2>1, <2>2, <2>3, CallsKept
  <2> QED BY <2>1, <2>3, <2>4 DEF AnsweredNet, TypeOK, NotYet, bounds
<1>3. ASSUME NEW b \in BOOLEAN, HandleShow(r, b) PROVE Base'
  <2>1. PICK val \in {"error", Show} : ShownNet(r, val)
    BY <1>3, HandleShowOutcome
  <2>2. /\ UNCHANGED <<row, kind, thread, link, job, log, happened, faults, mixups>>
        /\ r.name = "job.status" /\ r.at = "asked" /\ r.tag # "stale"
    BY <1>3, HandleShowOutcome
  <2>3. ASSUME NEW x \in net'
        PROVE  \/ x \in net /\ x # r
               \/ /\ x = [r EXCEPT !.at = "shown", !.val = val]
                  /\ x.name = r.name /\ x.tag = r.tag /\ x.at = "shown"
    BY <1>0, <2>1 DEF ShownNet, Calls
  <2>4. CallInv' BY <2>2, <2>3 DEF CallInv
  <2>5. hiccups' \in 0 .. MaxFaults
    BY <1>3, BenchmarkAssumption
       DEF HandleShow, MayFault, TypeOK, BenchmarkAssumption
  <2> QED BY <2>1, <2>2, <2>4, <2>5 DEF ShownNet, TypeOK, NotYet
<1>4. CASE HandleStatus(r)
  <2>1. CallInv' BY <1>0, <1>4, HandleStatusOutcome, CallsKept
  <2> QED BY <1>4, <2>1, HandleStatusOutcome DEF AnsweredNet, TypeOK, NotYet, bounds
<1>5. CASE HandleLogs(r)
  <2>1. CallInv' BY <1>0, <1>5, HandleLogsOutcome, CallsKept
  <2> QED BY <1>5, <2>1, HandleLogsOutcome DEF AnsweredNet, TypeOK, NotYet, bounds
<1>6. CASE HandleResult(r)
  <2>1. CallInv' BY <1>0, <1>6, HandleResultOutcome, CallsKept
  <2> QED BY <1>6, <2>1, HandleResultOutcome DEF AnsweredNet, TypeOK, NotYet, bounds
<1>7. CASE HandleCancel(r)
  <2>1. CallInv' BY <1>0, <1>7, HandleCancelOutcome, CallsKept
  <2> QED BY <1>7, <2>1, HandleCancelOutcome DEF AnsweredNet, TypeOK, NotYet, bounds
<1>8. CASE IgnoreAnswer(r)
  <2>1. CallInv' BY <1>0, <1>8, CallsKept DEF IgnoreAnswer
  <2> QED BY <1>8, <2>1 DEF IgnoreAnswer, TypeOK, NotYet, bounds
<1> QED BY <1>1, <1>2, <1>3, <1>4, <1>5, <1>6, <1>7, <1>8

\* The job, the user and the faults.
LEMMA EventBase ==
  ASSUME Base,
         \/ UnitStep \/ Reconnect \/ Cancel \/ Delete
         \/ WriteLog \/ \E e \in Endings : CommandEnds(e[1], e[2])
         \/ ManagerRestart \/ Drop \/ \E node \in BOOLEAN : AgentRestart(node)
  PROVE  Base'
<1> USE DEF Base
<1>0. net \subseteq Calls BY Types
<1>1. CASE UnitStep \/ Reconnect \/ WriteLog
  <2>1. CallInv' BY <1>0, <1>1, CallsKept
    DEF UnitStep, WriteExit, Stopped, Reconnect, WriteLog
  <2>2. CASE UnitStep \/ Reconnect
    BY <2>1, <2>2
       DEF UnitStep, WriteExit, Stopped, Reconnect, TypeOK, NotYet, bounds
  <2>3. CASE WriteLog
    <3>1. job.size + 1 \in Nat
      BY <2>3, Types, BenchmarkAssumption DEF WriteLog, BenchmarkAssumption
    <3> QED BY <2>1, <2>3, <3>1 DEF WriteLog, TypeOK, NotYet, bounds
  <2> QED BY <1>1, <2>2, <2>3
<1>2. CASE Delete
  <2>1. CallInv' BY <1>0, <1>2, CallsKept DEF Delete
  <2> QED BY <1>2, <2>1 DEF Delete, TypeOK, NotYet, bounds, Statuses
<1>3. CASE Cancel
  <2>1. PICK c : c = Request("job.cancel", "stale") OBVIOUS
  <2>2. /\ c \in Calls /\ c.name = "job.cancel" /\ c.tag = "stale" /\ c.at = "asked"
    BY <2>1, RequestType DEF Caps
  <2>3. net' \subseteq net \cup {c} BY <1>3, <2>1 DEF Cancel, CancelBenchmark
  <2>4. CallInv' BY <1>3, <2>2, <2>3 DEF CallInv, Cancel
  <2> QED BY <1>0, <1>3, <2>2, <2>3, <2>4
          DEF Cancel, TypeOK, NotYet, bounds, Statuses, Happenings
<1>4. ASSUME NEW e \in Endings, CommandEnds(e[1], e[2]) PROVE Base'
  <2>1. e[1] \in {"none", "ok", "bad"} /\ e[2] \in Results
    BY DEF Endings, Results
  <2>2. CallInv' BY <1>0, <1>4, CallsKept DEF CommandEnds
  <2> QED BY <1>4, <2>1, <2>2 DEF CommandEnds, TypeOK, NotYet, bounds
<1>5. CASE ManagerRestart
  <2>1. CallInv' BY <1>0, <1>5, RestartOutcome, CallsKept DEF Ended
  <2>2. faults' \in 0 .. MaxFaults /\ row.status # "none"
    BY <1>5, BenchmarkAssumption
       DEF ManagerRestart, Fault, Followed, MayFault, TypeOK, NotYet, BenchmarkAssumption
  <2> QED BY <1>5, <2>1, <2>2, RestartOutcome, EndedType DEF TypeOK, NotYet, Threads
<1>6. CASE Drop
  <2>1. CallInv' BY <1>0, <1>6, CallsKept DEF Drop
  <2>2. faults' \in 0 .. MaxFaults
    BY <1>6, BenchmarkAssumption
       DEF Drop, Fault, MayFault, TypeOK, BenchmarkAssumption
  <2>3. /\ UNCHANGED <<row, kind, thread, job, log, happened, hiccups, mixups>>
        /\ link' \in BOOLEAN /\ net' \subseteq Calls
    BY <1>0, <1>6 DEF Drop
  <2> QED BY <2>1, <2>2, <2>3 DEF TypeOK, NotYet
<1>7. ASSUME NEW node \in BOOLEAN, AgentRestart(node) PROVE Base'
  <2>1. CallInv' BY <1>0, <1>7, CallsKept DEF AgentRestart
  <2>2. faults' \in 0 .. MaxFaults
    BY <1>7, BenchmarkAssumption
       DEF AgentRestart, Fault, MayFault, TypeOK, BenchmarkAssumption
  <2> QED BY <1>7, <2>1, <2>2 DEF AgentRestart, TypeOK, NotYet, Happenings
<1> QED BY <1>1, <1>2, <1>3, <1>4, <1>5, <1>6, <1>7

\* Types and calls survive every step.
LEMMA BaseStep ==
  ASSUME Base, [Next]_vars
  PROVE  Base'
<1>1. CASE UNCHANGED vars
  BY <1>1 DEF vars, bounds, Base, TypeOK, CallInv, NotYet
<1> QED BY <1>1, TakeBase, ManagerBase, AgentBase, EventBase
        DEF Next, ManagerStep, Event

\* The initial states are well typed.
LEMMA BaseInit == Init => Base
<1> SUFFICES ASSUME Init PROVE Base
  OBVIOUS
<1>1. /\ 0 \in Nat /\ 0 \in 0 .. MaxFaults /\ 0 \in 0 .. MaxMixups
  BY BenchmarkAssumption DEF BenchmarkAssumption
<1>2. Fresh("idle") \in Threads /\ Fresh("idle").at = "idle"
  BY FreshType DEF Places
<1> QED BY <1>1, <1>2
        DEF Init, Base, TypeOK, CallInv, NotYet, Threads, Statuses, Errors, Results

\* Every variable keeps its type.
THEOREM BenchmarkTypeCorrect == Spec => []TypeOK
<1>1. Base /\ [Next]_vars => Base' BY BaseStep
<1>2. Base => TypeOK BY DEF Base
<1> QED BY <1>1, <1>2, BaseInit, PTL DEF Spec

(***************************************************************************)
(* The life of the job.                                                    *)
(***************************************************************************)

\* A job.start was, or may be, carried out after its caller gave up.
Late == "startLate" \in happened

\* The requests for a job.start that the agent has yet to carry out.
Starts == {r \in net : r.name = "job.start" /\ r.at = "asked"}

\* The command has ended, or its unit is being stopped.
Settled == job.unit \notin {"none", "live"}

\* The unit is being stopped, or is gone.
Down == job.unit \in {"stopping", "gone"}

\* There is no unit and no exit file.
Absent == job.unit \in {"none", "gone"} /\ ~job.exitFile

\* The command's status and result are there once it has ended, and the exit file
\* only then.
JobInv ==
  /\ job.unit \in {"none", "live"} => job.rc = "none" /\ ~job.exitFile
  /\ job.unit = "copied" => job.rc # "none"
  /\ job.exitFile => job.rc # "none"
  /\ job.rc = "none" => job.result = "none"

\* The run has not come to its job.start yet.
Before ==
  \/ row.status = "none"
  \/ thread.at \in {"post", "posted"}
  \/ thread.at = "proxy" /\ ~thread.skipStart

\* There is one job.start in the life of a run, the unit is made by it, and it
\* overlaps with no job.status unless its caller has given up.
StartInv ==
  /\ row.status = "none" => thread = Fresh("idle") /\ row.logOffset = 0
  /\ Before => net = {} /\ job.unit = "none" /\ job.size = 0 /\ thread.offset = 0
  /\ \A r \in Starts : job.unit = "none" /\ \A q \in Starts : q = r
  /\ \A r \in Starts : Late \/ (r.tag = "cur" /\ \A q \in net : q.name # "job.status")

\* The job and its start.
Life == JobInv /\ StartInv

\* What happened is not forgotten.
LEMMA HistoryGrows ==
  ASSUME Base, [Next]_vars
  PROVE  happened \subseteq happened' /\ (mixups' = 0 => mixups = 0)
<1> USE DEF Base
<1>1. ASSUME NEW a \in Answers,
             \/ TakeStart(a) \/ TakeLogs(a) \/ TakeStatus(a) \/ TakeProbe(a)
             \/ TakeTail(a) \/ TakeResult(a) \/ TakeBootStatus(a) \/ TakeBootCancel(a)
      PROVE  happened \subseteq happened' /\ (mixups' = 0 => mixups = 0)
  <2>1. mixups' = 0 => mixups = 0
    BY <1>1, ResolvedCounts DEF TakeStart, TakeLogs, TakeStatus, TakeProbe, TakeTail,
       TakeResult, TakeBootStatus, TakeBootCancel
  <2>2. happened \subseteq happened'
    BY <1>1, StartOutcome, LogsOutcome, StatusOutcome, ProbeOutcome, TailOutcome,
       ResultOutcome, BootStatusOutcome, BootCancelOutcome DEF BootFailed, Ended
  <2> QED BY <2>1, <2>2
<1>2. CASE PostRunning \/ Execute \/ ProxyUp \/ FinalWrite \/ Boot \/ SaveOffset
  BY <1>2 DEF PostRunning, Execute, ProxyUp, FinalWrite, Boot, SaveOffset, bounds
<1>3. CASE FailWrite
  BY <1>3, FailWriteOutcome DEF Ended, bounds
<1>4. CASE AgentStep
  BY <1>4 DEF AgentStep, HandleStart, HandleShow, HandleStatus, HandleLogs, HandleResult,
     HandleCancel, IgnoreAnswer, bounds
<1>5. CASE UnitStep \/ Reconnect
  BY <1>5 DEF UnitStep, WriteExit, Stopped, Reconnect, bounds
<1>6. CASE Event
  <2>1. CASE ManagerRestart BY <2>1, RestartOutcome DEF Ended
  <2> QED BY <1>6, <2>1 DEF Event, Create, Cancel, Delete, WriteLog, CommandEnds, Drop,
          AgentRestart, bounds
<1>7. CASE UNCHANGED vars BY <1>7 DEF vars, bounds
<1> QED BY <1>1, <1>2, <1>3, <1>4, <1>5, <1>6, <1>7 DEF Next, ManagerStep

\* The start requests after a step of the thread to another place than job.start.
LEMMA ThreadStarts ==
  ASSUME Base, Life, ThreadNet, UNCHANGED job, happened \subseteq happened',
         thread'.at # "start",
         \A q \in Starts : q.tag = "cur" => "startLate" \in happened'
  PROVE  /\ \A r \in Starts' : job'.unit = "none" /\ \A q \in Starts' : q = r
         /\ \A r \in Starts' : Late'
<1>1. ASSUME NEW r \in Starts'
      PROVE  \/ r \in Starts /\ r.tag # "cur"
             \/ \E q \in Starts : q.tag = "cur" /\ r = [q EXCEPT !.tag = "stale"]
  <2>1. r \in net' /\ r.name = "job.start" /\ r.at = "asked" BY DEF Starts
  <2>2. CASE r \in net /\ r.tag # "cur" BY <2>1, <2>2 DEF Starts
  <2>3. CASE \E q \in net : /\ q.tag = "cur" /\ q.at = "asked" /\ q.name = r.name
                            /\ r = [q EXCEPT !.tag = "stale"]
    BY <2>1, <2>3 DEF Starts
  <2>4. CASE /\ thread'.at \in DOMAIN Called
             /\ r = Request(Called[thread'.at], "cur")
    <3>1. r.name = Called[thread'.at] BY <2>4, RequestType, CalledValues
    <3> QED BY <2>1, <2>4, <3>1, CalledValues
  <2> QED BY <2>1, <2>2, <2>3, <2>4 DEF ThreadNet
<1>2. \A r \in Starts : job.unit = "none" /\ \A q \in Starts : q = r
  BY DEF Life, StartInv
<1>3. \A r \in Starts' : job'.unit = "none" BY <1>1, <1>2
<1>4. ASSUME NEW r \in Starts', NEW q \in Starts' PROVE q = r
  BY <1>1, <1>2
<1>5. ASSUME NEW r \in Starts' PROVE Late'
  BY <1>1 DEF Life, StartInv, Late
<1> QED BY <1>3, <1>4, <1>5

\* ... after the end of the manager.
LEMMA EndedStarts ==
  ASSUME Base, Life, EndedNet, UNCHANGED job
  PROVE  /\ \A r \in Starts' : job'.unit = "none" /\ \A q \in Starts' : q = r
         /\ \A r \in Starts' : Late'
<1>1. ASSUME NEW r \in Starts'
      PROVE  Late' /\ \E q \in Starts : r = [q EXCEPT !.tag = "old"]
  BY DEF EndedNet, Starts, Late
<1>2. \A r \in Starts : job.unit = "none" /\ \A q \in Starts : q = r
  BY DEF Life, StartInv
<1> QED BY <1>1, <1>2

\* ... after a step that makes none.
LEMMA StartsKept ==
  ASSUME Life, Starts' \subseteq Starts, happened \subseteq happened',
         Starts' # {} => job'.unit = job.unit,
         \A x \in net' : x.name = "job.status" => \E y \in net : y.name = "job.status"
  PROVE  /\ \A r \in Starts' : job'.unit = "none" /\ \A q \in Starts' : q = r
         /\ \A r \in Starts' :
              Late' \/ (r.tag = "cur" /\ \A q \in net' : q.name # "job.status")
<1>1. \A r \in Starts' : job'.unit = "none" /\ \A q \in Starts' : q = r
  BY DEF Life, StartInv
<1>2. ASSUME NEW r \in Starts'
      PROVE  Late' \/ (r.tag = "cur" /\ \A q \in net' : q.name # "job.status")
  BY DEF Life, StartInv, Late
<1> QED BY <1>1, <1>2

\* A run whose thread has come further stays past its start.
LEMMA PastStart ==
  ASSUME row'.status # "none",
         thread'.at \notin {"post", "posted"},
         thread'.at = "proxy" => thread'.skipStart,
         \A r \in Starts' : job'.unit = "none" /\ \A q \in Starts' : q = r,
         \A r \in Starts' :
           Late' \/ (r.tag = "cur" /\ \A q \in net' : q.name # "job.status")
  PROVE  StartInv'
<1>1. ~Before' BY DEF Before
<1> QED BY <1>1 DEF StartInv

\* The answers of the manager's thread.
LEMMA TakeLife ==
  ASSUME Base, Life, Base', [Next]_vars, NEW a \in Answers,
         \/ TakeStart(a) \/ TakeLogs(a) \/ TakeStatus(a) \/ TakeProbe(a) \/ TakeTail(a)
         \/ TakeResult(a) \/ TakeBootStatus(a) \/ TakeBootCancel(a)
  PROVE  Life'
<1> USE DEF Base
<1>0. net \subseteq Calls /\ thread \in Threads BY DEF TypeOK, Threads
<1>1. job' = job /\ happened \subseteq happened' /\ thread.at \in DOMAIN Called
  BY <1>0, HistoryGrows, StartOutcome, LogsOutcome, StatusOutcome, ProbeOutcome,
     TailOutcome, ResultOutcome, BootStatusOutcome, BootCancelOutcome, CalledValues
<1>2. row.status # "none" BY <1>1, CalledValues DEF NotYet
<1>3. row'.status # "none"
  <2>1. row' = row \/ \E why \in Errors : row' = Failed(why)
    BY StartOutcome, LogsOutcome, StatusOutcome, ProbeOutcome, TailOutcome,
       ResultOutcome, BootStatusOutcome, BootCancelOutcome DEF BootFailed, Errors
  <2> QED BY <1>2, <2>1 DEF Failed, TypeOK
<1>4. thread'.at \notin {"start", "post", "posted", "proxy"} \/ Resumed
  <2>1. CASE TakeStart(a)
    BY <1>0, <2>1, StartOutcome DEF FinishFailed, Threads
  <2>2. CASE TakeLogs(a)
    BY <2>2, LogsOutcome, DrainedType DEF Threads
  <2>3. CASE TakeStatus(a)
    BY <1>0, <2>3, StatusOutcome DEF FinishFailed, Threads
  <2>4. CASE TakeProbe(a)
    BY <1>0, <2>4, ProbeOutcome DEF FinishFailed, Threads
  <2>5. CASE TakeTail(a)
    BY <2>5, TailOutcome, DrainedType DEF Finalize, Threads
  <2>6. CASE TakeResult(a)
    BY <1>0, <2>6, ResultOutcome DEF Finalize, Threads
  <2>7. CASE TakeBootStatus(a)
    <3>1. CASE BootFailed("orphan")
      BY <3>1, FreshType DEF BootFailed, Ended, Places
    <3>2. CASE thread' = [thread EXCEPT !.at = "bootcancel"]
      BY <1>0, <3>2 DEF Threads
    <3>3. CASE Resumed BY <3>3
    <3> QED BY <2>7, <3>1, <3>2, <3>3, BootStatusOutcome
  <2>8. CASE TakeBootCancel(a)
    BY <2>8, BootCancelOutcome, FreshType DEF BootFailed, Ended, Places
  <2> QED BY <2>1, <2>2, <2>3, <2>4, <2>5, <2>6, <2>7, <2>8
<1>7. /\ thread'.at \notin {"start", "post", "posted"}
      /\ thread'.at = "proxy" => thread'.skipStart
  <2>1. Resumed => thread'.at \in {"proxy", "logs"} /\ thread'.skipStart
    BY <1>0 DEF Resumed, Threads
  <2> QED BY <1>4, <2>1
<1>5. CASE EndedNet
  BY <1>1, <1>3, <1>7, <1>5, EndedStarts, PastStart DEF Life, JobInv
<1>6. CASE ThreadNet
  <2>1. ASSUME NEW q \in Starts, q.tag = "cur" PROVE "startLate" \in happened'
    <3>1. q \in net /\ Called[thread.at] = "job.start"
      BY <2>1 DEF Starts, CallInv
    <3>2. thread.at = "start" BY <1>1, <3>1, CalledValues
    <3>3. TakeStart(a)
      BY <3>2 DEF TakeLogs, TakeStatus, TakeProbe, TakeTail, TakeResult,
         TakeBootStatus, TakeBootCancel, Resolved
    <3>4. a \notin Replies
      BY <2>1 DEF Replies, CallInv, Starts
    <3> QED BY <3>3, <3>4, StartOutcome
  <2> QED BY <1>1, <1>3, <1>6, <1>7, <2>1, ThreadStarts, PastStart DEF Life, JobInv
<1> QED BY <1>5, <1>6, StartOutcome, LogsOutcome, StatusOutcome, ProbeOutcome,
        TailOutcome, ResultOutcome, BootStatusOutcome, BootCancelOutcome
        DEF BootFailed, Ended

\* The rest of the thread's steps.
LEMMA ManagerLife ==
  ASSUME Base, Life, Base', [Next]_vars,
         PostRunning \/ Execute \/ ProxyUp \/ FinalWrite \/ FailWrite \/ Boot
         \/ SaveOffset \/ Create
  PROVE  Life'
<1> USE DEF Base
<1>0. net \subseteq Calls /\ thread \in Threads BY DEF TypeOK, Threads
<1>1. job' = job /\ happened \subseteq happened'
  BY HistoryGrows DEF PostRunning, Execute, ProxyUp, FinalWrite, FailWrite, Boot,
     SaveOffset, Create
<1>2. JobInv' BY <1>1 DEF Life, JobInv
<1>3. SUFFICES StartInv' BY <1>2 DEF Life
<1>4. CASE Create
  <2>1. Before /\ thread' = Fresh("post") /\ net' = net /\ row'.status # "none"
    BY <1>4 DEF Create, Before, TypeOK
  <2>2. thread'.offset = 0 BY <2>1 DEF Fresh
  <2>3. net' = {} /\ job'.unit = "none" /\ job'.size = 0
    BY <1>1, <2>1 DEF Life, StartInv
  <2> QED BY <2>1, <2>2, <2>3 DEF StartInv, Starts
<1>5. CASE PostRunning
  <2>1. Before /\ net' = net /\ thread'.offset = thread.offset
    BY <1>0, <1>5 DEF PostRunning, Before, Threads
  <2>2. net' = {} /\ job'.unit = "none" /\ job'.size = 0 /\ thread'.offset = 0
    BY <1>1, <2>1 DEF Life, StartInv
  <2>3. row.status # "none" BY <1>5 DEF NotYet, PostRunning
  <2>4. row'.status # "none" BY <1>5, <2>3 DEF PostRunning, TypeOK
  <2> QED BY <2>2, <2>4 DEF StartInv, Starts
<1>6. CASE Execute \/ ProxyUp
  <2>1. row'.status # "none" BY <1>6 DEF NotYet, Execute, ProxyUp
  <2>2. CASE Before
    <3>1. net = {} /\ job.unit = "none" /\ job.size = 0 /\ thread.offset = 0
      BY <2>2 DEF Life, StartInv
    <3>2. thread'.offset = thread.offset BY <1>0, <1>6, DispatchOutcome DEF Threads
    <3>3. CASE net' = {}
      BY <1>1, <2>1, <3>1, <3>2, <3>3 DEF StartInv, Starts
    <3>4. CASE net' # {}
      <4>1. /\ thread' = [thread EXCEPT !.at =
                            IF thread.skipStart THEN "logs" ELSE "start"]
        BY <1>6, <3>1, <3>4, DispatchOutcome
      <4>2. thread'.at \in {"logs", "start"} BY <1>0, <4>1 DEF Threads
      <4>3. \A r \in net' : r = Request(Called[thread'.at], "cur")
        BY <1>6, <3>1, DispatchOutcome DEF ThreadNet
      <4>4. \A r \in net' : r.tag = "cur" /\ r.name \in {"job.logs", "job.start"}
        BY <4>2, <4>3, RequestType, CalledValues
      <4> QED BY <1>1, <2>1, <3>1, <4>2, <4>3, <4>4, PastStart DEF Starts
    <3> QED BY <3>3, <3>4
  <2>3. CASE ~Before
    <3>1. thread.at = "proxy" /\ thread.skipStart
      BY <1>6, <2>3 DEF Execute, ProxyUp, Before
    <3>2. thread'.at = "logs" BY <1>0, <1>6, <3>1, DispatchOutcome DEF Threads
    <3>3. \A q \in Starts : q.tag # "cur"
      BY <3>1, CalledValues DEF Starts, CallInv
    <3> QED BY <1>1, <1>6, <2>1, <3>2, <3>3, DispatchOutcome, ThreadStarts, PastStart
  <2> QED BY <2>2, <2>3
<1>7. CASE Boot
  <2>1. row'.status # "none" BY <1>7 DEF NotYet, Boot
  <2>2. thread'.at \in {"bootstatus", "idle"}
    BY <1>0, <1>7, BootOutcome, FreshType DEF Threads, Places
  <2>3. \A q \in Starts : q.tag # "cur"
    BY <1>7, CalledValues DEF Starts, CallInv, Boot
  <2> QED BY <1>1, <1>7, <2>1, <2>2, <2>3, BootOutcome, ThreadStarts, PastStart
<1>8. CASE FinalWrite
  <2>1. row'.status # "none" BY <1>8 DEF NotYet, FinalWrite, TypeOK
  <2>2. thread'.at \in {"idle", "failwrite"}
    BY <1>0, <1>8 DEF FinalWrite, FinishFailed, Threads
  <2>3. Starts' = Starts /\ net' = net BY <1>8 DEF Starts, FinalWrite
  <2> QED BY <1>1, <2>1, <2>2, <2>3, StartsKept, PastStart
<1>9. CASE FailWrite
  <2>1. row.status # "none" BY <1>9 DEF NotYet, FailWrite
  <2>2. row'.status # "none"
    BY <1>9, <2>1 DEF FailWrite, Failed, TypeOK
  <2>3. CASE Ended
    <3>1. thread'.at = "boot" BY <2>3, FreshType DEF Ended, Places
    <3> QED BY <1>1, <2>2, <2>3, <3>1, EndedStarts, PastStart DEF Ended
  <2>4. CASE thread' = [thread EXCEPT !.at = "idle"] /\ net' = net
    <3>1. thread'.at = "idle" BY <1>0, <2>4 DEF Threads
    <3>2. Starts' = Starts BY <2>4 DEF Starts
    <3> QED BY <1>1, <2>2, <2>4, <3>1, <3>2, StartsKept, PastStart
  <2> QED BY <1>9, <2>3, <2>4, FailWriteOutcome
<1>10. CASE SaveOffset
  <2>1. thread.unsaved BY <1>10 DEF SaveOffset
  <2>2. row.status # "none"
    BY <2>1 DEF Life, StartInv, Fresh
  <2>3. /\ row'.status = row.status /\ thread'.at = thread.at
        /\ thread'.skipStart = thread.skipStart /\ thread'.offset = thread.offset
    BY <1>0, <1>10 DEF SaveOffset, TypeOK, Threads
  <2>4. Starts' = Starts /\ Before' = Before /\ net' = net /\ Late' = Late
    BY <1>10, <2>3 DEF SaveOffset, Starts, Before, Late
  <2> QED BY <1>1, <2>2, <2>3, <2>4 DEF Life, StartInv
<1> QED BY <1>4, <1>5, <1>6, <1>7, <1>8, <1>9, <1>10

\* The start requests after an answer.
LEMMA AnsweredStarts ==
  ASSUME Base, NEW r \in net, NEW val \in Values, NEW to \in Nat,
         AnsweredNet(r, val, to)
  PROVE  /\ Starts' \subseteq Starts \ {r}
         /\ \A x \in net' : x.name = "job.status" => \E y \in net : y.name = "job.status"
<1>1. net \subseteq Calls BY DEF Base, TypeOK
<1>2. ASSUME NEW x \in net'
      PROVE  \/ x \in net /\ x # r
             \/ x.name = r.name /\ x.at = "answered"
  BY <1>1, AnsweredCalls
<1> QED BY <1>2 DEF Starts

\* The agent.
LEMMA AgentLife ==
  ASSUME Base, Life, Base', [Next]_vars, AgentStep
  PROVE  Life'
<1> USE DEF Base
<1>0. /\ net \subseteq Calls /\ 0 \in Nat /\ job.size \in Nat
  BY Types
<1>1. PICK r \in net :
        \/ \E b \in BOOLEAN : HandleStart(r, b) \/ HandleShow(r, b)
        \/ HandleStatus(r) \/ HandleLogs(r) \/ HandleResult(r) \/ HandleCancel(r)
        \/ IgnoreAnswer(r)
  BY DEF AgentStep
<1>2. ~Before BY DEF Life, StartInv
<1>3. row' = row /\ thread' = thread /\ happened \subseteq happened'
  BY <1>1, HistoryGrows DEF HandleStart, HandleShow, HandleStatus, HandleLogs,
     HandleResult, HandleCancel, IgnoreAnswer
<1>4. /\ row'.status # "none" /\ thread'.at \notin {"post", "posted"}
      /\ thread'.at = "proxy" => thread'.skipStart
  BY <1>2, <1>3 DEF Before
<1>5. ASSUME NEW b \in BOOLEAN, HandleStart(r, b) PROVE Life'
  <2>1. PICK val \in {"done", "error"} : AnsweredNet(r, val, 0)
    BY <1>5, HandleStartOutcome
  <2>2. val \in Values BY DEF Values
  <2>3. /\ job' = job \/ job' = [job EXCEPT !.unit = "live"]
        /\ r \in Starts
    BY <1>5, HandleStartOutcome DEF Starts
  <2>4. job.unit = "none" /\ Starts = {r} BY <2>3 DEF Life, StartInv
  <2>5. Starts' = {} BY <1>0, <2>1, <2>2, <2>4, AnsweredStarts
  <2>6. JobInv' BY <2>3, <2>4 DEF Life, JobInv, TypeOK
  <2>7. StartInv' BY <1>4, <2>5, PastStart
  <2> QED BY <2>6, <2>7 DEF Life
<1>6. ASSUME NEW b \in BOOLEAN, HandleShow(r, b) PROVE Life'
  <2>1. PICK val \in {"error", Show} : ShownNet(r, val)
    BY <1>6, HandleShowOutcome
  <2>2. /\ job' = job /\ r.name = "job.status" /\ r \in Calls
    BY <1>0, <1>6, HandleShowOutcome
  <2>3. \A x \in net' : x \in net \/ x.at = "shown"
    BY <2>1, <2>2 DEF ShownNet, Calls
  <2>4. /\ Starts' \subseteq Starts
        /\ \A x \in net' : x.name = "job.status" => \E y \in net : y.name = "job.status"
    BY <2>2, <2>3 DEF Starts
  <2>5. StartInv' BY <1>3, <1>4, <2>2, <2>4, StartsKept, PastStart
  <2> QED BY <2>2, <2>5 DEF Life, JobInv
<1>7. ASSUME NEW val \in Values, NEW to \in Nat, AnsweredNet(r, val, to),
             \/ job' = job
             \/ /\ job' = [job EXCEPT !.unit = "stopping"]
                /\ job.unit \in {"live", "copied", "done"}
      PROVE  Life'
  <2>1. /\ Starts' \subseteq Starts
        /\ \A x \in net' : x.name = "job.status" => \E y \in net : y.name = "job.status"
    BY <1>7, AnsweredStarts
  <2>2. Starts' # {} => job'.unit = job.unit BY <1>7, <2>1 DEF Life, StartInv
  <2>3. StartInv' BY <1>3, <1>4, <2>1, <2>2, StartsKept, PastStart
  <2>4. JobInv' BY <1>7 DEF Life, JobInv, TypeOK
  <2> QED BY <2>3, <2>4 DEF Life
<1>8. CASE HandleStatus(r) BY <1>0, <1>7, <1>8, HandleStatusOutcome
<1>9. CASE HandleLogs(r) BY <1>0, <1>7, <1>9, HandleLogsOutcome
<1>10. CASE HandleResult(r) BY <1>0, <1>7, <1>10, HandleResultOutcome
<1>11. CASE HandleCancel(r) BY <1>0, <1>7, <1>11, HandleCancelOutcome
<1>12. CASE IgnoreAnswer(r)
  <2>1. net' \subseteq net /\ job' = job BY <1>12 DEF IgnoreAnswer
  <2>2. Starts' \subseteq Starts BY <2>1 DEF Starts
  <2>3. StartInv' BY <1>3, <1>4, <2>1, <2>2, StartsKept, PastStart
  <2> QED BY <2>1, <2>3 DEF Life, JobInv
<1> QED BY <1>1, <1>5, <1>6, <1>8, <1>9, <1>10, <1>11, <1>12

\* The job, the user and the faults.
LEMMA EventLife ==
  ASSUME Base, Life, Base', [Next]_vars,
         \/ UnitStep \/ Reconnect \/ Cancel \/ Delete
         \/ WriteLog \/ \E e \in Endings : CommandEnds(e[1], e[2])
         \/ ManagerRestart \/ Drop \/ \E node \in BOOLEAN : AgentRestart(node)
  PROVE  Life'
<1> USE DEF Base
<1>0. net \subseteq Calls /\ happened \subseteq happened' BY Types, HistoryGrows
<1>1. CASE UnitStep \/ WriteLog \/ \E e \in Endings : CommandEnds(e[1], e[2])
  <2>1. /\ UNCHANGED <<row, thread, net, happened>>
        /\ job.unit # "none"
    BY <1>1 DEF UnitStep, WriteExit, Stopped, WriteLog, CommandEnds
  <2>2. JobInv'
    <3>1. CASE WriteExit
      BY <3>1 DEF WriteExit, Life, JobInv, TypeOK
    <3>3. CASE Stopped
      BY <3>3 DEF Stopped, Life, JobInv, TypeOK
    <3>4. CASE WriteLog
      BY <3>4 DEF WriteLog, Life, JobInv, TypeOK
    <3>2. ASSUME NEW e \in Endings, CommandEnds(e[1], e[2]) PROVE JobInv'
      <4>1. e[1] # "none" BY DEF Endings, Results
      <4> QED BY <3>2, <4>1 DEF CommandEnds, Life, JobInv, TypeOK
    <3> QED BY <1>1, <3>1, <3>2, <3>3, <3>4 DEF UnitStep
  <2>3. ~Before /\ Starts = {} BY <2>1 DEF Life, StartInv
  <2>4. ~Before' /\ Starts' = {} /\ row'.status # "none"
    BY <2>1, <2>3 DEF Before, Starts
  <2> QED BY <2>2, <2>4 DEF Life, StartInv
<1>2. CASE Reconnect
  BY <1>2 DEF Reconnect, Life, JobInv, StartInv, Before, Starts, Late
<1>3. CASE Delete
  <2>1. /\ UNCHANGED <<thread, net, happened, job>>
        /\ row'.status # "none"
    BY <1>3 DEF Delete, TypeOK
  <2>2. Before' => Before BY <2>1 DEF Before
  <2> QED BY <2>1, <2>2 DEF Life, JobInv, StartInv, Starts, Late
<1>4. CASE Cancel
  <2>1. /\ UNCHANGED <<thread, job>>
        /\ row'.status # "none" /\ row.status # "none"
    BY <1>4 DEF Cancel, Row, TypeOK
  <2>2. Before' <=> Before BY <2>1 DEF Before
  <2>3. PICK c : c = Request("job.cancel", "stale") OBVIOUS
  <2>4. /\ c \in Calls /\ c.name = "job.cancel" /\ c.tag = "stale" /\ c.at = "asked"
    BY <2>3, RequestType DEF Caps
  <2>5. /\ net' \subseteq net \cup {c}
        /\ ~Registered => net' = net
    BY <1>4, <2>3 DEF Cancel, CancelBenchmark
  <2>6. Before => net' = net BY <2>1, <2>5 DEF Before, Registered
  <2>7. /\ Starts' \subseteq Starts
        /\ \A x \in net' : x.name = "job.status" => \E y \in net : y.name = "job.status"
    BY <2>4, <2>5 DEF Starts
  <2>8. /\ \A r \in Starts' : job'.unit = "none" /\ \A q \in Starts' : q = r
        /\ \A r \in Starts' :
             Late' \/ (r.tag = "cur" /\ \A q \in net' : q.name # "job.status")
    BY <1>0, <2>1, <2>7, StartsKept
  <2>9. StartInv' BY <2>1, <2>2, <2>6, <2>8 DEF Life, StartInv
  <2> QED BY <2>1, <2>9 DEF Life, JobInv
<1>5. CASE ManagerRestart
  <2>1. row'.status # "none" /\ job' = job
    BY <1>5 DEF ManagerRestart, Fault, Followed, NotYet
  <2>2. Ended BY <1>5, RestartOutcome
  <2>3. thread'.at = "boot" BY <2>2, FreshType DEF Ended, Places
  <2>4. StartInv' BY <2>1, <2>2, <2>3, EndedStarts, PastStart DEF Ended
  <2> QED BY <2>1, <2>4 DEF Life, JobInv
<1>6. CASE Drop
  <2>1. UNCHANGED <<row, thread, job, happened>> /\ net' \subseteq net
    BY <1>6 DEF Drop
  <2>2. Starts' \subseteq Starts /\ (Before' <=> Before) BY <2>1 DEF Starts, Before
  <2>3. /\ \A r \in Starts' : job'.unit = "none" /\ \A q \in Starts' : q = r
        /\ \A r \in Starts' :
             Late' \/ (r.tag = "cur" /\ \A q \in net' : q.name # "job.status")
    BY <1>0, <2>1, <2>2, StartsKept
  <2>4. StartInv' BY <2>1, <2>2, <2>3 DEF Life, StartInv
  <2> QED BY <2>1, <2>4 DEF Life, JobInv
<1>7. ASSUME NEW node \in BOOLEAN, AgentRestart(node) PROVE Life'
  <2>1. /\ UNCHANGED <<row, thread>> /\ net' = {}
        /\ \/ job' = job
           \/ job' = [job EXCEPT !.unit = "gone"] /\ job.unit # "none"
    BY <1>7 DEF AgentRestart
  <2>2. Starts' = {} /\ (Before' <=> Before) BY <2>1 DEF Starts, Before
  <2>3. JobInv' BY <2>1 DEF Life, JobInv, TypeOK
  <2>4. Before => job.unit = "none" BY DEF Life, StartInv
  <2>5. StartInv' BY <2>1, <2>2, <2>4 DEF Life, StartInv
  <2> QED BY <2>3, <2>5 DEF Life
<1> QED BY <1>1, <1>2, <1>3, <1>4, <1>5, <1>6, <1>7

\* Every step keeps the life of the job in order.
LEMMA LifeStep ==
  ASSUME Base, Life, [Next]_vars
  PROVE  Life'
<1>1. Base' BY BaseStep
<1>2. CASE UNCHANGED vars
  BY <1>2 DEF vars, Life, JobInv, StartInv, Before, Starts, Late
<1> QED BY <1>1, <1>2, TakeLife, ManagerLife, AgentLife, EventLife
        DEF Next, ManagerStep, Event

\* It starts in order.
LEMMA LifeInit == Init => Life
BY DEF Init, Life, JobInv, StartInv, Before, Starts, Fresh

\* What a step may do to the job: once the command has ended nothing about it
\* changes but the unit, a unit that is down stays down, and one that is not there
\* comes to be only by the job.start of the thread, or of one that gave up.
JobAfter ==
  /\ Settled => /\ Settled' /\ job'.rc = job.rc /\ job'.result = job.result
                /\ job'.size = job.size
  /\ ~Followed => /\ job'.rc = job.rc /\ job'.result = job.result
                  /\ job'.size = job.size
  /\ Down => Down'
  /\ Down' => \/ Down \/ "rebooted" \in happened'
              \/ \E r \in net : r.name = "job.cancel" /\ r.at = "asked"
  /\ job'.size >= job.size
  /\ job.unit \in {"none", "gone"} =>
       \/ Late
       \/ thread.at = "start" /\ \A q \in net : q.name # "job.status"
       \/ /\ job'.unit \in {"none", "gone"} /\ job'.exitFile = job.exitFile
          /\ job'.result = job.result

\* Every step does no more than that.
LEMMA JobStep ==
  ASSUME Base, Life, [Next]_vars
  PROVE  JobAfter
<1> USE DEF Base
<1>0. job.size \in Nat /\ net \subseteq Calls
  BY Types, BenchmarkAssumption DEF BenchmarkAssumption
<1>1. CASE job' = job
  BY <1>0, <1>1 DEF JobAfter, Settled, Down
<1>2. ASSUME NEW r \in net, NEW b \in BOOLEAN, HandleStart(r, b) PROVE JobAfter
  <2>1. /\ job' = job \/ job' = [job EXCEPT !.unit = "live"]
        /\ r \in Starts
    BY <1>2, HandleStartOutcome DEF Starts
  <2>2. /\ job.unit = "none"
        /\ Late \/ (r.tag = "cur" /\ \A q \in net : q.name # "job.status")
    BY <2>1 DEF Life, StartInv
  <2>3. r.tag = "cur" => thread.at = "start"
    BY <2>1, CalledValues DEF CallInv, Starts
  <2> QED BY <1>0, <2>1, <2>2, <2>3 DEF JobAfter, Settled, Down, TypeOK
<1>3. ASSUME NEW r \in net, HandleCancel(r) PROVE JobAfter
  BY <1>0, <1>3, HandleCancelOutcome DEF JobAfter, Settled, Down, TypeOK, Life, JobInv
<1>4. CASE WriteExit
  BY <1>0, <1>4 DEF WriteExit, JobAfter, Settled, Down, TypeOK
<1>5. CASE Stopped
  BY <1>0, <1>5 DEF Stopped, JobAfter, Settled, Down, TypeOK
<1>6. CASE WriteLog
  BY <1>0, <1>6 DEF WriteLog, JobAfter, Settled, Down, TypeOK
<1>7. ASSUME NEW e \in Endings, CommandEnds(e[1], e[2]) PROVE JobAfter
  BY <1>0, <1>7 DEF CommandEnds, JobAfter, Settled, Down, TypeOK
<1>8. ASSUME NEW node \in BOOLEAN, AgentRestart(node) PROVE JobAfter
  <2>1. \/ job' = job
        \/ /\ job' = [job EXCEPT !.unit = "gone"] /\ job.unit # "none"
           /\ "rebooted" \in happened'
    BY <1>8 DEF AgentRestart
  <2> QED BY <1>0, <1>1, <2>1 DEF JobAfter, Settled, Down, TypeOK
<1>9. CASE ManagerStep
  BY <1>1, <1>9 DEF ManagerStep, PostRunning, Execute, ProxyUp, FinalWrite, FailWrite, Boot,
     TakeStart, TakeLogs, TakeStatus, TakeProbe, TakeTail, TakeResult, TakeBootStatus,
     TakeBootCancel, Resolved
<1>10. CASE AgentStep
  BY <1>1, <1>2, <1>3, <1>10 DEF AgentStep, HandleShow, HandleStatus, HandleLogs,
     HandleResult, IgnoreAnswer
<1>11. CASE Event
  BY <1>1, <1>6, <1>7, <1>8, <1>11 DEF Event, Create, Cancel, Delete, ManagerRestart, Drop
<1>12. CASE SaveOffset \/ Reconnect \/ UNCHANGED vars
  BY <1>1, <1>12 DEF SaveOffset, Reconnect, vars
<1> QED BY <1>4, <1>5, <1>9, <1>10, <1>11, <1>12 DEF Next, UnitStep

(***************************************************************************)
(* What the answers say and what the thread has learned from them.         *)
(***************************************************************************)

\* job.status told the truth: the exit file, or systemd.
StatusOK(r) ==
  /\ r.val \in {"error", "active", "missing", "ok", "bad"}
  /\ r.val = "bad" => job.rc = "bad"
  /\ r.val = "ok" => job.rc = "ok" \/ Down
  /\ r.val = "missing" => Late \/ job.unit \in {"none", "gone"}
  /\ r.val = "missing" /\ r.at = "answered" => Late \/ Absent

\* job.result told the truth.
ResultOK(r) ==
  /\ r.val \in Results
  /\ r.val # "none" => r.val = job.result
  /\ r.tag = "cur" /\ ~Late => r.val = job.result
  /\ r.tag = "cur" /\ thread.at = "result" => r.val = job.result

\* job.logs told how long the log is, no less than was known before.
LogsOK(r) ==
  /\ r.val = "done"
  /\ r.to <= job.size
  /\ r.tag = "cur" => r.to >= log.bytes
  /\ r.tag = "cur" /\ thread.at = "tail" => r.to = job.size

\* An answer under way still tells the truth when it is taken.
AnswerOK(r) ==
  /\ r.name = "job.status" /\ r.at # "asked" => StatusOK(r)
  /\ r.name = "job.result" /\ r.at = "answered" => ResultOK(r)
  /\ r.name = "job.logs" /\ r.at = "answered" => LogsOK(r)

\* ... every one of them.
AnswerInv == \A r \in net : AnswerOK(r)

\* So does what the thread remembers.
ThreadInv ==
  /\ thread.raw # "none" => thread.raw = job.result
  /\ thread.code = "bad" => job.rc = "bad"
  /\ thread.code = "ok" => job.rc = "ok" \/ Down \/ Late
  /\ thread.at \in {"tail", "result", "finwrite"} => Settled
  /\ thread.at \in {"result", "finwrite"} => thread.code # "none"
  /\ thread.at = "probe" => Late \/ Absent
  /\ thread.at = "tail" /\ thread.code = "none" => thread.raw # "none" /\ (Late \/ Down)
  /\ thread.at \notin {"tail", "result", "finwrite", "failwrite", "idle"} =>
       thread.code = "none"
  /\ thread.at \in {"boot", "bootstatus", "bootcancel"} => ~thread.unsaved
  /\ log.bytes <= job.size

\* An answer to job.status stays true.
LEMMA OldStatus ==
  ASSUME Base, Life, [Next]_vars, NEW r \in net, r.name = "job.status", StatusOK(r)
  PROVE  StatusOK(r)'
<1>1. Late => Late' BY HistoryGrows DEF Late
<1>2. JobAfter BY JobStep
<1>3. r.val = "bad" => job'.rc = "bad"
  BY <1>2 DEF StatusOK, JobAfter, Settled, Life, JobInv
<1>4. r.val = "ok" => job'.rc = "ok" \/ Down'
  BY <1>2 DEF StatusOK, JobAfter, Settled, Life, JobInv
<1>5. r.val = "missing" => Late' \/ job'.unit \in {"none", "gone"}
  BY <1>1, <1>2 DEF StatusOK, JobAfter
<1>6. r.val = "missing" /\ r.at = "answered" => Late' \/ Absent'
  BY <1>1, <1>2 DEF StatusOK, JobAfter, Absent
<1> QED BY <1>3, <1>4, <1>5, <1>6 DEF StatusOK

\* So does every answer the thread has not moved on from.
LEMMA OldAnswers ==
  ASSUME Base, Life, ThreadInv, [Next]_vars, NEW r \in net, AnswerOK(r),
         r.tag # "cur" \/ (thread'.at = thread.at /\ log'.bytes = log.bytes)
  PROVE  AnswerOK(r)'
<1>1. Late => Late' BY HistoryGrows DEF Late
<1>2. JobAfter BY JobStep
<1>3. r.name = "job.status" /\ r.at # "asked" => StatusOK(r)'
  BY OldStatus DEF AnswerOK
<1>4. ASSUME r.name = "job.result", ResultOK(r) PROVE ResultOK(r)'
  <2>1. r.val # "none" => r.val = job'.result
    BY <1>2, <1>4 DEF ResultOK, JobAfter, Settled, Life, JobInv
  <2>2. ASSUME r.tag = "cur", ~Late' \/ thread'.at = "result"
        PROVE  r.val = job'.result
    <3>1. thread.at \in {"probe", "result"} /\ thread'.at = thread.at
      BY <1>4, <2>2, CalledValues DEF Base, CallInv
    <3>2. CASE thread.at = "result"
      BY <1>2, <1>4, <2>2, <3>2 DEF ResultOK, JobAfter, ThreadInv
    <3>3. CASE thread.at = "probe"
      BY <1>1, <1>2, <1>4, <2>2, <3>1, <3>3 DEF ResultOK, JobAfter, ThreadInv, Absent
    <3> QED BY <3>1, <3>2, <3>3
  <2> QED BY <1>4, <2>1, <2>2 DEF ResultOK
<1>5. ASSUME LogsOK(r) PROVE LogsOK(r)'
  <2>1. /\ r.to \in Nat /\ job.size \in Nat /\ job'.size \in Nat
    <3>1. r.to \in Nat /\ job.size \in Nat
      BY Types DEF Base, Calls
    <3>2. job'.size \in Nat BY BaseStep DEF Base, TypeOK
    <3> QED BY <3>1, <3>2, BenchmarkAssumption DEF BenchmarkAssumption
  <2>2. r.to <= job'.size BY <1>2, <1>5, <2>1 DEF LogsOK, JobAfter
  <2>3. r.tag = "cur" => r.to >= log'.bytes BY <1>5 DEF LogsOK
  <2>4. r.tag = "cur" /\ thread'.at = "tail" => r.to = job'.size
    BY <1>2, <1>5 DEF LogsOK, JobAfter, ThreadInv
  <2> QED BY <1>5, <2>2, <2>3, <2>4 DEF LogsOK
<1> QED BY <1>3, <1>4, <1>5 DEF AnswerOK

\* What the thread remembers, and what it is about to be told.
Facts == ThreadInv /\ AnswerInv

\* The answers under way after a step of the thread,
LEMMA ThreadAnswers ==
  ASSUME Base, Life, Facts, [Next]_vars, ThreadNet
  PROVE  AnswerInv'
<1>1. ASSUME NEW r \in net' PROVE AnswerOK(r)'
  <2>1. CASE r \in net /\ r.tag # "cur"
    BY <2>1, OldAnswers DEF Facts, AnswerInv
  <2>2. CASE r.at = "asked" BY <2>2 DEF AnswerOK
  <2>3. CASE /\ thread'.at \in DOMAIN Called
             /\ r = Request(Called[thread'.at], "cur")
    BY <2>2, <2>3, RequestType, CalledValues
  <2> QED BY <2>1, <2>2, <2>3 DEF ThreadNet
<1> QED BY <1>1 DEF AnswerInv

\* ... after the end of the manager,
LEMMA EndedAnswers ==
  ASSUME Base, Life, Facts, [Next]_vars, EndedNet
  PROVE  AnswerInv'
<1>1. ASSUME NEW r \in net' PROVE AnswerOK(r)'
  <2>1. PICK q \in net : q.name = r.name /\ q.at = r.at /\ q.val = r.val
    BY DEF EndedNet
  <2>2. r.at # "answered" BY DEF EndedNet
  <2>3. ASSUME r.name = "job.status", r.at # "asked" PROVE StatusOK(r)'
    <3>1. StatusOK(q) BY <2>1, <2>3 DEF Facts, AnswerInv, AnswerOK
    <3>2. StatusOK(q)' BY <2>1, <2>3, <3>1, OldStatus
    <3> QED BY <2>1, <3>2 DEF StatusOK
  <2> QED BY <2>2, <2>3 DEF AnswerOK
<1> QED BY <1>1 DEF AnswerInv

\* ... and after a step that answers nothing.
LEMMA KeptAnswers ==
  ASSUME Base, Life, Facts, [Next]_vars,
         \A r \in net' : r \in net \/ r.at = "asked",
         \/ thread'.at = thread.at /\ log'.bytes = log.bytes
         \/ \A r \in net : r.tag # "cur"
  PROVE  AnswerInv'
<1>1. ASSUME NEW r \in net' PROVE AnswerOK(r)'
  <2>1. CASE r \in net BY <2>1, OldAnswers DEF Facts, AnswerInv
  <2>2. CASE r.at = "asked" BY <2>2 DEF AnswerOK
  <2> QED BY <2>1, <2>2
<1> QED BY <1>1 DEF AnswerInv

\* The agent answers the truth.
LEMMA AgentAnswers ==
  ASSUME Base, Life, Facts, [Next]_vars, AgentStep
  PROVE  AnswerInv'
<1> USE DEF Base
<1>0. /\ net \subseteq Calls /\ 0 \in Nat /\ job.size \in Nat
      /\ job.size \in Nat /\ log.bytes \in Nat
  BY Types, BenchmarkAssumption DEF BenchmarkAssumption
<1>1. PICK r \in net :
        \/ \E b \in BOOLEAN : HandleStart(r, b) \/ HandleShow(r, b)
        \/ HandleStatus(r) \/ HandleLogs(r) \/ HandleResult(r) \/ HandleCancel(r)
        \/ IgnoreAnswer(r)
  BY DEF AgentStep
<1>2. row' = row /\ thread' = thread /\ log' = log /\ (Late' <=> Late)
  BY <1>1 DEF HandleStart, HandleShow, HandleStatus, HandleLogs,
     HandleResult, HandleCancel, IgnoreAnswer, Late
<1>3. \A x \in net : AnswerOK(x)'
  BY <1>2, OldAnswers DEF Facts, AnswerInv
<1>4. ASSUME NEW val \in Values, NEW to \in Nat, AnsweredNet(r, val, to),
             \A x : /\ x.name = r.name /\ x.tag = r.tag /\ x.at = "answered"
                    /\ x.val = val /\ x.to = to
                    => AnswerOK(x)'
      PROVE  AnswerInv'
  <2>1. ASSUME NEW x \in net' PROVE AnswerOK(x)'
    <3>1. \/ x \in net
          \/ /\ x.name = r.name /\ x.tag = r.tag /\ x.at = "answered"
             /\ x.val = val /\ x.to = to
      BY <1>0, <1>4, AnsweredCalls
    <3> QED BY <1>3, <1>4, <3>1
  <2> QED BY <2>1 DEF AnswerInv
<1>5. ASSUME NEW b \in BOOLEAN, HandleStart(r, b) PROVE AnswerInv'
  <2>1. PICK val \in {"done", "error"} : AnsweredNet(r, val, 0)
    BY <1>5, HandleStartOutcome
  <2>2. val \in Values BY DEF Values
  <2>3. r.name = "job.start" BY <1>5, HandleStartOutcome
  <2>4. ASSUME NEW x, x.name = r.name PROVE AnswerOK(x)'
    BY <2>3, <2>4 DEF AnswerOK
  <2> QED BY <1>0, <1>4, <2>1, <2>2, <2>4
<1>6. ASSUME NEW b \in BOOLEAN, HandleShow(r, b) PROVE AnswerInv'
  <2>1. PICK val \in {"error", Show} : ShownNet(r, val)
    BY <1>6, HandleShowOutcome
  <2>2. /\ job' = job /\ r.name = "job.status" /\ r \in Calls
    BY <1>0, <1>6, HandleShowOutcome
  <2>3. ASSUME NEW x \in net' PROVE AnswerOK(x)'
    <3>1. x \in net \/ (x.at = "shown" /\ x.val = val /\ x.name = "job.status")
      BY <2>1, <2>2 DEF ShownNet, Calls
    <3>2. CASE x.at = "shown" /\ x.val = val /\ x.name = "job.status"
      <4>1. /\ val \in {"error", "active", "ok", "missing"}
            /\ val = "ok" => Down
            /\ val = "missing" => job.unit \in {"none", "gone"}
        BY Types DEF Show, Down
      <4>2. StatusOK(x)' BY <2>2, <3>2, <4>1 DEF StatusOK, Down
      <4> QED BY <3>2, <4>2 DEF AnswerOK
    <3> QED BY <1>3, <3>1, <3>2
  <2> QED BY <2>3 DEF AnswerInv
<1>7. CASE HandleStatus(r)
  <2>1. /\ r.name = "job.status" /\ r.at = "shown" /\ job' = job
        /\ WithExitFile(r.val) \in Values /\ AnsweredNet(r, WithExitFile(r.val), 0)
    BY <1>7, HandleStatusOutcome
  <2>2. StatusOK(r) BY <2>1 DEF Facts, AnswerInv, AnswerOK
  <2>3. ASSUME NEW x, x.name = r.name, x.at = "answered", x.val = WithExitFile(r.val)
        PROVE  AnswerOK(x)'
    <3>1. CASE job.exitFile /\ r.val \in {"active", "missing"}
      <4>1. x.val = job.rc /\ job.rc \in {"ok", "bad"}
        BY <2>3, <3>1, Types DEF WithExitFile, Life, JobInv
      <4>2. StatusOK(x)' BY <2>1, <4>1 DEF StatusOK
      <4> QED BY <2>1, <2>3, <4>2 DEF AnswerOK
    <3>2. CASE ~(job.exitFile /\ r.val \in {"active", "missing"})
      <4>1. x.val = r.val BY <2>3, <3>2 DEF WithExitFile
      <4>2. r.val = "missing" => Late \/ Absent BY <2>2, <3>2 DEF StatusOK, Absent
      <4>3. StatusOK(x)' BY <1>2, <2>1, <2>2, <4>1, <4>2 DEF StatusOK, Down, Absent
      <4> QED BY <2>1, <2>3, <4>3 DEF AnswerOK
    <3> QED BY <3>1, <3>2
  <2> QED BY <1>0, <1>4, <2>1, <2>3
<1>8. CASE HandleLogs(r)
  <2>1. /\ r.name = "job.logs" /\ job' = job
        /\ "done" \in Values /\ AnsweredNet(r, "done", job.size)
    BY <1>8, HandleLogsOutcome
  <2>2. ASSUME NEW x, x.name = r.name, x.val = "done", x.to = job.size
        PROVE  AnswerOK(x)'
    <3>1. LogsOK(x)' BY <1>0, <1>2, <2>1, <2>2 DEF LogsOK, Facts, ThreadInv
    <3> QED BY <2>1, <2>2, <3>1 DEF AnswerOK
  <2> QED BY <1>0, <1>4, <2>1, <2>2
<1>9. CASE HandleResult(r)
  <2>1. /\ r.name = "job.result" /\ job' = job
        /\ job.result \in Values /\ AnsweredNet(r, job.result, 0)
    BY <1>9, HandleResultOutcome
  <2>2. ASSUME NEW x, x.name = r.name, x.val = job.result PROVE AnswerOK(x)'
    <3>1. ResultOK(x)' BY <2>1, <2>2, Types DEF ResultOK
    <3> QED BY <2>1, <2>2, <3>1 DEF AnswerOK
  <2> QED BY <1>0, <1>4, <2>1, <2>2
<1>10. CASE HandleCancel(r)
  <2>1. /\ r.name = "job.cancel" /\ "done" \in Values /\ AnsweredNet(r, "done", 0)
    BY <1>10, HandleCancelOutcome
  <2>2. ASSUME NEW x, x.name = r.name PROVE AnswerOK(x)'
    BY <2>1, <2>2 DEF AnswerOK
  <2> QED BY <1>0, <1>4, <2>1, <2>2
<1>11. CASE IgnoreAnswer(r)
  BY <1>3, <1>11 DEF IgnoreAnswer, AnswerInv
<1> QED BY <1>1, <1>5, <1>6, <1>7, <1>8, <1>9, <1>10, <1>11

\* What the thread remembers stays true while it does nothing.
LEMMA IdleThread ==
  ASSUME Base, Life, Facts, [Next]_vars, log' = log,
         thread' = thread \/ thread' = [thread EXCEPT !.unsaved = FALSE]
  PROVE  ThreadInv'
<1> USE DEF Facts
<1>1. Late => Late' BY HistoryGrows DEF Late
<1>2. JobAfter BY JobStep
<1>3. /\ thread'.raw = thread.raw /\ thread'.code = thread.code /\ thread'.at = thread.at
      /\ ~thread.unsaved => ~thread'.unsaved
  BY DEF Base, TypeOK
<1>4. thread.raw # "none" => thread.raw = job'.result
  BY <1>2 DEF ThreadInv, JobAfter, Settled, Life, JobInv
<1>5. thread.code = "bad" => job'.rc = "bad"
  BY <1>2 DEF ThreadInv, JobAfter, Settled, Life, JobInv
<1>6. thread.code = "ok" => job'.rc = "ok" \/ Down' \/ Late'
  BY <1>1, <1>2 DEF ThreadInv, JobAfter, Settled, Life, JobInv
<1>7. thread.at \in {"tail", "result", "finwrite"} => Settled'
  BY <1>2 DEF ThreadInv, JobAfter
<1>8. thread.at = "probe" => Late' \/ Absent'
  BY <1>1, <1>2 DEF ThreadInv, JobAfter, Absent
<1>9. thread.at = "tail" /\ thread.code = "none" => thread.raw # "none" /\ (Late' \/ Down')
  BY <1>1, <1>2 DEF ThreadInv, JobAfter
<1>10. log'.bytes <= job'.size
  <2>1. job.size \in Nat /\ log.bytes \in Nat /\ job'.size \in Nat
    <3>1. job.size \in Nat /\ log.bytes \in Nat
      BY Types DEF Base
    <3>2. job'.size \in Nat BY BaseStep DEF Base, TypeOK
    <3> QED BY <3>1, <3>2, BenchmarkAssumption DEF BenchmarkAssumption
  <2> QED BY <1>2, <2>1 DEF ThreadInv, JobAfter
<1> QED BY <1>3, <1>4, <1>5, <1>6, <1>7, <1>8, <1>9, <1>10 DEF ThreadInv

\* A fresh thread remembers nothing.
LEMMA FreshThread ==
  ASSUME Facts, log' = log, job' = job, NEW p \in {"idle", "post", "boot"},
         thread' = Fresh(p)
  PROVE  ThreadInv'
<1>1. /\ thread'.at = p /\ thread'.raw = "none" /\ thread'.code = "none"
      /\ thread'.unsaved = FALSE
  BY DEF Fresh
<1> QED BY <1>1 DEF Facts, ThreadInv

\* A step of the thread that learns nothing.
LEMMA MovedThread ==
  ASSUME Facts, log' = log, job' = job, happened \subseteq happened',
         thread'.raw = thread.raw, thread'.code = thread.code,
         thread'.at \notin {"tail", "result", "finwrite", "probe"},
         \/ thread'.at \in {"failwrite", "idle"}
         \/ thread.code = "none",
         thread'.at \in {"boot", "bootstatus", "bootcancel"} => ~thread'.unsaved
  PROVE  ThreadInv'
<1>1. Late => Late' BY DEF Late
<1>2. /\ thread.raw # "none" => thread.raw = job'.result
      /\ thread.code = "bad" => job'.rc = "bad"
      /\ thread.code = "ok" => job'.rc = "ok" \/ Down' \/ Late'
      /\ log'.bytes <= job'.size
  BY <1>1 DEF Facts, ThreadInv, Down
<1> QED BY <1>2 DEF ThreadInv

\* What an answer tells the thread.
LEMMA AnswerTells ==
  ASSUME Base, Facts, NEW a \in Answers
  PROVE  /\ thread.at \in {"status", "bootstatus"} =>
              /\ a.val = "bad" => job.rc = "bad"
              /\ a.val = "ok" => job.rc = "ok" \/ Down
              /\ a.val = "missing" => Late \/ Absent
         /\ thread.at \in {"probe", "result"} =>
              /\ a.val \in Results \cup {"error", "wrong"}
              /\ a.val \in Results \ {"none"} => a.val = job.result
              /\ a.val \in Results /\ a.slip # "mixup" /\ (~Late \/ thread.at = "result") =>
                   a.val = job.result
         /\ thread.at \in {"logs", "tail"} =>
              /\ a.val \in {"done", "error", "wrong"}
              /\ a.val = "done" => a.to <= job.size
              /\ a.val = "done" /\ a.slip # "mixup" => a.to >= log.bytes
              /\ a.val = "done" /\ a.slip # "mixup" /\ thread.at = "tail" =>
                   a.to = job.size
         /\ a.val = "wrong" => a.slip = "mixup"
<1>0. net \subseteq Calls BY DEF Base, TypeOK
<1>1. Given(a) BY <1>0, AnswersShape DEF Base
<1>2. CASE a.val = "error" /\ a.slip # "mixup" BY <1>2 DEF Results
<1>3. CASE a.val = "wrong" /\ a.slip = "mixup" BY <1>3 DEF Results
<1>4. ASSUME NEW q \in net, q.at = "answered", q.name = Called[thread.at],
             q.val = a.val, q.to = a.to,
             \/ q.tag = "cur" /\ a.slip = "none"
             \/ q.tag = "old" /\ a.slip = "mixup"
      PROVE  /\ thread.at \in {"status", "bootstatus"} =>
                  /\ a.val = "bad" => job.rc = "bad"
                  /\ a.val = "ok" => job.rc = "ok" \/ Down
                  /\ a.val = "missing" => Late \/ Absent
             /\ thread.at \in {"probe", "result"} =>
                  /\ a.val \in Results
                  /\ a.val \in Results \ {"none"} => a.val = job.result
                  /\ a.slip # "mixup" /\ (~Late \/ thread.at = "result") =>
                       a.val = job.result
             /\ thread.at \in {"logs", "tail"} =>
                  /\ a.val = "done"
                  /\ a.to <= job.size
                  /\ a.slip # "mixup" => a.to >= log.bytes
                  /\ a.slip # "mixup" /\ thread.at = "tail" => a.to = job.size
             /\ a.val # "wrong"
  <2>1. AnswerOK(q) BY DEF Facts, AnswerInv
  <2>2. thread.at \in {"status", "bootstatus"} => StatusOK(q)
    BY <1>4, <2>1, CalledValues DEF AnswerOK
  <2>3. thread.at \in {"probe", "result"} => ResultOK(q)
    BY <1>4, <2>1, CalledValues DEF AnswerOK
  <2>4. thread.at \in {"logs", "tail"} => LogsOK(q)
    BY <1>4, <2>1, CalledValues DEF AnswerOK
  <2>5. a.val # "wrong" BY <1>0, <1>4 DEF Calls, Values
  <2>6. thread.at \in {"status", "bootstatus"} =>
                  /\ a.val = "bad" => job.rc = "bad"
                  /\ a.val = "ok" => job.rc = "ok" \/ Down
                  /\ a.val = "missing" => Late \/ Absent
    BY <1>4, <2>2 DEF StatusOK
  <2>7. thread.at \in {"probe", "result"} =>
                  /\ a.val \in Results
                  /\ a.val \in Results \ {"none"} => a.val = job.result
                  /\ a.slip # "mixup" /\ (~Late \/ thread.at = "result") =>
                       a.val = job.result
    BY <1>4, <2>3 DEF ResultOK
  <2>8. thread.at \in {"logs", "tail"} =>
                  /\ a.val = "done"
                  /\ a.to <= job.size
                  /\ a.slip # "mixup" => a.to >= log.bytes
                  /\ a.slip # "mixup" /\ thread.at = "tail" => a.to = job.size
    BY <1>4, <2>4 DEF LogsOK
  <2> QED BY <2>5, <2>6, <2>7, <2>8
<1> QED BY <1>1, <1>2, <1>3, <1>4 DEF Given, Results

\* The manager's log after a drain.
LEMMA LogDrained ==
  ASSUME Base, Facts, NEW a \in Answers, DrainLog(a), thread.at \in {"logs", "tail"}
  PROVE  /\ log'.bytes <= job.size
         /\ a.val \in {"error", "wrong"} => log' = log
         /\ a.val \notin {"error", "wrong"} /\ a.slip # "mixup" => log'.bytes = a.to
         /\ log'.twice /\ a.slip # "mixup" => log.twice \/ thread.offset # log.bytes
         /\ log'.cut => log.cut \/ BreaksLine(thread.offset)
<1>1. /\ a.val \in {"done", "error", "wrong"}
      /\ a.val = "done" => a.to <= job.size
      /\ a.val = "done" /\ a.slip # "mixup" => a.to >= log.bytes
  BY AnswerTells
<1>2. a.to \in Nat /\ job.size \in Nat /\ log.bytes \in Nat /\ thread.offset \in Nat
  <2>1. a.to \in Nat BY AnswersShape DEF Base, TypeOK
  <2> QED BY <2>1, Types, BenchmarkAssumption DEF BenchmarkAssumption, Base
<1>3. CASE a.val \in {"error", "wrong"}
  <2>1. log' = log BY <1>3 DEF DrainLog, Chunk
  <2> QED BY <1>3, <2>1 DEF Facts, ThreadInv
<1>4. CASE a.val = "done"
  <2> DEFINE f == From(thread.offset, a.to)
  <2>0. Chunk(a) BY <1>4 DEF Chunk
  <2>1. log' = [bytes |-> IF a.to > log.bytes THEN a.to ELSE log.bytes,
                twice |-> log.twice \/ (f < a.to /\ f < log.bytes),
                cut |-> log.cut \/ (f < a.to /\ BreaksLine(f))]
    BY <2>0 DEF DrainLog
  <2>2. log'.bytes = IF a.to > log.bytes THEN a.to ELSE log.bytes BY <2>1
  <2>3. /\ log'.twice <=> log.twice \/ (f < a.to /\ f < log.bytes)
        /\ log'.cut <=> log.cut \/ (f < a.to /\ BreaksLine(f))
    BY <2>1
  <2>4. /\ f = thread.offset \/ (f = 0 /\ thread.offset > a.to)
        /\ ~BreaksLine(0)
    BY <1>2 DEF From, BreaksLine
  <2> HIDE DEF f
  <2>5. log'.cut => log.cut \/ BreaksLine(thread.offset) BY <2>3, <2>4
  <2>6. log'.twice /\ a.slip # "mixup" => log.twice \/ thread.offset # log.bytes
    BY <1>1, <1>2, <1>4, <2>3, <2>4
  <2>7. log'.bytes <= job.size
    BY <1>1, <1>2, <1>4, <2>2 DEF Facts, ThreadInv
  <2>8. a.slip # "mixup" => log'.bytes = a.to BY <1>1, <1>2, <1>4, <2>2
  <2> QED BY <1>4, <2>5, <2>6, <2>7, <2>8
<1> QED BY <1>1, <1>3, <1>4

\* The answers of the manager's thread.
LEMMA TakeFacts ==
  ASSUME Base, Life, Facts, Base', [Next]_vars, NEW a \in Answers,
         \/ TakeStart(a) \/ TakeLogs(a) \/ TakeStatus(a) \/ TakeProbe(a) \/ TakeTail(a)
         \/ TakeResult(a) \/ TakeBootStatus(a) \/ TakeBootCancel(a)
  PROVE  Facts'
<1> USE DEF Base
<1>0. net \subseteq Calls /\ thread \in Threads BY DEF TypeOK, Threads
<1>1. AnswerInv'
  BY ThreadAnswers, EndedAnswers, StartOutcome, LogsOutcome, StatusOutcome, ProbeOutcome,
     TailOutcome, ResultOutcome, BootStatusOutcome, BootCancelOutcome
     DEF BootFailed, Ended
<1>2. happened \subseteq happened' /\ (Late => Late') BY HistoryGrows DEF Late
<1>3. CASE TakeStart(a)
  <2>1. /\ log' = log /\ job' = job /\ thread.code = "none"
    BY <1>3, StartOutcome DEF Facts, ThreadInv
  <2>2. /\ thread'.at \in {"logs", "failwrite", "idle"}
        /\ thread'.raw = thread.raw /\ thread'.code = thread.code
    BY <1>0, <1>3, StartOutcome DEF FinishFailed, Threads
  <2>3. ThreadInv' BY <1>2, <2>1, <2>2, MovedThread
  <2> QED BY <1>1, <2>3 DEF Facts
<1>4. CASE TakeLogs(a)
  <2>1. /\ job' = job /\ thread.code = "none" /\ DrainLog(a) /\ thread.at = "logs"
    BY <1>4, LogsOutcome DEF Facts, ThreadInv
  <2>2. /\ thread'.at = "status" /\ thread'.raw = thread.raw /\ thread'.code = "none"
    BY <1>4, <2>1, LogsOutcome, DrainedType DEF Threads
  <2>3. log'.bytes <= job.size BY <2>1, LogDrained
  <2>4. thread.raw # "none" => thread.raw = job.result BY DEF Facts, ThreadInv
  <2>5. ThreadInv' BY <2>1, <2>2, <2>3, <2>4 DEF ThreadInv
  <2> QED BY <1>1, <2>5 DEF Facts
<1>5. CASE TakeStatus(a)
  <2>1. /\ job' = job /\ log' = log /\ thread.code = "none" /\ thread.at = "status"
        /\ log.bytes <= job.size
        /\ thread.raw # "none" => thread.raw = job.result
    BY <1>5, StatusOutcome DEF Facts, ThreadInv
  <2>2. CASE a.val = "missing" /\ thread' = [thread EXCEPT !.at = "probe"]
    <3>1. thread'.at = "probe" /\ thread'.raw = thread.raw /\ thread'.code = "none"
      BY <1>0, <2>1, <2>2 DEF Threads
    <3>2. Late \/ Absent BY <2>1, <2>2, AnswerTells
    <3>3. ThreadInv' BY <1>2, <2>1, <3>1, <3>2 DEF ThreadInv, Absent
    <3> QED BY <1>1, <3>3 DEF Facts
  <2>3. CASE /\ a.val \in {"ok", "bad"}
             /\ thread' = [thread EXCEPT !.code = a.val, !.at = "tail"]
    <3>1. thread'.at = "tail" /\ thread'.raw = thread.raw /\ thread'.code = a.val
      BY <1>0, <2>1, <2>3 DEF Threads
    <3>2. /\ a.val = "bad" => job.rc = "bad"
          /\ a.val = "ok" => job.rc = "ok" \/ Down
      BY <2>1, AnswerTells
    <3>3. Settled BY <2>3, <3>2 DEF Settled, Down, Life, JobInv
    <3>4. ThreadInv' BY <2>1, <2>3, <3>1, <3>2, <3>3 DEF ThreadInv, Settled, Down
    <3> QED BY <1>1, <3>4 DEF Facts
  <2>4. CASE FinishFailed(thread, "vanished") \/ thread' = [thread EXCEPT !.at = "logs"]
    <3>1. /\ thread'.at \in {"logs", "failwrite", "idle"}
          /\ thread'.raw = thread.raw /\ thread'.code = thread.code
      BY <1>0, <2>4 DEF FinishFailed, Threads
    <3>2. ThreadInv' BY <1>2, <2>1, <3>1, MovedThread
    <3> QED BY <1>1, <3>2 DEF Facts
  <2> QED BY <1>5, <2>2, <2>3, <2>4, StatusOutcome
<1>6. CASE TakeProbe(a)
  <2>1. /\ job' = job /\ log' = log /\ thread.code = "none" /\ thread.at = "probe"
        /\ log.bytes <= job.size /\ (Late \/ Absent)
    BY <1>6, ProbeOutcome DEF Facts, ThreadInv
  <2>2. CASE /\ a.val \in {"empty", "good"}
             /\ thread' = [thread EXCEPT !.raw = a.val, !.at = "tail"]
    <3>1. thread'.at = "tail" /\ thread'.raw = a.val /\ thread'.code = "none"
      BY <1>0, <2>1, <2>2 DEF Threads
    <3>2. a.val = job.result BY <2>1, <2>2, AnswerTells DEF Results
    <3>3. job.rc # "none" BY <2>2, <3>2 DEF Life, JobInv
    <3>4. Settled /\ (Late \/ Down)
      BY <2>1, <3>3 DEF Settled, Down, Absent, Life, JobInv
    <3>5. ThreadInv'
      BY <1>2, <2>1, <2>2, <3>1, <3>2, <3>4 DEF ThreadInv, Settled, Down
    <3> QED BY <1>1, <3>5 DEF Facts
  <2>3. CASE FinishFailed(thread, "vanished")
    <3>1. /\ thread'.at \in {"failwrite", "idle"}
          /\ thread'.raw = thread.raw /\ thread'.code = thread.code
      BY <1>0, <2>3 DEF FinishFailed, Threads
    <3>2. ThreadInv' BY <1>2, <2>1, <3>1, MovedThread
    <3> QED BY <1>1, <3>2 DEF Facts
  <2> QED BY <1>6, <2>2, <2>3, ProbeOutcome
<1>7. CASE TakeTail(a)
  <2>1. /\ job' = job /\ DrainLog(a) /\ thread.at = "tail" /\ Settled
    BY <1>7, TailOutcome DEF Facts, ThreadInv
  <2>2. log'.bytes <= job.size BY <2>1, LogDrained
  <2>3. /\ thread'.raw = thread.raw
        /\ \/ /\ thread.code # "none" /\ thread'.at = "result"
              /\ thread'.code = thread.code
           \/ /\ thread.code = "none" /\ thread'.at \in {"finwrite", "idle"}
              /\ thread'.code = "ok"
    <3>1. Drained(a) \in Threads /\ Drained(a).raw = thread.raw
          /\ Drained(a).code = thread.code
      BY DrainedType
    <3>2. CASE thread.code # "none" /\ thread' = [Drained(a) EXCEPT !.at = "result"]
      BY <3>1, <3>2 DEF Threads
    <3>3. CASE thread.code = "none" /\ Finalize([Drained(a) EXCEPT !.code = "ok"])
      BY <3>1, <3>3 DEF Threads, Finalize
    <3> QED BY <1>7, <3>2, <3>3, TailOutcome
  <2>4. ThreadInv'
    BY <1>2, <2>1, <2>2, <2>3 DEF ThreadInv, Facts, Settled, Down
  <2> QED BY <1>1, <2>4 DEF Facts
<1>8. CASE TakeResult(a)
  <2>1. /\ job' = job /\ log' = log /\ thread.at = "result" /\ Settled
        /\ log.bytes <= job.size /\ thread.code # "none"
    BY <1>8, ResultOutcome DEF Facts, ThreadInv
  <2>2. /\ thread'.raw = RawOutput(a) /\ thread'.code = thread.code
        /\ thread'.at \in {"finwrite", "idle"}
    BY <1>0, <1>8, ResultOutcome DEF Finalize, Threads
  <2>3. RawOutput(a) # "none" => RawOutput(a) = job.result
    BY <2>1, AnswerTells DEF RawOutput
  <2>4. ThreadInv'
    BY <1>2, <2>1, <2>2, <2>3 DEF ThreadInv, Facts, Settled, Down
  <2> QED BY <1>1, <2>4 DEF Facts
<1>9. ASSUME NEW why \in Errors, BootFailed(why), job' = job, log' = log
      PROVE  Facts'
  BY <1>1, <1>9, FreshThread DEF BootFailed, Ended, Facts
<1>10. CASE TakeBootStatus(a)
  <2>1. /\ job' = job /\ log' = log /\ thread.at = "bootstatus"
        /\ thread.code = "none" /\ ~thread.unsaved
    BY <1>10, BootStatusOutcome DEF Facts, ThreadInv
  <2>2. CASE BootFailed("orphan") BY <1>9, <2>1, <2>2 DEF Errors
  <2>3. CASE thread' = [thread EXCEPT !.at = "bootcancel"] \/ Resumed
    <3>1. /\ thread'.at \in {"bootcancel", "proxy", "logs"}
          /\ thread'.raw = thread.raw /\ thread'.code = thread.code
          /\ thread'.unsaved = thread.unsaved
      BY <1>0, <2>3 DEF Resumed, Threads
    <3>2. ThreadInv' BY <1>2, <2>1, <3>1, MovedThread
    <3> QED BY <1>1, <3>2 DEF Facts
  <2> QED BY <1>10, <2>2, <2>3, BootStatusOutcome
<1>11. CASE TakeBootCancel(a)
  BY <1>9, <1>11, BootCancelOutcome DEF Errors
<1> QED BY <1>3, <1>4, <1>5, <1>6, <1>7, <1>8, <1>10, <1>11

\* The rest of the thread's steps.
LEMMA ManagerFacts ==
  ASSUME Base, Life, Facts, [Next]_vars,
         PostRunning \/ Execute \/ ProxyUp \/ FinalWrite \/ FailWrite \/ Boot
         \/ SaveOffset \/ Create
  PROVE  Facts'
<1> USE DEF Base
<1>0. net \subseteq Calls /\ thread \in Threads BY DEF TypeOK, Threads
<1>1. job' = job /\ log' = log /\ happened \subseteq happened'
  BY HistoryGrows DEF PostRunning, Execute, ProxyUp, FinalWrite, FailWrite, Boot,
     SaveOffset, Create
<1>2. thread.at \notin DOMAIN Called => \A r \in net : r.tag # "cur" BY DEF CallInv
<1>3. CASE SaveOffset
  <2>1. thread'.at = thread.at /\ net' = net /\ thread' = [thread EXCEPT !.unsaved = FALSE]
    BY <1>0, <1>3 DEF SaveOffset, Threads
  <2>2. AnswerInv' BY <1>1, <2>1, KeptAnswers
  <2>3. ThreadInv' BY <1>1, <2>1, IdleThread
  <2> QED BY <2>2, <2>3 DEF Facts
<1>4. CASE Execute \/ ProxyUp
  <2>1. AnswerInv' BY <1>4, DispatchOutcome, ThreadAnswers
  <2>2. /\ thread'.at \in {"proxy", "logs", "start"}
        /\ thread'.raw = thread.raw /\ thread'.code = thread.code
    BY <1>0, <1>4, DispatchOutcome DEF Threads
  <2>3. thread.code = "none" BY <1>4 DEF Execute, ProxyUp, Facts, ThreadInv
  <2>4. ThreadInv' BY <1>1, <2>2, <2>3, MovedThread
  <2> QED BY <2>1, <2>4 DEF Facts
<1>5. CASE Boot
  <2>1. AnswerInv' BY <1>5, BootOutcome, ThreadAnswers
  <2>2. CASE thread' = Fresh("idle")
    BY <1>1, <2>1, <2>2, FreshThread DEF Facts
  <2>3. CASE thread' = [thread EXCEPT !.at = "bootstatus"]
    <3>1. /\ thread'.at = "bootstatus" /\ thread'.raw = thread.raw
          /\ thread'.code = thread.code /\ thread'.unsaved = thread.unsaved
      BY <1>0, <2>3 DEF Threads
    <3>2. thread.code = "none" /\ ~thread.unsaved BY <1>5 DEF Boot, Facts, ThreadInv
    <3>3. ThreadInv' BY <1>1, <3>1, <3>2, MovedThread
    <3> QED BY <2>1, <3>3 DEF Facts
  <2> QED BY <1>5, <2>2, <2>3, BootOutcome
<1>6. CASE PostRunning
  <2>1. AnswerInv'
    BY <1>2, <1>6, CalledValues, KeptAnswers DEF PostRunning
  <2>2. /\ thread'.at \in {"posted", "idle"} /\ thread'.raw = thread.raw
        /\ thread'.code = thread.code
    BY <1>0, <1>6 DEF PostRunning, Threads
  <2>3. thread.code = "none" BY <1>6 DEF PostRunning, Facts, ThreadInv
  <2>4. ThreadInv' BY <1>1, <2>2, <2>3, MovedThread
  <2> QED BY <2>1, <2>4 DEF Facts
<1>7. CASE FinalWrite
  <2>1. AnswerInv'
    BY <1>2, <1>7, CalledValues, KeptAnswers DEF FinalWrite
  <2>2. /\ thread'.at \in {"failwrite", "idle"} /\ thread'.raw = thread.raw
        /\ thread'.code = thread.code
    BY <1>0, <1>7 DEF FinalWrite, FinishFailed, Threads
  <2>3. ThreadInv' BY <1>1, <2>2, MovedThread
  <2> QED BY <2>1, <2>3 DEF Facts
<1>8. CASE FailWrite
  <2>1. CASE Ended
    BY <1>1, <2>1, EndedAnswers, FreshThread DEF Ended, Facts
  <2>2. CASE thread' = [thread EXCEPT !.at = "idle"] /\ net' = net
    <3>1. AnswerInv'
      BY <1>2, <1>8, <2>2, CalledValues, KeptAnswers DEF FailWrite
    <3>2. /\ thread'.at = "idle" /\ thread'.raw = thread.raw
          /\ thread'.code = thread.code
      BY <1>0, <2>2 DEF Threads
    <3>3. ThreadInv' BY <1>1, <3>2, MovedThread
    <3> QED BY <3>1, <3>3 DEF Facts
  <2> QED BY <1>8, <2>1, <2>2, FailWriteOutcome
<1>9. CASE Create
  <2>1. thread.at = "idle" /\ net' = net /\ thread' = Fresh("post")
    BY <1>9 DEF Create, NotYet
  <2>2. AnswerInv' BY <1>2, <2>1, CalledValues, KeptAnswers
  <2> QED BY <1>1, <2>1, <2>2, FreshThread DEF Facts
<1> QED BY <1>3, <1>4, <1>5, <1>6, <1>7, <1>8, <1>9

\* The agent, the job, the user and the faults.
LEMMA OtherFacts ==
  ASSUME Base, Life, Facts, [Next]_vars,
         \/ AgentStep \/ UnitStep \/ Reconnect \/ Cancel \/ Delete
         \/ WriteLog \/ \E e \in Endings : CommandEnds(e[1], e[2])
         \/ ManagerRestart \/ Drop \/ \E node \in BOOLEAN : AgentRestart(node)
  PROVE  Facts'
<1> USE DEF Base
<1>1. CASE AgentStep
  <2>1. thread' = thread /\ log' = log
    BY <1>1 DEF AgentStep, HandleStart, HandleShow, HandleStatus, HandleLogs,
       HandleResult, HandleCancel, IgnoreAnswer
  <2> QED BY <1>1, <2>1, AgentAnswers, IdleThread DEF Facts
<1>2. CASE \/ UnitStep \/ Reconnect \/ Delete
           \/ WriteLog \/ \E e \in Endings : CommandEnds(e[1], e[2])
           \/ Drop \/ \E node \in BOOLEAN : AgentRestart(node)
  <2>1. thread' = thread /\ log' = log /\ net' \subseteq net
    BY <1>2 DEF UnitStep, WriteExit, Stopped, Reconnect, Delete, WriteLog, CommandEnds,
       Drop, AgentRestart
  <2> QED BY <2>1, KeptAnswers, IdleThread DEF Facts
<1>3. CASE Cancel
  <2>1. Request("job.cancel", "stale").at = "asked" BY RequestType DEF Caps
  <2>2. /\ thread' = thread /\ log' = log
        /\ \A r \in net' : r \in net \/ r.at = "asked"
    BY <1>3, <2>1 DEF Cancel, CancelBenchmark
  <2> QED BY <2>2, KeptAnswers, IdleThread DEF Facts
<1>4. CASE ManagerRestart
  BY <1>4, RestartOutcome, EndedAnswers, FreshThread DEF Ended, Facts
<1> QED BY <1>1, <1>2, <1>3, <1>4

\* Every step keeps what is known true.
LEMMA FactsStep ==
  ASSUME Base, Life, Facts, [Next]_vars
  PROVE  Facts'
<1>1. Base' BY BaseStep
<1>2. CASE UNCHANGED vars
  BY <1>2, KeptAnswers, IdleThread DEF vars, Facts
<1> QED BY <1>1, <1>2, TakeFacts, ManagerFacts, OtherFacts
        DEF Next, ManagerStep, Event

\* At the start nothing is known.
LEMMA FactsInit == Init => Facts
<1> SUFFICES ASSUME Init PROVE Facts
  OBVIOUS
<1>1. /\ thread.at = "idle" /\ thread.raw = "none" /\ thread.code = "none"
      /\ thread.unsaved = FALSE
  BY DEF Init, Fresh
<1> QED BY <1>1 DEF Init, Facts, ThreadInv, AnswerInv

(***************************************************************************)
(* The end of the run.                                                     *)
(***************************************************************************)

\* A job.cancel is yet to be carried out.
CancelAsked == \E r \in net : r.name = "job.cancel" /\ r.at = "asked"

\* Where the thread may be while its run is being cancelled.
Harmless == Registered \/ thread.at \in {"idle", "boot"}

\* Why a unit may be stopped.
Excused ==
  \/ happened \cap {"rebooted", "proxyLost"} # {}
  \/ row.status = "gone"
  \/ row.status = "canceled" /\ Harmless

\* A unit is stopped only by a reboot, by the reconciliation of a run that lost its
\* proxy, or for a run whose row says so for good.
StopInv == Down \/ CancelAsked => Excused

\* A run that has ended is followed by nobody.
EndInv == row.status \in {"completed", "failed"} => thread.at = "idle"

\* Where the thread goes with an answer.
LEMMA TakeMoves ==
  ASSUME Base, NEW a \in Answers,
         \/ TakeStart(a) \/ TakeLogs(a) \/ TakeStatus(a) \/ TakeProbe(a) \/ TakeTail(a)
         \/ TakeResult(a) \/ TakeBootStatus(a) \/ TakeBootCancel(a)
  PROVE  \/ /\ ThreadNet /\ row' = row /\ Registered
            /\ \/ thread'.at \in {"logs", "status", "probe", "tail", "result"}
               \/ thread'.at \in {"finwrite", "failwrite"} /\ row.status # "canceled"
               \/ thread'.at = "idle" /\ row.status = "canceled"
         \/ /\ thread.at = "bootstatus" /\ ThreadNet /\ row' = row
            /\ \/ thread'.at = "bootcancel" /\ "proxyLost" \in happened'
               \/ thread'.at \in {"proxy", "logs"}
         \/ /\ thread.at \in {"bootstatus", "bootcancel"}
            /\ \E why \in {"orphan", "proxy"} : BootFailed(why)
<1> USE DEF Base
<1>0. net \subseteq Calls /\ thread \in Threads BY DEF TypeOK, Threads
<1>1. CASE TakeStart(a)
  BY <1>0, <1>1, StartOutcome DEF FinishFailed, NotCanceled, Threads, Registered
<1>2. CASE TakeLogs(a)
  BY <1>2, LogsOutcome, DrainedType DEF Threads, Registered
<1>3. CASE TakeStatus(a)
  BY <1>0, <1>3, StatusOutcome DEF FinishFailed, NotCanceled, Threads, Registered
<1>4. CASE TakeProbe(a)
  BY <1>0, <1>4, ProbeOutcome DEF FinishFailed, NotCanceled, Threads, Registered
<1>5. CASE TakeTail(a)
  <2>1. Drained(a) \in Threads BY DrainedType
  <2>2. CASE thread' = [Drained(a) EXCEPT !.at = "result"]
    BY <1>5, <2>1, <2>2, TailOutcome DEF Threads, Registered
  <2>3. CASE Finalize([Drained(a) EXCEPT !.code = "ok"])
    BY <1>5, <2>1, <2>3, TailOutcome DEF Finalize, NotCanceled, Threads, Registered
  <2> QED BY <1>5, <2>2, <2>3, TailOutcome
<1>6. CASE TakeResult(a)
  BY <1>0, <1>6, ResultOutcome DEF Finalize, NotCanceled, Threads, Registered
<1>7. CASE TakeBootStatus(a)
  <2>1. CASE BootFailed("orphan") BY <1>7, <2>1, BootStatusOutcome
  <2>2. CASE ~BootFailed("orphan")
    BY <1>0, <1>7, <2>2, BootStatusOutcome DEF Resumed, Threads
  <2> QED BY <2>1, <2>2
<1>8. CASE TakeBootCancel(a)
  BY <1>8, BootCancelOutcome
<1> QED BY <1>1, <1>2, <1>3, <1>4, <1>5, <1>6, <1>7, <1>8

\* An ended run has one who wrote its end.
LEMMA EndStep ==
  ASSUME Base, Life, EndInv, [Next]_vars
  PROVE  EndInv'
<1> USE DEF Base
<1>0. net \subseteq Calls /\ thread \in Threads BY DEF TypeOK, Threads
<1>1. ASSUME NEW a \in Answers,
             \/ TakeStart(a) \/ TakeLogs(a) \/ TakeStatus(a) \/ TakeProbe(a)
             \/ TakeTail(a) \/ TakeResult(a) \/ TakeBootStatus(a) \/ TakeBootCancel(a)
      PROVE  EndInv'
  <2>1. thread.at # "idle" BY <1>0, AnswersShape, CalledValues
  <2>2. row' = row \/ \E why \in {"orphan", "proxy"} : BootFailed(why)
    BY <1>1, TakeMoves
  <2>3. ASSUME NEW why, BootFailed(why), row' # row PROVE thread'.at = "idle"
    BY <2>3, FreshType DEF BootFailed, Places
  <2> QED BY <2>1, <2>2, <2>3 DEF EndInv
<1>2. CASE FinalWrite
  <2>1. row' = row \/ thread'.at = "idle"
    BY <1>0, <1>2 DEF FinalWrite, Threads
  <2> QED BY <1>2, <2>1 DEF EndInv, FinalWrite
<1>3. CASE FailWrite
  <2>1. row' = row \/ thread'.at = "idle"
    BY <1>0, <1>3, FailWriteOutcome DEF Threads
  <2> QED BY <1>3, <2>1 DEF EndInv, FailWrite
<1>4. CASE PostRunning \/ Execute \/ ProxyUp \/ Boot
  BY <1>4 DEF PostRunning, Execute, ProxyUp, Boot, EndInv, TypeOK
<1>5. CASE SaveOffset
  BY <1>0, <1>5 DEF SaveOffset, EndInv, TypeOK, Threads
<1>6. CASE Create \/ Cancel \/ Delete
  BY <1>6 DEF Create, Cancel, Delete, EndInv, TypeOK
<1>7. CASE ManagerRestart
  BY <1>7 DEF ManagerRestart, Fault, Followed, EndInv
<1>8. CASE row' = row /\ thread' = thread BY <1>8 DEF EndInv
<1>9. CASE AgentStep
  BY <1>8, <1>9 DEF AgentStep, HandleStart, HandleShow, HandleStatus, HandleLogs,
     HandleResult, HandleCancel, IgnoreAnswer
<1>10. CASE UnitStep \/ Reconnect \/ UNCHANGED vars
  BY <1>8, <1>10 DEF UnitStep, WriteExit, Stopped, Reconnect, vars
<1> QED BY <1>1, <1>2, <1>3, <1>4, <1>5, <1>6, <1>7, <1>8, <1>9, <1>10
        DEF Next, ManagerStep, Event, WriteLog, CommandEnds, Drop, AgentRestart

\* No step of the thread asks for a cancellation but that of a run without proxy.
LEMMA ThreadCancel ==
  ASSUME ThreadNet, CancelAsked', thread'.at # "bootcancel"
  PROVE  CancelAsked
<1>1. PICK r \in net' : r.name = "job.cancel" /\ r.at = "asked" BY DEF CancelAsked
<1>2. CASE r \in net BY <1>1, <1>2 DEF CancelAsked
<1>3. CASE \E q \in net : q.at = "asked" /\ q.name = r.name
  BY <1>1, <1>3 DEF CancelAsked
<1>4. CASE /\ thread'.at \in DOMAIN Called
           /\ r = Request(Called[thread'.at], "cur")
  <2>1. r.name = Called[thread'.at] BY <1>4, RequestType, CalledValues
  <2> QED BY <1>1, <1>4, <2>1, CalledValues
<1> QED BY <1>2, <1>3, <1>4 DEF ThreadNet

\* Nor does the agent.
LEMMA AgentCancel ==
  ASSUME Base, AgentStep, CancelAsked'
  PROVE  CancelAsked
<1> USE DEF Base
<1>0. net \subseteq Calls BY DEF TypeOK
<1>1. PICK x \in net' : x.name = "job.cancel" /\ x.at = "asked" BY DEF CancelAsked
<1>2. ASSUME NEW r \in net, NEW val \in Values, NEW to \in Nat,
             AnsweredNet(r, val, to)
      PROVE  x \in net
  BY <1>0, <1>1, <1>2, AnsweredCalls
<1>3. ASSUME NEW r \in net, NEW val, ShownNet(r, val) PROVE x \in net
  <2>1. r \in Calls BY <1>0
  <2>2. [r EXCEPT !.at = "shown", !.val = val].at = "shown" BY <2>1 DEF Calls
  <2> QED BY <1>1, <1>3, <2>2 DEF ShownNet
<1>4. x \in net
  <2>1. 0 \in Nat /\ job.size \in Nat
        /\ {"done", "error"} \subseteq Values
    BY Types DEF Values
  <2>2. PICK r \in net :
          \/ \E b \in BOOLEAN : HandleStart(r, b) \/ HandleShow(r, b)
          \/ HandleStatus(r) \/ HandleLogs(r) \/ HandleResult(r) \/ HandleCancel(r)
          \/ IgnoreAnswer(r)
    BY DEF AgentStep
  <2>3. ASSUME NEW b \in BOOLEAN, HandleStart(r, b) PROVE x \in net
    BY <1>2, <2>1, <2>3, HandleStartOutcome
  <2>4. ASSUME NEW b \in BOOLEAN, HandleShow(r, b) PROVE x \in net
    BY <1>3, <2>4, HandleShowOutcome
  <2>5. CASE HandleStatus(r) BY <1>2, <2>1, <2>5, HandleStatusOutcome
  <2>6. CASE HandleLogs(r) BY <1>2, <2>1, <2>6, HandleLogsOutcome
  <2>7. CASE HandleResult(r) BY <1>2, <2>1, <2>7, HandleResultOutcome
  <2>8. CASE HandleCancel(r) BY <1>2, <2>1, <2>8, HandleCancelOutcome
  <2>9. CASE IgnoreAnswer(r) BY <2>9 DEF IgnoreAnswer
  <2> QED BY <2>2, <2>3, <2>4, <2>5, <2>6, <2>7, <2>8, <2>9
<1> QED BY <1>1, <1>4 DEF CancelAsked

\* What stops a unit.
LEMMA StopCause ==
  ASSUME Base, Life, [Next]_vars, Down' \/ CancelAsked'
  PROVE  \/ Down \/ CancelAsked \/ "rebooted" \in happened'
         \/ "proxyLost" \in happened'
         \/ Cancel /\ Registered
<1> USE DEF Base
<1>1. CASE Down'
  BY <1>1, JobStep DEF JobAfter, CancelAsked
<1>2. ASSUME CancelAsked', net' \subseteq net PROVE CancelAsked
  BY <1>2 DEF CancelAsked
<1>3. ASSUME CancelAsked', EndedNet PROVE CancelAsked
  BY <1>3 DEF CancelAsked, EndedNet
<1>4. ASSUME CancelAsked', NEW why, BootFailed(why) PROVE CancelAsked
  BY <1>3, <1>4, ThreadCancel, FreshType DEF BootFailed, Ended, Places
<1>5. ASSUME CancelAsked', NEW a \in Answers,
             \/ TakeStart(a) \/ TakeLogs(a) \/ TakeStatus(a) \/ TakeProbe(a)
             \/ TakeTail(a) \/ TakeResult(a) \/ TakeBootStatus(a) \/ TakeBootCancel(a)
      PROVE  CancelAsked \/ "proxyLost" \in happened'
  BY <1>4, <1>5, TakeMoves, ThreadCancel
<1>6. ASSUME CancelAsked', Execute \/ ProxyUp PROVE CancelAsked
  <2>1. ThreadNet /\ thread'.at # "bootcancel"
    BY <1>6, DispatchOutcome DEF TypeOK
  <2> QED BY <1>6, <2>1, ThreadCancel
<1>7. ASSUME CancelAsked', Boot PROVE CancelAsked
  <2>1. ThreadNet /\ thread'.at # "bootcancel"
    BY <1>7, BootOutcome, FreshType DEF TypeOK, Places
  <2> QED BY <1>7, <2>1, ThreadCancel
<1>8. ASSUME CancelAsked', FailWrite PROVE CancelAsked
  BY <1>2, <1>3, <1>8, FailWriteOutcome DEF Ended
<1>9. ASSUME CancelAsked', ManagerRestart PROVE CancelAsked
  BY <1>3, <1>9, RestartOutcome DEF Ended
<1>10. ASSUME CancelAsked', Cancel PROVE CancelAsked \/ Registered
  BY <1>2, <1>10 DEF Cancel, CancelBenchmark
<1>11. CASE \/ PostRunning \/ FinalWrite \/ SaveOffset \/ Reconnect \/ UnitStep
            \/ Create \/ Delete \/ WriteLog
            \/ \E e \in Endings : CommandEnds(e[1], e[2])
            \/ Drop \/ \E node \in BOOLEAN : AgentRestart(node)
            \/ UNCHANGED vars
  <2>1. net' \subseteq net
    BY <1>11 DEF PostRunning, FinalWrite, SaveOffset, Reconnect, UnitStep, WriteExit,
       Stopped, Create, Delete, WriteLog, CommandEnds, Drop, AgentRestart, vars
  <2> QED BY <1>1, <1>2, <2>1
<1> QED BY <1>1, <1>5, <1>6, <1>7, <1>8, <1>9, <1>10, <1>11, AgentCancel
        DEF Next, ManagerStep, Event

\* A deleted row stays deleted.
LEMMA GoneStays ==
  ASSUME Base, [Next]_vars, row.status = "gone"
  PROVE  row'.status = "gone"
<1> USE DEF Base
<1>1. ASSUME NEW a \in Answers,
             \/ TakeStart(a) \/ TakeLogs(a) \/ TakeStatus(a) \/ TakeProbe(a)
             \/ TakeTail(a) \/ TakeResult(a) \/ TakeBootStatus(a) \/ TakeBootCancel(a)
      PROVE  row' = row
  BY <1>1, TakeMoves DEF BootFailed, Row
<1>2. CASE FailWrite BY <1>2, FailWriteOutcome DEF Row
<1>3. CASE row' = row BY <1>3
<1> QED BY <1>1, <1>2, <1>3 DEF Next, ManagerStep, AgentStep, UnitStep, Event,
        PostRunning, Execute, ProxyUp, FinalWrite, Boot, HandleStart, HandleShow,
        HandleStatus, HandleLogs, HandleResult, HandleCancel, IgnoreAnswer, WriteExit,
        Stopped, SaveOffset, Reconnect, Create, Cancel, Delete, WriteLog, CommandEnds,
        ManagerRestart, Drop, AgentRestart, Row, vars

\* A step of the thread that is excused stays so.
LEMMA TakeExcused ==
  ASSUME Base, [Next]_vars, Excused, NEW a \in Answers,
         \/ TakeStart(a) \/ TakeLogs(a) \/ TakeStatus(a) \/ TakeProbe(a) \/ TakeTail(a)
         \/ TakeResult(a) \/ TakeBootStatus(a) \/ TakeBootCancel(a)
  PROVE  Excused'
<1>0. happened \subseteq happened' BY HistoryGrows
<1>1. CASE happened \cap {"rebooted", "proxyLost"} # {} BY <1>0, <1>1 DEF Excused
<1>2. CASE row.status = "gone" BY <1>2, GoneStays DEF Excused
<1>3. CASE row.status = "canceled" /\ Harmless
  <2>1. thread.at \notin {"idle", "boot"}
    BY AnswersShape, CalledValues DEF Base, TypeOK
  <2>2. row' = row /\ (Registered' \/ thread'.at = "idle")
    BY <1>3, <2>1, TakeMoves DEF Harmless, Registered
  <2> QED BY <1>3, <2>2 DEF Excused, Harmless
<1> QED BY <1>1, <1>2, <1>3 DEF Excused

\* So does every other.
LEMMA ExcusedStep ==
  ASSUME Base, [Next]_vars, Excused, ~Before
  PROVE  Excused'
<1> USE DEF Base
<1>0. happened \subseteq happened' /\ thread \in Threads
  BY HistoryGrows DEF TypeOK, Threads
<1>1. CASE happened \cap {"rebooted", "proxyLost"} # {} BY <1>0, <1>1 DEF Excused
<1>2. CASE row.status = "gone" BY <1>2, GoneStays DEF Excused
<1>3. ASSUME row.status = "canceled", Harmless
      PROVE  Excused'
  <2>1. CASE row' = row /\ thread'.at = thread.at
    BY <1>3, <2>1 DEF Excused, Harmless, Registered
  <2>2. CASE Boot
    <3>1. row' = row /\ thread'.at = "idle"
      BY <1>3, <2>2, BootOutcome, FreshType DEF Stale, Places
    <3> QED BY <1>3, <3>1 DEF Excused, Harmless
  <2>3. CASE ManagerRestart
    <3>1. row' = row /\ thread'.at = "boot"
      BY <2>3, RestartOutcome, FreshType DEF Ended, Places
    <3> QED BY <1>3, <3>1 DEF Excused, Harmless
  <2>4. CASE Delete BY <2>4 DEF Delete, Excused, TypeOK
  <2>5. CASE Cancel
    <3>1. row'.status = "canceled" /\ thread' = thread BY <2>5 DEF Cancel, TypeOK
    <3> QED BY <1>3, <3>1 DEF Excused, Harmless, Registered
  <2>6. CASE SaveOffset
    <3>1. row'.status = row.status /\ thread'.at = thread.at
      BY <1>0, <2>6 DEF SaveOffset, TypeOK, Threads
    <3> QED BY <1>3, <3>1 DEF Excused, Harmless, Registered
  <2>7. ~PostRunning /\ ~Execute /\ ~ProxyUp /\ ~FinalWrite /\ ~FailWrite /\ ~Create
    BY <1>3 DEF PostRunning, Execute, ProxyUp, FinalWrite, FailWrite, Create, Harmless,
       Registered
  <2>8. CASE AgentStep
    BY <2>1, <2>8 DEF AgentStep, HandleStart, HandleShow, HandleStatus, HandleLogs,
       HandleResult, HandleCancel, IgnoreAnswer
  <2>9. CASE UnitStep \/ Reconnect \/ UNCHANGED vars
    BY <2>1, <2>9 DEF UnitStep, WriteExit, Stopped, Reconnect, vars
  <2> QED BY <2>1, <2>2, <2>3, <2>4, <2>5, <2>6, <2>7, <2>8, <2>9, TakeExcused
          DEF Next, ManagerStep, Event, WriteLog, CommandEnds, Drop, AgentRestart
<1> QED BY <1>1, <1>2, <1>3 DEF Excused

\* Nothing stops a unit without an excuse.
LEMMA StopStep ==
  ASSUME Base, Life, StopInv, [Next]_vars
  PROVE  StopInv'
<1>1. CASE ~(Down' \/ CancelAsked') BY <1>1 DEF StopInv
<1>2. CASE "rebooted" \in happened' \/ "proxyLost" \in happened'
  BY <1>2 DEF StopInv, Excused
<1>3. CASE Cancel /\ Registered
  <2>1. row'.status = "canceled" /\ thread' = thread
    BY <1>3 DEF Cancel, Base, TypeOK
  <2> QED BY <1>3, <2>1 DEF StopInv, Excused, Harmless, Registered
<1>4. CASE Down \/ CancelAsked
  <2>1. ~Before
    BY <1>4 DEF Life, StartInv, Down, CancelAsked
  <2> QED BY <1>4, <2>1, ExcusedStep DEF StopInv
<1> QED BY <1>1, <1>2, <1>3, <1>4, StopCause

\* A unit that was stopped for a run that could still be recorded.
LEMMA StoppedRecorded ==
  ASSUME StopInv, Down, Row, thread.at \in {"finwrite", "failwrite"}
  PROVE  happened \cap {"rebooted", "proxyLost"} # {}
BY DEF StopInv, Excused, Row, Harmless, Registered

\* Who writes the end of a run.
LEMMA EndWrites ==
  ASSUME Base, [Next]_vars
  PROVE  /\ row'.status = "completed" =>
              \/ row.status = "completed"
              \/ FinalWrite /\ Row /\ Complete
         /\ row'.status = "failed" =>
              \/ row.status = "failed" /\ row'.error = row.error
              \/ FinalWrite /\ Row /\ FailedDirectly /\ row'.error = "nooutput"
              \/ FailWrite /\ Row /\ row'.error = thread.why
              \/ /\ row'.error = "orphan"
                 /\ \E a \in Answers : TakeBootStatus(a) /\ a.val = "missing"
              \/ row'.error = "proxy"
<1> USE DEF Base
<1>1. CASE row'.status = row.status /\ row'.error = row.error BY <1>1
<1>2. ASSUME NEW a \in Answers, TakeBootStatus(a)
      PROVE  \/ row' = row
             \/ /\ row'.status = "failed" /\ row'.error = "orphan"
                /\ a.val = "missing"
  BY <1>2, BootStatusOutcome DEF BootFailed, Failed, TypeOK
<1>3. ASSUME NEW a \in Answers, TakeBootCancel(a)
      PROVE  row' = row \/ (row'.status = "failed" /\ row'.error = "proxy")
  BY <1>3, BootCancelOutcome DEF BootFailed, Failed, TypeOK
<1>4. ASSUME NEW a \in Answers,
             \/ TakeStart(a) \/ TakeLogs(a) \/ TakeStatus(a) \/ TakeProbe(a)
             \/ TakeTail(a) \/ TakeResult(a)
      PROVE  row' = row
  BY <1>4 DEF TakeStart, TakeLogs, TakeStatus, TakeProbe, TakeTail, TakeResult
<1>5. CASE FinalWrite
  <2>1. \/ row' = row
        \/ Row /\ Complete /\ row'.status = "completed"
        \/ Row /\ FailedDirectly /\ row'.status = "failed" /\ row'.error = "nooutput"
    BY <1>5 DEF FinalWrite, TypeOK, FailedDirectly
  <2> QED BY <1>5, <2>1
<1>6. CASE FailWrite
  <2>1. \/ row' = row
        \/ Row /\ row'.status = "failed" /\ row'.error = thread.why
    BY <1>6 DEF FailWrite, TypeOK, Failed
  <2> QED BY <1>6, <2>1
<1>7. CASE PostRunning \/ Create \/ Cancel \/ Delete
  <2>1. row' = row \/ row'.status \in {"running", "pending", "canceled", "gone"}
    BY <1>7 DEF PostRunning, Create, Cancel, Delete, TypeOK
  <2> QED BY <2>1
<1>8. CASE SaveOffset
  BY <1>8 DEF SaveOffset, TypeOK
<1> QED BY <1>1, <1>2, <1>3, <1>4, <1>5, <1>6, <1>7, <1>8
        DEF Next, ManagerStep, AgentStep, UnitStep, Event,
        Execute, ProxyUp, Boot, HandleStart, HandleShow,
        HandleStatus, HandleLogs, HandleResult, HandleCancel, IgnoreAnswer, WriteExit,
        Stopped, Reconnect, WriteLog, CommandEnds,
        ManagerRestart, Drop, AgentRestart, vars

\* A completed run stays as good as it was.
LEMMA RealStep ==
  ASSUME Base, Life, Facts, StopInv, CompletedIsReal, [Next]_vars
  PROVE  CompletedIsReal'
<1> SUFFICES ASSUME row'.status = "completed"
             PROVE  /\ job'.result = "good"
                    /\ \/ job'.rc = "ok"
                       \/ happened' \cap {"rebooted", "startLate", "proxyLost"} # {}
  BY DEF CompletedIsReal
<1>0. happened \subseteq happened' /\ JobAfter BY HistoryGrows, JobStep
<1>1. ASSUME job.result = "good",
             job.rc = "ok" \/ happened \cap {"rebooted", "startLate", "proxyLost"} # {}
      PROVE  /\ job'.result = "good"
             /\ \/ job'.rc = "ok"
                \/ happened' \cap {"rebooted", "startLate", "proxyLost"} # {}
  <2>1. Settled BY <1>1 DEF Settled, Life, JobInv
  <2> QED BY <1>0, <1>1, <2>1 DEF JobAfter
<1>2. CASE row.status = "completed" BY <1>1, <1>2 DEF CompletedIsReal
<1>3. CASE FinalWrite /\ Row /\ Complete
  <2>1. thread.at = "finwrite" BY <1>3 DEF FinalWrite
  <2>2. job.result = "good" /\ (job.rc = "ok" \/ Down \/ Late)
    BY <1>3 DEF Complete, Facts, ThreadInv
  <2>3. Down => happened \cap {"rebooted", "proxyLost"} # {}
    BY <1>3, <2>1, StoppedRecorded
  <2> QED BY <1>1, <2>2, <2>3 DEF Late
<1> QED BY <1>2, <1>3, EndWrites

\* Why a thread that is about to fail its run does so.
FailInv ==
  mixups = 0 /\ ~Late /\ thread.at = "failwrite" =>
    /\ thread.why = "vanished" => Absent /\ (job.result = "none" \/ "blind" \in happened)
    /\ thread.why = "exit" => job.rc = "bad"
    /\ thread.why = "nooutput" =>
         \/ row.status = "gone"
         \/ Settled /\ (job.result # "good" \/ "blind" \in happened)
    /\ thread.why # "orphan"

\* A thread about to record its run has the result the job left.
FinInv ==
  mixups = 0 /\ thread.at = "finwrite" /\ thread.code = "ok" =>
    thread.raw = job.result \/ "blind" \in happened

\* A failed run failed for what its error says.
ErrInv ==
  mixups = 0 /\ ~Late /\ row.status = "failed" =>
    /\ row.error = "orphan" => Absent
    /\ row.error = "vanished" => Absent /\ (job.result = "none" \/ "blind" \in happened)
    /\ row.error = "exit" => job.rc = "bad"
    /\ row.error = "nooutput" => Settled /\ (job.result # "good" \/ "blind" \in happened)

\* How the thread comes to write the result.
LEMMA FinStep ==
  ASSUME Base, Life, Facts, FinInv, [Next]_vars
  PROVE  FinInv'
<1> USE DEF Base
<1> SUFFICES ASSUME mixups' = 0, thread'.at = "finwrite", thread'.code = "ok"
             PROVE  thread'.raw = job'.result \/ "blind" \in happened'
  BY DEF FinInv
<1>0. /\ happened \subseteq happened' /\ mixups = 0 /\ JobAfter /\ thread \in Threads
  BY HistoryGrows, JobStep DEF TypeOK, Threads
<1>1. CASE thread'.at = thread.at /\ thread'.code = thread.code /\ thread'.raw = thread.raw
  <2>1. Settled BY <1>1 DEF Facts, ThreadInv
  <2> QED BY <1>0, <1>1, <2>1 DEF FinInv, JobAfter
<1>2. ASSUME NEW a \in Answers, TakeTail(a)
      PROVE  thread'.raw = job'.result
  <2>1. Drained(a) \in Threads /\ Drained(a).raw = thread.raw BY DrainedType
  <2>2. thread.at = "tail" /\ job' = job BY <1>2, TailOutcome
  <2>3. thread.code = "none" /\ Finalize([Drained(a) EXCEPT !.code = "ok"])
    <3>1. [Drained(a) EXCEPT !.at = "result"].at = "result" BY <2>1 DEF Threads
    <3> QED BY <1>2, <3>1, TailOutcome
  <2>4. thread'.raw = thread.raw BY <2>1, <2>3 DEF Finalize, Threads
  <2>5. thread.raw # "none" /\ thread.raw = job.result
    BY <2>2, <2>3 DEF Facts, ThreadInv
  <2> QED BY <2>2, <2>4, <2>5
<1>3. ASSUME NEW a \in Answers, TakeResult(a)
      PROVE  thread'.raw = job'.result \/ "blind" \in happened'
  <2>1. /\ thread.at = "result" /\ job' = job
        /\ a.val = "error" => "blind" \in happened'
    BY <1>3, ResultOutcome
  <2>2. thread'.raw = RawOutput(a) /\ thread'.code = thread.code
    BY <1>0, <1>3, ResultOutcome DEF Finalize, Threads
  <2>3. a.slip # "mixup" BY <1>3, ResolvedCounts DEF TakeResult
  <2>4. /\ a.val \in Results \cup {"error"}
        /\ a.val \in Results => a.val = job.result
    BY <2>1, <2>3, AnswerTells
  <2> QED BY <2>1, <2>2, <2>4 DEF RawOutput
<1>4. ASSUME NEW a \in Answers, TakeStart(a) PROVE FALSE
  BY <1>0, <1>4, StartOutcome DEF FinishFailed, Threads
<1>5. ASSUME NEW a \in Answers, TakeLogs(a) PROVE FALSE
  BY <1>5, LogsOutcome, DrainedType DEF Threads
<1>6. ASSUME NEW a \in Answers, TakeStatus(a) PROVE FALSE
  BY <1>0, <1>6, StatusOutcome DEF FinishFailed, Threads
<1>7. ASSUME NEW a \in Answers, TakeProbe(a) PROVE FALSE
  BY <1>0, <1>7, ProbeOutcome DEF FinishFailed, Threads
<1>8. ASSUME Ended PROVE FALSE
  BY <1>8, FreshType DEF Ended, Places
<1>9. ASSUME NEW why, BootFailed(why) PROVE FALSE
  BY <1>8, <1>9, FreshType DEF BootFailed, Places
<1>10. ASSUME NEW a \in Answers, TakeBootStatus(a) \/ TakeBootCancel(a) PROVE FALSE
  BY <1>0, <1>9, <1>10, BootStatusOutcome, BootCancelOutcome DEF Resumed, Threads
<1>11. ASSUME Execute \/ ProxyUp \/ Boot PROVE FALSE
  BY <1>0, <1>11, DispatchOutcome, BootOutcome, FreshType DEF Threads, Places
<1>12. ASSUME PostRunning \/ FinalWrite \/ Create PROVE FALSE
  BY <1>0, <1>12, FreshType DEF PostRunning, FinalWrite, FinishFailed, Create, Threads, Places
<1>13. ASSUME FailWrite PROVE FALSE
  BY <1>0, <1>8, <1>13, FailWriteOutcome DEF Threads
<1>14. ASSUME ManagerRestart PROVE FALSE
  BY <1>8, <1>14, RestartOutcome
<1>15. CASE SaveOffset
  <2>1. /\ thread'.at = thread.at /\ thread'.code = thread.code
        /\ thread'.raw = thread.raw
    BY <1>0, <1>15 DEF SaveOffset, Threads
  <2> QED BY <1>1, <2>1
<1>16. CASE AgentStep
  BY <1>1, <1>16 DEF AgentStep, HandleStart, HandleShow, HandleStatus, HandleLogs,
     HandleResult, HandleCancel, IgnoreAnswer
<1>17. CASE UnitStep \/ Reconnect \/ UNCHANGED vars
  BY <1>1, <1>17 DEF UnitStep, WriteExit, Stopped, Reconnect, vars
<1>18. CASE Event
  BY <1>1, <1>12, <1>14, <1>18 DEF Event, Cancel, Delete, WriteLog, CommandEnds, Drop,
     AgentRestart
<1> QED BY <1>2, <1>3, <1>4, <1>5, <1>6, <1>7, <1>10, <1>11, <1>12, <1>13, <1>15, <1>16,
           <1>17, <1>18 DEF Next, ManagerStep

\* What is known of a job that nobody starts stays known.
LEMMA VerdictStays ==
  ASSUME Base, Life, [Next]_vars, thread.at # "start"
  PROVE  /\ ~Late' /\ Absent => Absent' /\ job'.result = job.result
         /\ job.rc = "bad" => job'.rc = "bad"
         /\ Settled => Settled' /\ job'.result = job.result
         /\ "blind" \in happened => "blind" \in happened'
<1>1. /\ happened \subseteq happened' /\ JobAfter BY HistoryGrows, JobStep
<1>2. ~Late' => ~Late BY <1>1 DEF Late
<1>3. ~Late' /\ Absent => Absent' /\ job'.result = job.result
  BY <1>1, <1>2 DEF JobAfter, Absent
<1>4. job.rc = "bad" => job'.rc = "bad"
  BY <1>1 DEF JobAfter, Settled, Life, JobInv
<1> QED BY <1>1, <1>3, <1>4 DEF JobAfter

\* How the thread comes to fail its run.
LEMMA FailStep ==
  ASSUME Base, Life, Facts, FinInv, FailInv, [Next]_vars
  PROVE  FailInv'
<1> USE DEF Base
<1> SUFFICES ASSUME mixups' = 0, ~Late', thread'.at = "failwrite"
             PROVE  /\ thread'.why = "vanished" =>
                         Absent' /\ (job'.result = "none" \/ "blind" \in happened')
                    /\ thread'.why = "exit" => job'.rc = "bad"
                    /\ thread'.why = "nooutput" =>
                         \/ row'.status = "gone"
                         \/ Settled' /\ (job'.result # "good" \/ "blind" \in happened')
                    /\ thread'.why # "orphan"
  BY DEF FailInv
<1>0. /\ happened \subseteq happened' /\ mixups = 0 /\ ~Late /\ thread \in Threads
  BY HistoryGrows DEF TypeOK, Threads, Late
<1>1. ASSUME thread'.at = thread.at, thread'.why = thread.why
      PROVE  FailInv'
  <2>1. thread.at # "start" BY <1>1
  <2> QED BY <1>0, <1>1, <2>1, VerdictStays, GoneStays DEF FailInv
<1>2. ASSUME NEW a \in Answers, TakeStart(a) PROVE FailInv'
  <2>1. thread'.why = "start"
    BY <1>0, <1>2, StartOutcome DEF FinishFailed, Threads
  <2> QED BY <2>1 DEF FailInv
<1>3. ASSUME NEW a \in Answers, TakeStatus(a) PROVE FALSE
  <2>1. a.slip # "mixup" BY <1>3, ResolvedCounts DEF TakeStatus
  <2>2. a.val # "wrong" BY <2>1, AnswerTells
  <2> QED BY <1>0, <1>3, <2>2, StatusOutcome DEF Threads
<1>4. ASSUME NEW a \in Answers, TakeProbe(a) PROVE FailInv'
  <2>1. /\ thread.at = "probe" /\ job' = job
        /\ a.val = "error" => "blind" \in happened'
        /\ a.val \notin {"empty", "good"} /\ thread'.why = "vanished"
    BY <1>0, <1>4, ProbeOutcome DEF FinishFailed, Threads
  <2>2. a.slip # "mixup" BY <1>4, ResolvedCounts DEF TakeProbe
  <2>3. /\ a.val \in Results \cup {"error"}
        /\ a.val \in Results => a.val = job.result
    BY <1>0, <2>1, <2>2, AnswerTells
  <2>4. Absent BY <1>0, <2>1 DEF Facts, ThreadInv
  <2>5. Absent' BY <2>1, <2>4 DEF Absent
  <2> QED BY <2>1, <2>3, <2>5 DEF FailInv, Results
<1>5. ASSUME NEW a \in Answers, TakeLogs(a) PROVE FALSE
  BY <1>5, LogsOutcome, DrainedType DEF Threads
<1>6. ASSUME NEW a \in Answers, TakeTail(a) \/ TakeResult(a) PROVE FALSE
  <2>1. CASE TakeResult(a)
    BY <1>0, <2>1, ResultOutcome DEF Finalize, Threads
  <2>2. CASE TakeTail(a)
    <3>1. Drained(a) \in Threads BY DrainedType
    <3> QED BY <2>2, <3>1, TailOutcome DEF Finalize, Threads
  <2> QED BY <1>6, <2>1, <2>2
<1>7. ASSUME FinalWrite PROVE FailInv'
  <2>1. /\ thread.at = "finwrite" /\ job' = job /\ row' = row
        /\ thread'.why = IF thread.code = "ok" THEN "nooutput" ELSE "exit"
        /\ ~(Row /\ (Complete \/ FailedDirectly))
    BY <1>0, <1>7 DEF FinalWrite, FinishFailed, Threads
  <2>2. Settled /\ thread.code # "none"
    BY <2>1 DEF Facts, ThreadInv
  <2>3. thread.code # "ok" => job.rc = "bad"
    BY <2>2, Types DEF Facts, ThreadInv
  <2>4. ASSUME thread.code = "ok", row.status # "gone"
        PROVE  job.result # "good" \/ "blind" \in happened
    <3>1. Row BY <2>1, <2>4 DEF NotYet, Row
    <3>2. thread.raw # "good" BY <2>1, <2>4, <3>1 DEF Complete
    <3> QED BY <1>0, <2>1, <2>4, <3>2 DEF FinInv
  <2>5. Settled' BY <2>1, <2>2 DEF Settled
  <2> QED BY <1>0, <2>1, <2>3, <2>4, <2>5 DEF FailInv
<1>8. ASSUME Ended PROVE FALSE
  BY <1>8, FreshType DEF Ended, Places
<1>9. ASSUME NEW why, BootFailed(why) PROVE FALSE
  BY <1>8, <1>9, FreshType DEF BootFailed, Places
<1>10. ASSUME NEW a \in Answers, TakeBootStatus(a) \/ TakeBootCancel(a) PROVE FALSE
  BY <1>0, <1>9, <1>10, BootStatusOutcome, BootCancelOutcome DEF Resumed, Threads
<1>11. ASSUME Execute \/ ProxyUp \/ Boot PROVE FALSE
  BY <1>0, <1>11, DispatchOutcome, BootOutcome, FreshType DEF Threads, Places
<1>12. ASSUME PostRunning \/ Create PROVE FALSE
  BY <1>0, <1>12, FreshType DEF PostRunning, Create, Threads, Places
<1>13. ASSUME FailWrite PROVE FALSE
  BY <1>0, <1>8, <1>13, FailWriteOutcome DEF Threads
<1>14. ASSUME ManagerRestart PROVE FALSE
  BY <1>8, <1>14, RestartOutcome
<1>15. ASSUME SaveOffset PROVE FailInv'
  <2>1. thread'.at = thread.at /\ thread'.why = thread.why
    BY <1>0, <1>15 DEF SaveOffset, Threads
  <2> QED BY <1>1, <2>1 DEF FailInv
<1>16. ASSUME AgentStep PROVE FailInv'
  <2>1. thread' = thread
    BY <1>16 DEF AgentStep, HandleStart, HandleShow, HandleStatus, HandleLogs,
       HandleResult, HandleCancel, IgnoreAnswer
  <2> QED BY <1>1, <2>1 DEF FailInv
<1>17. ASSUME UnitStep \/ Reconnect \/ UNCHANGED vars PROVE FailInv'
  <2>1. thread' = thread
    BY <1>17 DEF UnitStep, WriteExit, Stopped, Reconnect, vars
  <2> QED BY <1>1, <2>1 DEF FailInv
<1>18. ASSUME Event PROVE FailInv'
  <2>1. thread' = thread
    BY <1>12, <1>14, <1>18 DEF Event, Cancel, Delete, WriteLog, CommandEnds, Drop,
       AgentRestart
  <2> QED BY <1>1, <2>1 DEF FailInv
<1>19. FailInv'
  BY <1>2, <1>3, <1>4, <1>5, <1>6, <1>7, <1>10, <1>11, <1>12, <1>13, <1>15, <1>16,
     <1>17, <1>18 DEF Next, ManagerStep
<1> QED BY <1>19 DEF FailInv

\* The error of a failed run stays true.
LEMMA ErrStep ==
  ASSUME Base, Life, Facts, EndInv, FinInv, FailInv, ErrInv, [Next]_vars
  PROVE  ErrInv'
<1> USE DEF Base
<1> SUFFICES ASSUME mixups' = 0, ~Late', row'.status = "failed"
             PROVE  /\ row'.error = "orphan" => Absent'
                    /\ row'.error = "vanished" =>
                         Absent' /\ (job'.result = "none" \/ "blind" \in happened')
                    /\ row'.error = "exit" => job'.rc = "bad"
                    /\ row'.error = "nooutput" =>
                         Settled' /\ (job'.result # "good" \/ "blind" \in happened')
  BY DEF ErrInv
<1>0. /\ happened \subseteq happened' /\ mixups = 0 /\ ~Late
  BY HistoryGrows DEF Late
<1>1. CASE row.status = "failed" /\ row'.error = row.error
  <2>1. thread.at # "start" BY <1>1 DEF EndInv
  <2> QED BY <1>0, <1>1, <2>1, VerdictStays DEF ErrInv
<1>2. CASE FinalWrite /\ Row /\ FailedDirectly /\ row'.error = "nooutput"
  <2>1. /\ thread.at = "finwrite" /\ job' = job
        /\ thread.code = "ok" /\ thread.raw # "good"
    BY <1>2 DEF FinalWrite, FailedDirectly, Complete
  <2>2. Settled BY <2>1 DEF Facts, ThreadInv
  <2>3. Settled' BY <2>1, <2>2 DEF Settled
  <2>4. job.result # "good" \/ "blind" \in happened BY <1>0, <2>1 DEF FinInv
  <2> QED BY <1>0, <1>2, <2>1, <2>3, <2>4
<1>3. CASE FailWrite /\ Row /\ row'.error = thread.why
  <2>1. thread.at = "failwrite" BY <1>3 DEF FailWrite
  <2>2. row.status # "gone" BY <1>3 DEF Row
  <2> QED BY <1>0, <1>3, <2>1, <2>2, VerdictStays DEF FailInv
<1>4. CASE /\ row'.error = "orphan"
           /\ \E a \in Answers : TakeBootStatus(a) /\ a.val = "missing"
  <2>1. PICK a \in Answers : TakeBootStatus(a) /\ a.val = "missing" BY <1>4
  <2>2. thread.at = "bootstatus" /\ job' = job BY <2>1, BootStatusOutcome
  <2>3. Absent BY <1>0, <2>1, <2>2, AnswerTells
  <2>4. Absent' BY <2>2, <2>3 DEF Absent
  <2> QED BY <1>4, <2>4
<1>5. CASE row'.error = "proxy" BY <1>5
<1> QED BY <1>1, <1>2, <1>3, <1>4, <1>5, EndWrites

(***************************************************************************)
(* The manager's log.                                                      *)
(***************************************************************************)

\* After the final drain the log has every byte.
TailInv ==
  mixups = 0 /\ (thread.at \in {"result", "finwrite"} \/ row.status = "completed") =>
    log.bytes = job.size \/ "tailLost" \in happened

\* The offset the thread reads from, or the one stored for the next thread, is
\* where the log ends.
OffsetInv ==
  mixups = 0 /\ "lostOffset" \notin happened =>
    /\ ~log.twice
    /\ Row /\ ~thread.unsaved => row.logOffset = log.bytes
    /\ thread.unsaved => thread.offset = log.bytes
    /\ Registered \/ thread.at = "proxy" => thread.offset = log.bytes
    /\ thread.at = "bootstatus" => row.logOffset = log.bytes

\* Only a drain writes to the log.
LEMMA LogStays ==
  ASSUME [Next]_vars, log' # log
  PROVE  \E a \in Answers : TakeLogs(a) \/ TakeTail(a)
BY DEF Next, ManagerStep, AgentStep, UnitStep, Event, PostRunning, Execute, ProxyUp,
   FinalWrite, FailWrite, Boot, TakeStart, TakeStatus, TakeProbe, TakeResult,
   TakeBootStatus, TakeBootCancel, HandleStart, HandleShow, HandleStatus, HandleLogs,
   HandleResult, HandleCancel, IgnoreAnswer, WriteExit, Stopped, SaveOffset, Reconnect,
   Create, Cancel, Delete, WriteLog, CommandEnds, ManagerRestart, Drop, AgentRestart, vars

\* How the thread comes to where its log is complete.
LEMMA AtTheEnd ==
  ASSUME Base, [Next]_vars, thread'.at \in {"result", "finwrite"},
         thread.at \notin {"result", "finwrite"}
  PROVE  \E a \in Answers : TakeTail(a)
<1> USE DEF Base
<1>0. thread \in Threads BY DEF TypeOK, Threads
<1>1. ASSUME NEW a \in Answers, TakeStart(a) PROVE FALSE
  BY <1>0, <1>1, StartOutcome DEF FinishFailed, Threads
<1>2. ASSUME NEW a \in Answers, TakeLogs(a) PROVE FALSE
  BY <1>2, LogsOutcome, DrainedType DEF Threads
<1>3. ASSUME NEW a \in Answers, TakeStatus(a) PROVE FALSE
  BY <1>0, <1>3, StatusOutcome DEF FinishFailed, Threads
<1>4. ASSUME NEW a \in Answers, TakeProbe(a) PROVE FALSE
  BY <1>0, <1>4, ProbeOutcome DEF FinishFailed, Threads
<1>5. ASSUME NEW a \in Answers, TakeResult(a) PROVE FALSE
  BY <1>5, ResultOutcome
<1>6. ASSUME Ended PROVE FALSE
  BY <1>6, FreshType DEF Ended, Places
<1>7. ASSUME NEW why, BootFailed(why) PROVE FALSE
  BY <1>6, <1>7, FreshType DEF BootFailed, Places
<1>8. ASSUME NEW a \in Answers, TakeBootStatus(a) \/ TakeBootCancel(a) PROVE FALSE
  BY <1>0, <1>7, <1>8, BootStatusOutcome, BootCancelOutcome DEF Resumed, Threads
<1>9. ASSUME Execute \/ ProxyUp \/ Boot PROVE FALSE
  BY <1>0, <1>9, DispatchOutcome, BootOutcome, FreshType DEF Threads, Places
<1>10. ASSUME PostRunning \/ FinalWrite \/ Create PROVE FALSE
  BY <1>0, <1>10, FreshType DEF PostRunning, FinalWrite, FinishFailed, Create, Threads,
     Places
<1>11. ASSUME FailWrite PROVE FALSE
  BY <1>0, <1>6, <1>11, FailWriteOutcome DEF Threads
<1>12. ASSUME ManagerRestart PROVE FALSE
  BY <1>6, <1>12, RestartOutcome
<1>13. ASSUME SaveOffset PROVE FALSE
  BY <1>0, <1>13 DEF SaveOffset, Threads
<1>14. thread' # thread OBVIOUS
<1>15. ~AgentStep /\ ~UnitStep /\ ~Reconnect /\ ~UNCHANGED vars
  BY <1>14 DEF AgentStep, HandleStart, HandleShow, HandleStatus, HandleLogs,
     HandleResult, HandleCancel, IgnoreAnswer, UnitStep, WriteExit, Stopped, Reconnect, vars
<1>16. ~Event
  BY <1>10, <1>12, <1>14 DEF Event, Cancel, Delete, WriteLog, CommandEnds, Drop,
     AgentRestart
<1> QED BY <1>1, <1>2, <1>3, <1>4, <1>5, <1>8, <1>9, <1>10, <1>11, <1>13, <1>15, <1>16
        DEF Next, ManagerStep

\* The log stays complete.
LEMMA TailStep ==
  ASSUME Base, Life, Facts, EndInv, TailInv, [Next]_vars
  PROVE  TailInv'
<1> USE DEF Base
<1> SUFFICES ASSUME mixups' = 0,
                    thread'.at \in {"result", "finwrite"} \/ row'.status = "completed"
             PROVE  log'.bytes = job'.size \/ "tailLost" \in happened'
  BY DEF TailInv
<1>0. happened \subseteq happened' /\ mixups = 0 /\ JobAfter
  BY HistoryGrows, JobStep
<1>1. ASSUME NEW a \in Answers, TakeTail(a)
      PROVE  log'.bytes = job'.size \/ "tailLost" \in happened'
  <2>1. /\ thread.at = "tail" /\ job' = job /\ DrainLog(a)
        /\ a.val = "error" => "tailLost" \in happened'
    BY <1>1, TailOutcome
  <2>2. a.slip # "mixup" BY <1>1, ResolvedCounts DEF TakeTail
  <2>3. a.val \in {"done", "error"} /\ (a.val = "done" => a.to = job.size)
    BY <2>1, <2>2, AnswerTells
  <2>4. a.val = "done" => log'.bytes = a.to BY <2>1, <2>2, LogDrained
  <2> QED BY <2>1, <2>3, <2>4
<1>2. ASSUME NEW a \in Answers, TakeLogs(a) PROVE FALSE
  <2>1. thread.at = "logs" /\ row' = row /\ thread'.at = "status"
    BY <1>2, LogsOutcome, DrainedType DEF Threads
  <2> QED BY <2>1 DEF EndInv
<1>3. CASE thread.at \in {"result", "finwrite"} /\ log' = log
  <2>1. Settled BY <1>3 DEF Facts, ThreadInv
  <2> QED BY <1>0, <1>3, <2>1 DEF TailInv, JobAfter
<1>4. CASE row.status = "completed" /\ log' = log
  <2>1. ~Followed BY <1>4 DEF EndInv, Followed
  <2> QED BY <1>0, <1>4, <2>1 DEF TailInv, JobAfter
<1>5. CASE FinalWrite
  BY <1>3, <1>5 DEF FinalWrite
<1>6. CASE log' # log BY <1>1, <1>2, <1>6, LogStays
<1> QED BY <1>1, <1>3, <1>4, <1>5, <1>6, AtTheEnd, EndWrites

\* A step that moves no offset.
LEMMA OffsetKept ==
  ASSUME Base, OffsetInv, [Next]_vars, log' = log,
         Row' => Row, row'.logOffset = row.logOffset,
         thread'.offset = thread.offset, thread'.unsaved = thread.unsaved,
         Registered' \/ thread'.at = "proxy" => Registered \/ thread.at = "proxy",
         thread'.at = "bootstatus" => thread.at = "bootstatus"
  PROVE  OffsetInv'
<1>1. happened \subseteq happened' /\ (mixups' = 0 => mixups = 0) BY HistoryGrows
<1> QED BY <1>1 DEF OffsetInv

\* A thread starts afresh; the offset it leaves behind is the stored one, or lost.
LEMMA OffsetFresh ==
  ASSUME Base, OffsetInv, [Next]_vars, log' = log,
         Row' => Row, row'.logOffset = row.logOffset,
         NEW p \in {"idle", "boot"}, thread' = Fresh(p),
         thread.unsaved => "lostOffset" \in happened'
  PROVE  OffsetInv'
<1>1. happened \subseteq happened' /\ (mixups' = 0 => mixups = 0) BY HistoryGrows
<1>2. thread'.at = p /\ thread'.unsaved = FALSE BY DEF Fresh
<1>3. ~Registered' /\ thread'.at \notin {"proxy", "bootstatus"}
  BY <1>2 DEF Registered
<1> QED BY <1>1, <1>2, <1>3 DEF OffsetInv

\* A drain moves the offset with the log.
LEMMA DrainOffset ==
  ASSUME Base, Facts, OffsetInv, [Next]_vars, NEW a \in Answers, DrainLog(a),
         row' = row, thread.at \in {"logs", "tail"}, a.slip # "mixup",
         thread'.offset = Drained(a).offset, thread'.unsaved = Drained(a).unsaved,
         thread'.at \notin {"proxy", "bootstatus"}
  PROVE  OffsetInv'
<1> USE DEF Base
<1> SUFFICES ASSUME mixups' = 0, "lostOffset" \notin happened' PROVE OffsetInv'
  BY DEF OffsetInv
<1>1. mixups = 0 /\ "lostOffset" \notin happened BY HistoryGrows
<1>2. Registered BY DEF Registered
<1>3. /\ ~log.twice /\ thread.offset = log.bytes
      /\ Row /\ ~thread.unsaved => row.logOffset = log.bytes
  BY <1>1, <1>2 DEF OffsetInv
<1>4. ~log'.twice BY <1>3, LogDrained
<1>5. a.val \in {"error", "done"} BY AnswerTells
<1>6. CASE a.val = "error"
  <2>1. Drained(a) = thread /\ log' = log BY <1>6, DrainedType, LogDrained
  <2> QED BY <1>3, <1>4, <2>1 DEF OffsetInv, Row
<1>7. CASE a.val = "done"
  <2>1. log'.bytes = a.to /\ Drained(a).offset = a.to BY <1>7, DrainedType, LogDrained
  <2>2. ~Drained(a).unsaved => ~thread.unsaved /\ a.to = thread.offset
    BY <1>7, DrainedType
  <2>3. Row /\ ~thread'.unsaved => row.logOffset = log'.bytes
    BY <1>3, <2>1, <2>2
  <2> QED BY <1>4, <2>1, <2>3 DEF OffsetInv, Row
<1> QED BY <1>5, <1>6, <1>7

\* A run that has not started has no byte yet.
LEMMA BeforeOffset ==
  ASSUME Base, Life, Facts, Before
  PROVE  log.bytes = 0 /\ thread.offset = 0
<1>1. job.size = 0 /\ thread.offset = 0 BY DEF Life, StartInv
<1>2. log.bytes <= job.size BY DEF Facts, ThreadInv
<1>3. log.bytes \in Nat
  BY Types, BenchmarkAssumption DEF Base, BenchmarkAssumption
<1> QED BY <1>1, <1>2, <1>3

\* The answers of the manager's thread.
LEMMA TakeOffset ==
  ASSUME Base, Life, Facts, OffsetInv, [Next]_vars, NEW a \in Answers,
         \/ TakeStart(a) \/ TakeLogs(a) \/ TakeStatus(a) \/ TakeProbe(a) \/ TakeTail(a)
         \/ TakeResult(a) \/ TakeBootStatus(a) \/ TakeBootCancel(a)
  PROVE  OffsetInv'
<1> USE DEF Base
<1> SUFFICES ASSUME mixups' = 0 PROVE OffsetInv'
  BY DEF OffsetInv
<1>0. /\ thread \in Threads /\ happened \subseteq happened' /\ mixups = 0
      /\ a.slip # "mixup"
  BY HistoryGrows, ResolvedCounts DEF TypeOK, Threads, TakeStart, TakeLogs, TakeStatus,
     TakeProbe, TakeTail, TakeResult, TakeBootStatus, TakeBootCancel
<1>1. CASE TakeStart(a)
  <2>1. /\ thread.at = "start" /\ row' = row /\ log' = log
        /\ thread'.at \in {"logs", "failwrite", "idle"}
        /\ thread'.offset = thread.offset /\ thread'.unsaved = thread.unsaved
    BY <1>0, <1>1, StartOutcome DEF FinishFailed, Threads
  <2> QED BY <2>1, OffsetKept DEF Registered, Row
<1>2. CASE TakeLogs(a)
  <2>1. /\ thread.at = "logs" /\ row' = row /\ DrainLog(a) /\ thread'.at = "status"
        /\ thread'.offset = Drained(a).offset /\ thread'.unsaved = Drained(a).unsaved
    BY <1>2, LogsOutcome, DrainedType DEF Threads
  <2> QED BY <1>0, <2>1, DrainOffset
<1>3. CASE TakeStatus(a)
  <2>1. /\ thread.at = "status" /\ row' = row /\ log' = log
        /\ thread'.at \in {"probe", "tail", "logs", "failwrite", "idle"}
        /\ thread'.offset = thread.offset /\ thread'.unsaved = thread.unsaved
    BY <1>0, <1>3, StatusOutcome DEF FinishFailed, Threads
  <2> QED BY <2>1, OffsetKept DEF Registered, Row
<1>4. CASE TakeProbe(a)
  <2>1. /\ thread.at = "probe" /\ row' = row /\ log' = log
        /\ thread'.at \in {"tail", "failwrite", "idle"}
        /\ thread'.offset = thread.offset /\ thread'.unsaved = thread.unsaved
    BY <1>0, <1>4, ProbeOutcome DEF FinishFailed, Threads
  <2> QED BY <2>1, OffsetKept DEF Registered, Row
<1>5. CASE TakeTail(a)
  <2>1. thread.at = "tail" /\ row' = row /\ DrainLog(a) BY <1>5, TailOutcome
  <2>2. /\ thread'.at \in {"result", "finwrite", "idle"}
        /\ thread'.offset = Drained(a).offset /\ thread'.unsaved = Drained(a).unsaved
    <3>1. Drained(a) \in Threads BY DrainedType
    <3>2. CASE thread' = [Drained(a) EXCEPT !.at = "result"]
      BY <3>1, <3>2 DEF Threads
    <3>3. CASE Finalize([Drained(a) EXCEPT !.code = "ok"])
      BY <3>1, <3>3 DEF Threads, Finalize
    <3> QED BY <1>5, <3>2, <3>3, TailOutcome
  <2> QED BY <1>0, <2>1, <2>2, DrainOffset
<1>6. CASE TakeResult(a)
  <2>1. /\ thread.at = "result" /\ row' = row /\ log' = log
        /\ thread'.at \in {"finwrite", "idle"}
        /\ thread'.offset = thread.offset /\ thread'.unsaved = thread.unsaved
    BY <1>0, <1>6, ResultOutcome DEF Finalize, Threads
  <2> QED BY <2>1, OffsetKept DEF Registered, Row
<1>7. ASSUME NEW why, BootFailed(why), log' = log,
             thread.at \in {"bootstatus", "bootcancel"}
      PROVE  OffsetInv'
  <2>1. ~thread.unsaved BY <1>7 DEF Facts, ThreadInv
  <2>2. /\ Row' => Row
        /\ row'.logOffset = row.logOffset
        /\ \E p \in {"idle", "boot"} : thread' = Fresh(p)
    BY <1>7 DEF BootFailed, Ended, Failed, Row, TypeOK
  <2> QED BY <1>7, <2>1, <2>2, OffsetFresh
<1>8. CASE TakeBootStatus(a)
  <2>1. /\ thread.at = "bootstatus" /\ log' = log
    BY <1>8, BootStatusOutcome
  <2>2. CASE BootFailed("orphan") BY <1>7, <2>1, <2>2
  <2>3. CASE row' = row /\ thread' = [thread EXCEPT !.at = "bootcancel"]
    <3>1. /\ thread'.at = "bootcancel"
          /\ thread'.offset = thread.offset /\ thread'.unsaved = thread.unsaved
      BY <1>0, <2>3 DEF Threads
    <3> QED BY <2>1, <2>3, <3>1, OffsetKept DEF Registered, Row
  <2>4. CASE row' = row /\ Resumed
    <3>1. /\ thread'.at \in {"proxy", "logs"}
          /\ thread'.offset = row.logOffset /\ thread'.unsaved = thread.unsaved
      BY <1>0, <2>4 DEF Threads, Resumed
    <3>2. ~thread.unsaved BY <2>1 DEF Facts, ThreadInv
    <3> QED BY <1>0, <2>1, <2>4, <3>1, <3>2 DEF OffsetInv, Row
  <2> QED BY <1>8, <2>2, <2>3, <2>4, BootStatusOutcome
<1>9. CASE TakeBootCancel(a)
  BY <1>7, <1>9, BootCancelOutcome
<1> QED BY <1>1, <1>2, <1>3, <1>4, <1>5, <1>6, <1>8, <1>9

\* Every step.
LEMMA OffsetStep ==
  ASSUME Base, Life, Facts, OffsetInv, [Next]_vars
  PROVE  OffsetInv'
<1> USE DEF Base
<1>0. /\ thread \in Threads /\ happened \subseteq happened' /\ (mixups' = 0 => mixups = 0)
  BY HistoryGrows DEF TypeOK, Threads
<1>1. ASSUME row' = row, thread' = thread, log' = log PROVE OffsetInv'
  BY <1>1, OffsetKept DEF Registered, Row
<1>2. CASE PostRunning
  <2>1. /\ thread.at = "post" /\ log' = log /\ (Row' => Row)
        /\ row'.logOffset = row.logOffset /\ thread'.at \in {"posted", "idle"}
        /\ thread'.offset = thread.offset /\ thread'.unsaved = thread.unsaved
    BY <1>0, <1>2 DEF PostRunning, Threads, TypeOK, Row
  <2> QED BY <2>1, OffsetKept DEF Registered
<1>3. CASE Execute \/ ProxyUp
  <2>1. /\ thread.at \in {"posted", "proxy"} /\ log' = log /\ row' = row
        /\ thread'.at \in {"proxy", "logs", "start"}
        /\ thread'.offset = thread.offset /\ thread'.unsaved = thread.unsaved
    BY <1>0, <1>3, DispatchOutcome DEF Threads
  <2>2. CASE thread.at = "proxy" BY <2>1, <2>2, OffsetKept DEF Registered, Row
  <2>3. CASE thread.at = "posted"
    <3>1. log.bytes = 0 /\ thread.offset = 0 BY <2>3, BeforeOffset DEF Before
    <3> QED BY <1>0, <2>1, <3>1 DEF OffsetInv, Row
  <2> QED BY <2>1, <2>2, <2>3
<1>4. CASE FinalWrite
  <2>1. /\ thread.at = "finwrite" /\ log' = log /\ (Row' => Row)
        /\ row'.logOffset = row.logOffset /\ thread'.at \in {"failwrite", "idle"}
        /\ thread'.offset = thread.offset /\ thread'.unsaved = thread.unsaved
    BY <1>0, <1>4 DEF FinalWrite, FinishFailed, Threads, TypeOK, Row
  <2> QED BY <2>1, OffsetKept DEF Registered
<1>5. CASE FailWrite
  <2>1. thread.at = "failwrite" /\ log' = log BY <1>5, FailWriteOutcome
  <2>2. CASE Row /\ row' = Failed(thread.why) /\ thread' = [thread EXCEPT !.at = "idle"]
    <3>1. /\ row'.logOffset = row.logOffset /\ thread'.at = "idle"
          /\ thread'.offset = thread.offset /\ thread'.unsaved = thread.unsaved
      BY <1>0, <2>2 DEF Failed, Threads, TypeOK
    <3> QED BY <2>1, <2>2, <3>1, OffsetKept DEF Registered
  <2>3. CASE row' = row /\ Ended
    BY <2>1, <2>3, OffsetFresh DEF Ended, Row
  <2> QED BY <1>5, <2>2, <2>3, FailWriteOutcome
<1>6. CASE Boot
  <2>1. thread.at = "boot" /\ log' = log /\ row' = row BY <1>6, BootOutcome
  <2>2. ~thread.unsaved BY <2>1 DEF Facts, ThreadInv
  <2>3. CASE thread' = Fresh("idle") BY <2>1, <2>2, <2>3, OffsetFresh DEF Row
  <2>4. CASE Stale /\ thread' = [thread EXCEPT !.at = "bootstatus"]
    <3>1. Row BY <2>4 DEF Stale, Row
    <3>2. /\ thread'.at = "bootstatus"
          /\ thread'.offset = thread.offset /\ thread'.unsaved = thread.unsaved
      BY <1>0, <2>4 DEF Threads
    <3>3. ~Registered' BY <3>2 DEF Registered
    <3> QED BY <1>0, <2>1, <2>2, <3>1, <3>2, <3>3 DEF OffsetInv, Row
  <2> QED BY <1>6, <2>3, <2>4, BootOutcome
<1>7. CASE ManagerRestart
  BY <1>7, RestartOutcome, OffsetFresh DEF Ended, Row
<1>8. CASE SaveOffset
  <2>1. /\ thread.unsaved /\ log' = log /\ thread'.at = thread.at
        /\ thread'.offset = thread.offset /\ thread'.unsaved = FALSE
    BY <1>0, <1>8 DEF SaveOffset, Threads
  <2>2. /\ Row' <=> Row
        /\ Row => row'.logOffset = thread.offset
    BY <1>8 DEF SaveOffset, TypeOK, Row
  <2>3. thread.at # "bootstatus" BY <2>1 DEF Facts, ThreadInv
  <2> QED BY <1>0, <2>1, <2>2, <2>3 DEF OffsetInv, Registered
<1>9. CASE Create
  <2>1. /\ row.status = "none" /\ log' = log /\ thread' = Fresh("post")
        /\ row'.logOffset = row.logOffset
    BY <1>9 DEF Create, TypeOK
  <2>2. log.bytes = 0 /\ row.logOffset = 0
    BY <2>1, BeforeOffset DEF Before, Life, StartInv
  <2>3. thread'.at = "post" /\ thread'.unsaved = FALSE BY <2>1 DEF Fresh
  <2>4. ~Registered' BY <2>3 DEF Registered
  <2> QED BY <1>0, <2>1, <2>2, <2>3, <2>4 DEF OffsetInv
<1>10. CASE Cancel \/ Delete
  <2>1. /\ log' = log /\ thread' = thread /\ Row /\ row'.logOffset = row.logOffset
    BY <1>10 DEF Cancel, Delete, TypeOK
  <2> QED BY <2>1, OffsetKept DEF Registered
<1>11. CASE AgentStep
  BY <1>1, <1>11 DEF AgentStep, HandleStart, HandleShow, HandleStatus, HandleLogs,
     HandleResult, HandleCancel, IgnoreAnswer
<1>12. CASE UnitStep \/ Reconnect \/ UNCHANGED vars
  BY <1>1, <1>12 DEF UnitStep, WriteExit, Stopped, Reconnect, vars
<1>13. CASE Event
  BY <1>1, <1>7, <1>9, <1>10, <1>13 DEF Event, WriteLog, CommandEnds, Drop, AgentRestart
<1> QED BY <1>2, <1>3, <1>4, <1>5, <1>6, <1>8, <1>11, <1>12, <1>13, TakeOffset
        DEF Next, ManagerStep

\* Where the thread reads from, or the next one will, lies inside a line only if a
\* read ended there.
CutInv ==
  log.cut \/ BreaksLine(thread.offset) \/ BreaksLine(row.logOffset) =>
    "midline" \in happened

\* A drain leaves the thread at its old offset, at 0 or where the chunk ended.
LEMMA DrainCut ==
  ASSUME Base, Facts, CutInv, NEW a \in Answers, DrainLog(a),
         thread.at \in {"logs", "tail"}, row' = row,
         thread'.offset = Drained(a).offset,
         happened \cup ReadMidline(a) \subseteq happened'
  PROVE  CutInv'
<1> USE DEF Base
<1>1. log'.cut => log.cut \/ BreaksLine(thread.offset) BY LogDrained
<1>2. ~BreaksLine(0) BY DEF BreaksLine
<1>3. \/ thread'.offset \in {0, thread.offset}
      \/ a.val \notin {"error", "wrong"} /\ thread'.offset = a.to
  BY DrainedType
<1>4. BreaksLine(thread'.offset) => BreaksLine(thread.offset) \/ "midline" \in happened'
  BY <1>2, <1>3, MidlineOnly
<1> QED BY <1>1, <1>4 DEF CutInv

\* Every other step takes its offsets from those there are.
LEMMA OffsetSources ==
  ASSUME Base, [Next]_vars, ~\E a \in Answers : TakeLogs(a) \/ TakeTail(a)
  PROVE  /\ thread'.offset \in {0, thread.offset, row.logOffset}
         /\ row'.logOffset \in {row.logOffset, thread.offset}
<1> USE DEF Base
<1> DEFINE Sources == /\ thread'.offset \in {0, thread.offset, row.logOffset}
                      /\ row'.logOffset \in {row.logOffset, thread.offset}
<1>0. thread \in Threads BY DEF TypeOK, Threads
<1>1. ASSUME NEW p, thread' = Fresh(p) PROVE thread'.offset = 0
  BY <1>1 DEF Fresh
<1>2. ASSUME NEW a \in Answers,
             \/ TakeStart(a) \/ TakeStatus(a) \/ TakeProbe(a) \/ TakeResult(a)
             \/ TakeBootStatus(a) \/ TakeBootCancel(a)
      PROVE  Sources
  <2>1. CASE TakeStart(a) BY <1>0, <2>1, StartOutcome DEF FinishFailed, Threads
  <2>2. CASE TakeStatus(a) BY <1>0, <2>2, StatusOutcome DEF FinishFailed, Threads
  <2>3. CASE TakeProbe(a) BY <1>0, <2>3, ProbeOutcome DEF FinishFailed, Threads
  <2>4. CASE TakeResult(a) BY <1>0, <2>4, ResultOutcome DEF Finalize, Threads
  <2>5. ASSUME NEW why, BootFailed(why) PROVE Sources
    <3>1. /\ row'.logOffset = row.logOffset
          /\ \E p \in {"idle", "boot"} : thread' = Fresh(p)
      BY <2>5 DEF BootFailed, Ended, Failed, TypeOK
    <3> QED BY <1>1, <3>1
  <2>6. CASE TakeBootStatus(a)
    <3>1. CASE row' = row /\ thread' = [thread EXCEPT !.at = "bootcancel"]
      BY <1>0, <3>1 DEF Threads
    <3>2. CASE row' = row /\ Resumed BY <1>0, <3>2 DEF Threads, Resumed
    <3> QED BY <2>5, <2>6, <3>1, <3>2, BootStatusOutcome
  <2>7. CASE TakeBootCancel(a) BY <2>5, <2>7, BootCancelOutcome
  <2> QED BY <1>2, <2>1, <2>2, <2>3, <2>4, <2>6, <2>7
<1>3. CASE PostRunning BY <1>0, <1>3 DEF PostRunning, Threads, TypeOK
<1>4. CASE Execute \/ ProxyUp BY <1>0, <1>4, DispatchOutcome DEF Threads
<1>5. CASE FinalWrite BY <1>0, <1>5 DEF FinalWrite, FinishFailed, Threads, TypeOK
<1>6. CASE FailWrite
  <2>1. CASE Row /\ row' = Failed(thread.why) /\ thread' = [thread EXCEPT !.at = "idle"]
    BY <1>0, <2>1 DEF Failed, Threads, TypeOK
  <2>2. CASE row' = row /\ Ended BY <1>1, <2>2 DEF Ended
  <2> QED BY <1>6, <2>1, <2>2, FailWriteOutcome
<1>7. CASE Boot
  <2>1. CASE thread' = Fresh("idle") BY <1>1, <1>7, <2>1, BootOutcome
  <2>2. CASE Stale /\ thread' = [thread EXCEPT !.at = "bootstatus"]
    BY <1>0, <1>7, <2>2, BootOutcome DEF Threads
  <2> QED BY <1>7, <2>1, <2>2, BootOutcome
<1>8. CASE ManagerRestart BY <1>1, <1>8, RestartOutcome DEF Ended
<1>9. CASE SaveOffset BY <1>0, <1>9 DEF SaveOffset, Threads, TypeOK
<1>10. CASE Create BY <1>1, <1>10 DEF Create, TypeOK
<1>11. CASE Cancel \/ Delete BY <1>11 DEF Cancel, Delete, TypeOK
<1>12. CASE AgentStep
  BY <1>12 DEF AgentStep, HandleStart, HandleShow, HandleStatus, HandleLogs,
     HandleResult, HandleCancel, IgnoreAnswer
<1>13. CASE UnitStep \/ Reconnect \/ UNCHANGED vars
  BY <1>13 DEF UnitStep, WriteExit, Stopped, Reconnect, vars
<1>14. CASE Event
  BY <1>8, <1>10, <1>11, <1>14 DEF Event, WriteLog, CommandEnds, Drop, AgentRestart
<1> QED BY <1>2, <1>3, <1>4, <1>5, <1>6, <1>7, <1>9, <1>12, <1>13, <1>14
        DEF Next, ManagerStep

\* Every step.
LEMMA CutStep ==
  ASSUME Base, Facts, CutInv, [Next]_vars
  PROVE  CutInv'
<1> USE DEF Base
<1>1. ASSUME NEW a \in Answers, TakeLogs(a) PROVE CutInv'
  <2>1. /\ thread.at = "logs" /\ row' = row /\ DrainLog(a)
        /\ happened' = happened \cup ReadMidline(a)
        /\ thread'.offset = Drained(a).offset
    BY <1>1, LogsOutcome, DrainedType DEF Threads
  <2> QED BY <2>1, DrainCut
<1>2. ASSUME NEW a \in Answers, TakeTail(a) PROVE CutInv'
  <2>1. /\ thread.at = "tail" /\ row' = row /\ DrainLog(a)
        /\ happened \cup ReadMidline(a) \subseteq happened'
    BY <1>2, TailOutcome
  <2>2. thread'.offset = Drained(a).offset
    <3>1. Drained(a) \in Threads BY DrainedType
    <3>2. CASE thread' = [Drained(a) EXCEPT !.at = "result"]
      BY <3>1, <3>2 DEF Threads
    <3>3. CASE Finalize([Drained(a) EXCEPT !.code = "ok"])
      BY <3>1, <3>3 DEF Threads, Finalize
    <3> QED BY <1>2, <3>2, <3>3, TailOutcome
  <2> QED BY <2>1, <2>2, DrainCut
<1>3. CASE ~\E a \in Answers : TakeLogs(a) \/ TakeTail(a)
  <2>1. log' = log /\ happened \subseteq happened' BY <1>3, LogStays, HistoryGrows
  <2>2. ~BreaksLine(0) BY DEF BreaksLine
  <2> QED BY <1>3, <2>1, <2>2, OffsetSources DEF CutInv
<1> QED BY <1>1, <1>2, <1>3

(***************************************************************************)
(* The theorems.                                                           *)
(***************************************************************************)

\* The ends of the run.
Verdicts == StopInv /\ EndInv /\ FailInv /\ FinInv /\ ErrInv

\* The log and its offset.
Drains == TailInv /\ OffsetInv /\ CutInv

\* The inductive invariant: types and calls, the life of the job, what answers and
\* thread know of it, the ends of the run, and the log.
BenchmarkInv == Base /\ Life /\ Facts /\ Verdicts /\ Drains /\ CompletedIsReal

\* The initial states satisfy all of it.
LEMMA VerdictsInit == Init => Verdicts /\ Drains /\ CompletedIsReal
<1> SUFFICES ASSUME Init PROVE Verdicts /\ Drains /\ CompletedIsReal
  OBVIOUS
<1>1. thread.at = "idle" /\ thread.unsaved = FALSE /\ row.status = "none"
  BY DEF Init, Fresh
<1>2. job.unit = "none" /\ net = {} /\ log.twice = FALSE BY DEF Init
<1>3. CutInv BY DEF Init, Fresh, CutInv, BreaksLine
<1> QED BY <1>1, <1>2, <1>3 DEF Verdicts, Drains, CompletedIsReal, StopInv, EndInv, FailInv,
        FinInv, ErrInv, TailInv, OffsetInv, Down, CancelAsked, Registered, Row

\* Every step keeps the inductive invariant.
LEMMA BenchmarkInvStep ==
  ASSUME BenchmarkInv, [Next]_vars
  PROVE  BenchmarkInv'
<1>1. /\ Base /\ Life /\ Facts /\ CompletedIsReal
      /\ StopInv /\ EndInv /\ FailInv /\ FinInv /\ ErrInv
      /\ TailInv /\ OffsetInv /\ CutInv
  BY DEF BenchmarkInv, Verdicts, Drains
<1>2. Base' /\ Life' /\ Facts' BY <1>1, BaseStep, LifeStep, FactsStep
<1>3. StopInv' /\ EndInv' BY <1>1, StopStep, EndStep
<1>4. FailInv' /\ FinInv' /\ ErrInv' BY <1>1, FailStep, FinStep, ErrStep
<1>5. TailInv' /\ OffsetInv' /\ CutInv' BY <1>1, TailStep, OffsetStep, CutStep
<1>6. CompletedIsReal' BY <1>1, RealStep
<1> QED BY <1>2, <1>3, <1>4, <1>5, <1>6 DEF BenchmarkInv, Verdicts, Drains

\* ... and every reachable state satisfies it.
LEMMA BenchmarkInvariant == Spec => []BenchmarkInv
<1>1. Init => BenchmarkInv
  BY BaseInit, LifeInit, FactsInit, VerdictsInit DEF BenchmarkInv
<1> QED BY <1>1, BenchmarkInvStep, PTL DEF Spec

\* What decideFinalize records as completed was a success (finalize-outcome.ts,
\* remote-runner.ts, boot-reconcile.ts): for every kind of run, any length of log and
\* any number of restarts, lost sockets, timeouts and mistaken answers, a completed
\* run's job left a good result and exited 0, but for the three exceptions the
\* property names.
THEOREM CompletedIsRealCorrect == Spec => []CompletedIsReal
<1>1. BenchmarkInv => CompletedIsReal BY DEF BenchmarkInv
<1> QED BY <1>1, BenchmarkInvariant, PTL

\* No run is failed because nobody answered (nextPollAction and reconcileAction): the
\* error of a failed run says what its unit, its exit file, its exit status or its
\* result say as well, however many calls timed out and processes restarted.
THEOREM NoFalseFailureCorrect == Spec => []NoFalseFailure
<1>1. BenchmarkInv => NoFalseFailure
  BY DEF BenchmarkInv, Verdicts, ErrInv, NoFalseFailure, Late, Absent
<1> QED BY <1>1, BenchmarkInvariant, PTL

\* The manager's log has each byte of a completed job's log, and none of them twice
\* (the drains of runTrackedRemote, planRead, onOffset and startOffset), across any
\* number of restarts that lose no offset and with no answer mistaken for another;
\* and a line of it is logged as two only where a read met it half written.
THEOREM LogExactCorrect == Spec => []LogExact
<1>1. BenchmarkInv => LogExact
  <2> SUFFICES ASSUME BenchmarkInv, mixups = 0
               PROVE  /\ row.status = "completed" =>
                           log.bytes = job.size \/ "tailLost" \in happened
                      /\ log.twice => "lostOffset" \in happened
                      /\ log.cut => "midline" \in happened
    BY DEF LogExact
  <2> QED BY DEF BenchmarkInv, Drains, TailInv, OffsetInv, CutInv
<1> QED BY <1>1, BenchmarkInvariant, PTL

=============================================================================
