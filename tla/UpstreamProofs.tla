--------------------------- MODULE UpstreamProofs ---------------------------
(***************************************************************************)
(* Proofs about the upstream gate: for any calls, upstreams, routes and    *)
(* capacities, no token is leaked or invented, the cap holds, and no call  *)
(* waits for one gate while it holds a token of another.                   *)
(***************************************************************************)
EXTENDS Upstream, FiniteSetTheorems, TLAPS

\* The tokens of a gate are counted, and never exceed its capacity.
GateOK ==
    \A u \in Ups : /\ IsFiniteSet(Holders(u))
                   /\ slots[u] = Cardinality(Holders(u))
                   /\ Gated(u) => slots[u] <= MaxConcurrent[u]

UpstreamInv == TypeOK /\ ExchangeHolds /\ NoHoldAndWait /\ GateOK

\* An attempt is always with a configured upstream: the fallback is tried only when there is one.
LEMMA TargetIsUpstream ==
    ASSUME TypeOK, NEW c \in Calls PROVE Target(c) \in Ups
  BY RouteAssumption DEF TypeOK, Target

\* A deferred release takes out the token of this call and no other.
LEMMA ReleaseStep ==
    ASSUME TypeOK, GateOK, NEW c \in Calls, Release(c)
    PROVE  /\ GateOK'
           /\ held' = [held EXCEPT ![c] = NoUpstream]
           /\ slots' \in [Ups -> Int]
  <1>1. CASE held[c] = NoUpstream
    <2>1. held' = held /\ slots' = slots
      BY <1>1 DEF Release
    <2> QED BY <2>1, <1>1 DEF GateOK, Holders, TypeOK
  <1>2. CASE held[c] # NoUpstream
    <2> DEFINE w == held[c]
    <2>1. w \in Ups /\ w # NoUpstream
      BY <1>2 DEF TypeOK
    <2>2. slots' = [slots EXCEPT ![w] = @ - 1] /\ held' = [held EXCEPT ![c] = NoUpstream]
      BY <1>2 DEF Release
    <2>3. ASSUME NEW u \in Ups
          PROVE  /\ IsFiniteSet(Holders(u)')
                 /\ slots'[u] = Cardinality(Holders(u)')
                 /\ Gated(u) => slots'[u] <= MaxConcurrent[u]
      <3>1. IsFiniteSet(Holders(u)) /\ slots[u] = Cardinality(Holders(u))
            /\ (Gated(u) => slots[u] <= MaxConcurrent[u])
        BY DEF GateOK
      <3>2. CASE u = w
        <4>1. c \in Holders(u) /\ Holders(u)' = Holders(u) \ {c}
          BY <2>1, <2>2, <3>2 DEF Holders, TypeOK
        <4>2. /\ IsFiniteSet(Holders(u) \ {c})
              /\ Cardinality(Holders(u) \ {c}) = Cardinality(Holders(u)) - 1
          BY <3>1, <4>1, FS_RemoveElement
        <4>3. slots'[u] = slots[u] - 1 /\ slots[u] \in Int /\ MaxConcurrent[u] \in Int
          BY <2>2, <3>2, GateAssumption DEF TypeOK
        <4> QED BY <3>1, <4>1, <4>2, <4>3
      <3>3. CASE u # w
        <4>1. Holders(u)' = Holders(u)
          BY <2>1, <2>2, <3>3, RouteAssumption DEF Holders, TypeOK
        <4>2. slots'[u] = slots[u]
          BY <2>2, <3>3 DEF TypeOK
        <4> QED BY <3>1, <4>1, <4>2
      <3> QED BY <3>2, <3>3
    <2>4. GateOK'
      BY <2>3 DEF GateOK, Gated
    <2> QED BY <2>1, <2>2, <2>4 DEF TypeOK
  <1> QED BY <1>1, <1>2

\* Acquiring a gated upstream adds one token and one holder, below the cap.
LEMMA AcquireStep ==
    ASSUME TypeOK, GateOK, NEW c \in Calls, held[c] = NoUpstream, Gated(Target(c)), Acquire(c)
    PROVE  GateOK'
  <1> DEFINE w == Target(c)
  <1>1. w \in Ups /\ w # NoUpstream
    BY TargetIsUpstream, RouteAssumption
  <1>2. slots' = [slots EXCEPT ![w] = @ + 1] /\ held' = [held EXCEPT ![c] = w]
        /\ slots[w] < MaxConcurrent[w]
    BY DEF Acquire, HasRoom
  <1> HIDE DEF w
  <1>3. ASSUME NEW u \in Ups
        PROVE  /\ IsFiniteSet(Holders(u)')
               /\ slots'[u] = Cardinality(Holders(u)')
               /\ Gated(u) => slots'[u] <= MaxConcurrent[u]
    <2>1. IsFiniteSet(Holders(u)) /\ slots[u] = Cardinality(Holders(u))
          /\ (Gated(u) => slots[u] <= MaxConcurrent[u])
      BY DEF GateOK
    <2>2. CASE u = w
      <3>1. c \notin Holders(u) /\ Holders(u)' = Holders(u) \union {c}
        BY <1>1, <1>2, <2>2 DEF Holders, TypeOK
      <3>2. /\ IsFiniteSet(Holders(u) \union {c})
            /\ Cardinality(Holders(u) \union {c}) = Cardinality(Holders(u)) + 1
        BY <2>1, <3>1, FS_AddElement
      <3>3. slots'[u] = slots[u] + 1 /\ slots[u] \in Int /\ MaxConcurrent[u] \in Int
        BY <1>2, <2>2, GateAssumption DEF TypeOK
      <3>4. slots'[u] = Cardinality(Holders(u)')
        BY <2>1, <3>1, <3>2, <3>3
      <3>5. slots'[u] <= MaxConcurrent[u]
        BY <1>2, <2>2, <3>3
      <3> QED BY <3>1, <3>2, <3>4, <3>5
    <2>3. CASE u # w
      <3>0. u # NoUpstream /\ held[c] # u
        BY RouteAssumption
      <3>1. Holders(u)' = Holders(u)
        <4>1. ASSUME NEW d \in Calls PROVE held'[d] = u <=> held[d] = u
          BY <3>0, <1>2, <2>3 DEF TypeOK
        <4> QED BY <4>1 DEF Holders
      <3>2. slots'[u] = slots[u]
        BY <1>2, <2>3 DEF TypeOK
      <3> QED BY <2>1, <3>1, <3>2
    <2> QED BY <2>2, <2>3
  <1> QED BY <1>3 DEF GateOK, Gated

\* A failed attempt, wherever it failed, keeps the invariant.
LEMMA AttemptErrorStep ==
    ASSUME UpstreamInv, NEW c \in Calls, pc[c] \in {"build", "gate", "exchange"}, AttemptError(c)
    PROVE  UpstreamInv'
  <1>1. /\ GateOK'
        /\ held' = [held EXCEPT ![c] = NoUpstream]
        /\ slots' \in [Ups -> Int]
    BY ReleaseStep DEF UpstreamInv, AttemptError
  <1>2. Target(c) \in Ups
    BY TargetIsUpstream DEF UpstreamInv
  <1>3. CASE stage[c] = "primary" /\ route[c].fallback # NoUpstream /\ ~gone[c]
    <2>1. /\ pc' = [pc EXCEPT ![c] = "build"]
          /\ stage' = [stage EXCEPT ![c] = "fallback"]
          /\ expired' = [expired EXCEPT ![c] = FALSE]
          /\ UNCHANGED <<result, route, gone>>
      BY <1>3 DEF AttemptError
    <2>2. TypeOK'
      <3>1. route[c].fallback \in Ups
        BY <1>3, RouteAssumption DEF UpstreamInv, TypeOK
      <3> QED BY <3>1, <2>1, <1>1 DEF UpstreamInv, TypeOK
    <2>3. ExchangeHolds' /\ NoHoldAndWait'
      BY <2>1, <1>1 DEF UpstreamInv, TypeOK, ExchangeHolds, NoHoldAndWait, Target, Gated
    <2> QED BY <1>1, <2>2, <2>3 DEF UpstreamInv
  <1>4. CASE ~(stage[c] = "primary" /\ route[c].fallback # NoUpstream /\ ~gone[c])
    <2>1. /\ pc' = [pc EXCEPT ![c] = "done"]
          /\ result' = [result EXCEPT ![c] = [ok |-> FALSE, upstream |-> Target(c)]]
          /\ UNCHANGED <<stage, expired, route, gone>>
      BY <1>4 DEF AttemptError, ErrorName
    <2>2. TypeOK'
      BY <2>1, <1>1, <1>2 DEF UpstreamInv, TypeOK
    <2>3. ExchangeHolds' /\ NoHoldAndWait'
      BY <2>1, <1>1 DEF UpstreamInv, TypeOK, ExchangeHolds, NoHoldAndWait, Target, Gated
    <2> QED BY <1>1, <2>2, <2>3 DEF UpstreamInv
  <1> QED BY <1>3, <1>4

\* NewResolver makes empty gates, and no call has begun.
LEMMA InitUpstreamInv == Init => UpstreamInv
  <1> SUFFICES ASSUME Init PROVE UpstreamInv
    OBVIOUS
  <1>1. \A u \in Ups : Holders(u) = {} /\ slots[u] = 0
    BY RouteAssumption DEF Init, Holders
  <1>2. GateOK
    BY <1>1, FS_EmptySet, GateAssumption DEF GateOK, Gated
  <1>3. TypeOK
    BY DEF Init, TypeOK
  <1> QED BY <1>2, <1>3 DEF Init, UpstreamInv, ExchangeHolds, NoHoldAndWait

\* Every step of a call, a timer or a client keeps tokens and holders in agreement.
LEMMA StepKeepsUpstreamInv == UpstreamInv /\ [Next]_vars => UpstreamInv'
  <1> SUFFICES ASSUME UpstreamInv, [Next]_vars PROVE UpstreamInv'
    OBVIOUS
  <1> USE DEF UpstreamInv
  <1>1. ASSUME UNCHANGED <<held, slots>> PROVE GateOK'
    BY <1>1 DEF GateOK, Holders, Gated
  <1>2. ASSUME NEW c \in Calls, NEW r \in Routes, Begin(c, r) PROVE UpstreamInv'
    <2>1. GateOK'
      BY <1>1, <1>2 DEF Begin
    <2>2. TypeOK'
      BY <1>2 DEF Begin, TypeOK
    <2> QED BY <1>2, <2>1, <2>2 DEF Begin, TypeOK, ExchangeHolds, NoHoldAndWait, Target, Gated
  <1>3. ASSUME NEW c \in Calls, ClientGone(c) PROVE UpstreamInv'
    BY <1>1, <1>3 DEF ClientGone, TypeOK, ExchangeHolds, NoHoldAndWait, Target, Gated
  <1>4. ASSUME NEW c \in Calls, Expire(c) PROVE UpstreamInv'
    BY <1>1, <1>4 DEF Expire, TypeOK, ExchangeHolds, NoHoldAndWait, Target, Gated
  <1>5. ASSUME NEW c \in Calls, Build(c) PROVE UpstreamInv'
    BY <1>1, <1>5 DEF Build, TypeOK, ExchangeHolds, NoHoldAndWait, Target, Gated
  <1>6. ASSUME NEW c \in Calls, BuildFails(c) \/ GiveUp(c) \/ ExchangeFails(c) PROVE UpstreamInv'
    BY <1>6, AttemptErrorStep DEF BuildFails, GiveUp, ExchangeFails
  <1>7. ASSUME NEW c \in Calls, Acquire(c) PROVE UpstreamInv'
    <2>1. held[c] = NoUpstream /\ Target(c) \in Ups
      BY <1>7, TargetIsUpstream DEF Acquire, NoHoldAndWait
    <2>2. GateOK'
      BY <1>1, <1>7, <2>1, AcquireStep DEF Acquire
    <2>3. TypeOK'
      BY <1>7, <2>1 DEF Acquire, TypeOK
    <2>4. ExchangeHolds' /\ NoHoldAndWait'
      BY <1>7, <2>1 DEF Acquire, TypeOK, ExchangeHolds, NoHoldAndWait, Target, Gated
    <2> QED BY <2>2, <2>3, <2>4
  <1>8. ASSUME NEW c \in Calls, Answered(c) PROVE UpstreamInv'
    <2>1. /\ GateOK'
          /\ held' = [held EXCEPT ![c] = NoUpstream]
          /\ slots' \in [Ups -> Int]
      BY <1>8, ReleaseStep DEF Answered
    <2>2. Target(c) \in Ups
      BY TargetIsUpstream
    <2>3. TypeOK'
      BY <1>8, <2>1, <2>2 DEF Answered, TypeOK
    <2>4. ExchangeHolds' /\ NoHoldAndWait'
      BY <1>8, <2>1 DEF Answered, TypeOK, ExchangeHolds, NoHoldAndWait, Target, Gated
    <2> QED BY <2>1, <2>3, <2>4
  <1>9. ASSUME NEW c \in Calls, Return(c) PROVE UpstreamInv'
    BY <1>1, <1>9 DEF Return, TypeOK, ExchangeHolds, NoHoldAndWait, Target, Gated
  <1>10. CASE UNCHANGED vars
    BY <1>1, <1>10 DEF vars, TypeOK, ExchangeHolds, NoHoldAndWait, Target, Gated
  <1> QED BY <1>2, <1>3, <1>4, <1>5, <1>6, <1>7, <1>8, <1>9, <1>10 DEF Next

\* Never more exchanges with a gated upstream than its max_concurrent.
LEMMA CapHolds == UpstreamInv => ConcurrencyCapped
  <1> SUFFICES ASSUME UpstreamInv, NEW u \in Ups, Gated(u)
               PROVE  Cardinality({c \in Calls : pc[c] = "exchange" /\ Target(c) = u})
                         <= MaxConcurrent[u]
    BY DEF ConcurrencyCapped
  <1> DEFINE E == {c \in Calls : pc[c] = "exchange" /\ Target(c) = u}
  <1>1. E \subseteq Holders(u)
    BY DEF UpstreamInv, ExchangeHolds, Holders
  <1>2. /\ IsFiniteSet(Holders(u))
        /\ Cardinality(Holders(u)) <= MaxConcurrent[u]
    BY DEF UpstreamInv, GateOK
  <1>3. /\ Cardinality(E) <= Cardinality(Holders(u))
        /\ Cardinality(E) \in Nat /\ Cardinality(Holders(u)) \in Nat
    BY <1>1, <1>2, FS_Subset, FS_CardinalityType
  <1>4. MaxConcurrent[u] \in Int
    BY GateAssumption
  <1> QED BY <1>2, <1>3, <1>4

\* Whatever way exchanges end, a gate's tokens are exactly those of the calls that
\* hold one, and no gated upstream gets more exchanges at once than its max_concurrent.
THEOREM TokensAreHolders == Spec => []TokensAccounted
  <1>1. UpstreamInv => TokensAccounted
    BY CapHolds DEF UpstreamInv, GateOK, SlotsAreHolders, TokensAccounted
  <1> QED BY <1>1, InitUpstreamInv, StepKeepsUpstreamInv, PTL DEF Spec

\* A call that waits for a gate holds no token, so gates cannot deadlock.
THEOREM NoCircularWait == Spec => []NoHoldAndWait
  <1>1. UpstreamInv => NoHoldAndWait
    BY DEF UpstreamInv
  <1> QED BY <1>1, InitUpstreamInv, StepKeepsUpstreamInv, PTL DEF Spec

\* resolveUpstream implements its promise: one outcome per call, which names an
\* upstream that the call's route configures.
THEOREM UpstreamKeepsPromise == Spec => Promise!Spec
  <1>1. Init => Promise!Init
    BY DEF Init, Promise!Init, phase, Promise!None, None
  <1>2. UpstreamInv /\ [Next]_vars => [Promise!Next]_(Promise!cvars)
    <2> SUFFICES ASSUME UpstreamInv, [Next]_vars
                 PROVE  Promise!Next \/ UNCHANGED <<phase, route, result>>
      BY DEF Promise!cvars
    <2>0. \A c \in Calls : Target(c) \in Promise!Configured(route[c])
      BY RouteAssumption DEF UpstreamInv, TypeOK, Target, Promise!Configured
    <2>1. ASSUME NEW c \in Calls, NEW r \in Routes, Begin(c, r) PROVE Promise!Begin(c, r)
      BY <2>1 DEF Begin, Promise!Begin, phase, UpstreamInv, TypeOK
    <2>2. ASSUME NEW c \in Calls, pc[c] \in {"build", "gate", "exchange"},
                 NEW outcome \in Promise!Outcomes(route[c]),
                 pc' = [pc EXCEPT ![c] = "done"], route' = route,
                 result' = [result EXCEPT ![c] = outcome]
          PROVE  Promise!Next
      <3>1. Promise!Finish(c, outcome)
        BY <2>2 DEF Promise!Finish, phase, UpstreamInv, TypeOK
      <3> QED BY <3>1 DEF Promise!Next, Promise!Ends
    <2>3. ASSUME NEW c \in Calls, pc[c] \in {"build", "gate", "exchange"},
                 NEW p \in {"build", "gate", "exchange"},
                 pc' = [pc EXCEPT ![c] = p] \/ pc' = pc, UNCHANGED <<route, result>>
          PROVE  UNCHANGED <<phase, route, result>>
      BY <2>3 DEF phase, UpstreamInv, TypeOK
    <2>4. ASSUME NEW c \in Calls, pc[c] \in {"build", "gate", "exchange"}, AttemptError(c)
          PROVE  Promise!Next \/ UNCHANGED <<phase, route, result>>
      <3>1. [ok |-> FALSE, upstream |-> Target(c)] \in Promise!Outcomes(route[c])
        BY <2>0 DEF Promise!Outcomes
      <3> QED BY <3>1, <2>2, <2>3, <2>4 DEF AttemptError, ErrorName
    <2>5. ASSUME NEW c \in Calls, Answered(c) PROVE Promise!Next
      <3>1. [ok |-> TRUE, upstream |-> Target(c)] \in Promise!Outcomes(route[c])
        BY <2>0 DEF Promise!Outcomes
      <3> QED BY <3>1, <2>2, <2>5 DEF Answered
    <2>6. ASSUME NEW c \in Calls, Return(c) PROVE Promise!Return(c)
      BY <2>6 DEF Return, Promise!Return, phase, UpstreamInv, TypeOK, Promise!None, None
    <2>7. ASSUME NEW c \in Calls, ClientGone(c) \/ Expire(c) \/ Build(c) \/ Acquire(c)
          PROVE  UNCHANGED <<phase, route, result>>
      BY <2>3, <2>7 DEF ClientGone, Expire, Build, Acquire
    <2>8. ASSUME NEW c \in Calls, BuildFails(c) \/ GiveUp(c) \/ ExchangeFails(c)
          PROVE  Promise!Next \/ UNCHANGED <<phase, route, result>>
      BY <2>4, <2>8 DEF BuildFails, GiveUp, ExchangeFails
    <2>9. CASE UNCHANGED vars
      BY <2>9 DEF vars, phase
    <2> QED BY <2>1, <2>5, <2>6, <2>7, <2>8, <2>9 DEF Next, Promise!Next
  <1> QED
    BY <1>1, <1>2, InitUpstreamInv, StepKeepsUpstreamInv, PTL
    DEF Spec, Promise!Spec
=============================================================================
