-------------------------- MODULE QueryPathProofs --------------------------
(***************************************************************************)
(* Theorems about the query path, for any number of requests, any keys and *)
(* ttls and any cache size, from four invariants; AnswerInv has FlightInv  *)
(* as a part, and the last two have AnswerInv:                             *)
(*   FlightInv   who resolves a key, and what followers wait for;          *)
(*   AnswerInv   whose answer an entry, a call and a reply carry;          *)
(*   GoodInv     which entries are still there to answer in place of an    *)
(*               error, if the keys of the requests fit into the cache;    *)
(*   ServiceInv  how the query follows from the request and the settings.  *)
(***************************************************************************)
EXTENDS DoHQuery, WellFoundedInduction, TLAPS

\* The call of a leader is open exactly while it resolves.
CallFollowsLeader ==
    caching => \A r \in Reqs :
        /\ pc[r] = "resolve" => call[r] = Open
        /\ pc[r] = "unregister" => call[r] \notin {None, Open}

\* Without a cache there is no key: nobody joins, waits, registers or unregisters.
UncachedPlaces ==
    /\ \A r \in Reqs : pc[r] \in {"join", "wait", "unregister"} => caching
    /\ ~caching => DOMAIN inflight = {}

FlightInv ==
    /\ TypeOK
    /\ InflightOwned
    /\ NoOrphanWaiter
    /\ CallFollowsLeader
    /\ UncachedPlaces

\* An outcome is neither the open call nor the absent one.
LEMMA OutcomeIsClosed ==
    ASSUME NEW o, Outcome(o)
    PROVE  o # None /\ o # Open
  <1>1. "ok" \in DOMAIN o
    <2>1. CASE o = Failed
      BY <2>1 DEF Failed
    <2>2. CASE o \in [ok : {TRUE}, answer : Answers]
      <3>1. DOMAIN o = {"ok", "answer"}
        BY <2>2
      <3> QED BY <3>1
    <2> QED BY <2>1, <2>2 DEF Outcome
  <1>2. "ok" \notin DOMAIN None /\ "ok" \notin DOMAIN Open
    BY DEF None, Open
  <1> QED BY <1>1, <1>2

\* An open call is not an absent one.
LEMMA OpenIsNotNone == Open # None
  <1>1. "open" \in DOMAIN Open /\ "open" \notin DOMAIN None
    BY DEF Open, None
  <1> QED BY <1>1

\* The key of a request is one of the keys.
LEMMA KeyIsKey ==
    ASSUME TypeOK, NEW r \in Reqs
    PROVE  KeyOf(r) \in Keys
  BY DEF TypeOK, KeyOf, Keys

\* What Publish hands over is an outcome.
LEMMA OutcomesAreOutcomes ==
    ASSUME TypeOK, NEW r \in Reqs, NEW o \in Outcomes(r)
    PROVE  Outcome(o)
  <1>1. CASE result[r].ok
    <2>1. PICK kind \in Kinds :
            o = [ok |-> TRUE, answer |-> [query |-> query[r], id |-> r, kind |-> kind]]
      BY <1>1 DEF Outcomes
    <2>2. [query |-> query[r], id |-> r, kind |-> kind] \in Answers
      BY DEF Answers, TypeOK
    <2> QED BY <2>1, <2>2 DEF Outcome
  <1>2. CASE ~result[r].ok
    BY <1>2 DEF Outcomes, Outcome
  <1> QED BY <1>1, <1>2

\* No call is registered and nobody waits when the server starts.
LEMMA InitFlightInv == ASSUME Init PROVE FlightInv
  <1>1. TypeOK
    BY ClockAssumption DEF Init, TypeOK
  <1>2. InflightOwned /\ NoOrphanWaiter /\ CallFollowsLeader /\ UncachedPlaces
    BY DEF Init, InflightOwned, NoOrphanWaiter, CallFollowsLeader, UncachedPlaces
  <1> QED BY <1>1, <1>2 DEF FlightInv

\* A step that keeps the table, the calls and what requests wait for, and moves
\* at most one request between places where it neither leads nor waits.
LEMMA QuietStep ==
    ASSUME FlightInv, TypeOK',
           UNCHANGED <<caching, query, inflight, call, waits>>,
           NEW r \in Reqs, NEW place \in {"join", "finish", "done"},
           \/ UNCHANGED pc
           \/ /\ pc[r] \in {"idle", "wait", "finish"}
              /\ pc' = [pc EXCEPT ![r] = place]
              /\ place = "join" => caching
    PROVE  FlightInv'
  <1>1. \A s \in Reqs : KeyOf(s)' = KeyOf(s)
    BY DEF KeyOf
  <1>2. \A s \in Reqs : \/ pc'[s] = pc[s]
                        \/ /\ s = r /\ pc[s] \in {"idle", "wait", "finish"}
                           /\ pc'[s] = place
    BY DEF FlightInv, TypeOK
  <1>3. InflightOwned'
    BY <1>1, <1>2 DEF FlightInv, InflightOwned, TypeOK
  <1>4. NoOrphanWaiter'
    BY <1>1, <1>2 DEF FlightInv, NoOrphanWaiter
  <1>5. CallFollowsLeader' /\ UncachedPlaces'
    BY <1>2 DEF FlightInv, CallFollowsLeader, UncachedPlaces
  <1> QED BY <1>3, <1>4, <1>5 DEF FlightInv

\* Without a cache the request resolves on its own.
LEMMA ResolveUncachedStep ==
    ASSUME FlightInv, NEW r \in Reqs, ResolveUncached(r)
    PROVE  FlightInv'
  <1>1. /\ pc[r] = "idle" /\ ~caching
        /\ pc' = [pc EXCEPT ![r] = "resolve"]
        /\ UNCHANGED <<caching, clock, query, gone, inflight, call, waits, got>>
    BY DEF ResolveUncached, Goto
  <1>2. TypeOK'
    BY <1>1 DEF FlightInv, TypeOK, Outcome
  <1>3. \A s \in Reqs : KeyOf(s)' = KeyOf(s)
    BY <1>1 DEF KeyOf
  <1>4. \A s \in Reqs : pc'[s] = IF s = r THEN "resolve" ELSE pc[s]
    BY <1>1 DEF FlightInv, TypeOK
  <1>5. InflightOwned'
    BY <1>1, <1>3, <1>4 DEF FlightInv, InflightOwned, TypeOK
  <1>6. NoOrphanWaiter' /\ CallFollowsLeader' /\ UncachedPlaces'
    BY <1>1, <1>3, <1>4 DEF FlightInv, NoOrphanWaiter, CallFollowsLeader, UncachedPlaces
  <1> QED BY <1>2, <1>5, <1>6 DEF FlightInv

\* The leader's entry is new, and it is its own.
LEMMA RegisterStep ==
    ASSUME FlightInv, NEW r \in Reqs, Register(r)
    PROVE  FlightInv'
  <1> DEFINE k == KeyOf(r)
  <1>1. /\ pc[r] = "join" /\ k \notin DOMAIN inflight
        /\ inflight' = [j \in DOMAIN inflight \union {k} |-> IF j = k THEN r ELSE inflight[j]]
        /\ call' = [call EXCEPT ![r] = Open]
        /\ pc' = [pc EXCEPT ![r] = "resolve"]
        /\ UNCHANGED <<caching, clock, query, gone, waits, got>>
    BY DEF Register, RegisterAlways, Goto
  <1>2. k \in Keys
    BY KeyIsKey DEF FlightInv
  <1>3. \A s \in Reqs : /\ KeyOf(s)' = KeyOf(s)
                        /\ pc'[s] = IF s = r THEN "resolve" ELSE pc[s]
                        /\ call'[s] = IF s = r THEN Open ELSE call[s]
    BY <1>1 DEF KeyOf, FlightInv, TypeOK
  <1>4. DOMAIN inflight' = DOMAIN inflight \union {k} /\ inflight'[k] = r
        /\ \A j \in DOMAIN inflight : j # k /\ inflight'[j] = inflight[j]
    BY <1>1
  <1>5. TypeOK'
    <2>1. DOMAIN inflight' \subseteq Keys /\ \A j \in DOMAIN inflight' : inflight'[j] \in Reqs
      BY <1>2, <1>4 DEF FlightInv, TypeOK
    <2>2. DOMAIN call' = Reqs /\ \A s \in Reqs : call'[s] \in {None, Open} \/ Outcome(call'[s])
      BY <1>1, <1>3 DEF FlightInv, TypeOK
    <2>3. pc' \in [Reqs -> {"idle", "join", "wait", "resolve", "unregister", "finish", "done"}]
      BY <1>1 DEF FlightInv, TypeOK
    <2> QED BY <1>1, <2>1, <2>2, <2>3 DEF FlightInv, TypeOK, Outcome
  <1>k. KeyOf(r) = k
    OBVIOUS
  <1> HIDE DEF k
  <1>6. InflightOwned'
    <2>1. \A j \in DOMAIN inflight' :
            pc'[inflight'[j]] \in {"resolve", "unregister"} /\ KeyOf(inflight[j])' = j
      <3> TAKE j \in DOMAIN inflight'
      <3>1. CASE j = k
        BY <3>1, <1>1, <1>3, <1>4, <1>k DEF KeyOf
      <3>2. CASE j # k
        <4>1. j \in DOMAIN inflight /\ inflight'[j] = inflight[j] /\ inflight[j] \in Reqs
          BY <3>2, <1>4 DEF FlightInv, TypeOK
        <4>2. pc[inflight[j]] \in {"resolve", "unregister"} /\ KeyOf(inflight[j]) = j
          BY <4>1 DEF FlightInv, InflightOwned
        <4> QED BY <4>1, <4>2, <1>1, <1>3 DEF KeyOf
      <3> QED BY <3>1, <3>2
    <2>2. ASSUME caching', NEW s \in Reqs, pc'[s] \in {"resolve", "unregister"}
          PROVE  KeyOf(s)' \in DOMAIN inflight' /\ inflight'[KeyOf(s)'] = s
      BY <2>2, <1>1, <1>3, <1>4, <1>k DEF FlightInv, InflightOwned
    <2> QED BY <2>1, <2>2 DEF InflightOwned
  <1>7. NoOrphanWaiter'
    BY <1>1, <1>3, OpenIsNotNone DEF FlightInv, NoOrphanWaiter
  <1>8. CallFollowsLeader' /\ UncachedPlaces'
    BY <1>1, <1>3 DEF FlightInv, CallFollowsLeader, UncachedPlaces
  <1> QED BY <1>5, <1>6, <1>7, <1>8 DEF FlightInv

\* A follower waits for the leader of its own key, whose call is open or closed.
LEMMA FollowStep ==
    ASSUME FlightInv, NEW r \in Reqs, Follow(r)
    PROVE  FlightInv'
  <1> DEFINE leader == inflight[KeyOf(r)]
  <1>1. /\ pc[r] = "join" /\ KeyOf(r) \in DOMAIN inflight
        /\ waits' = [waits EXCEPT ![r] = leader]
        /\ pc' = [pc EXCEPT ![r] = "wait"]
        /\ UNCHANGED <<caching, clock, query, gone, inflight, call, got>>
    BY DEF Follow, Goto
  <1>2. /\ leader \in Reqs /\ KeyOf(leader) = KeyOf(r)
        /\ pc[leader] \in {"resolve", "unregister"}
    BY <1>1 DEF FlightInv, TypeOK, InflightOwned
  <1>3. leader # r
    BY <1>1, <1>2
  <1>4. caching
    BY <1>1 DEF FlightInv, UncachedPlaces
  <1>5. call[leader] # None /\ (call[leader] = Open => pc[leader] = "resolve")
    BY <1>2, <1>4, OpenIsNotNone DEF FlightInv, CallFollowsLeader
  <1> HIDE DEF leader
  <1>6. TypeOK'
    BY <1>1, <1>2 DEF FlightInv, TypeOK, Outcome
  <1>7. \A s \in Reqs : /\ KeyOf(s)' = KeyOf(s)
                        /\ pc'[s] = IF s = r THEN "wait" ELSE pc[s]
                        /\ waits'[s] = IF s = r THEN leader ELSE waits[s]
    BY <1>1 DEF KeyOf, FlightInv, TypeOK
  <1>8. InflightOwned'
    BY <1>1, <1>7 DEF FlightInv, InflightOwned, TypeOK
  <1>9. NoOrphanWaiter'
    <2> SUFFICES ASSUME NEW s \in Reqs, pc'[s] = "wait"
                 PROVE  /\ waits'[s] \in Reqs \ {s}
                        /\ KeyOf(waits[s])' = KeyOf(s)'
                        /\ call'[waits'[s]] = Open => pc'[waits'[s]] = "resolve"
                        /\ call'[waits'[s]] # None
      BY DEF NoOrphanWaiter
    <2>1. CASE s = r
      BY <2>1, <1>1, <1>2, <1>3, <1>5, <1>7 DEF KeyOf
    <2>2. CASE s # r
      BY <2>2, <1>1, <1>7 DEF FlightInv, NoOrphanWaiter, KeyOf
    <2> QED BY <2>1, <2>2
  <1>10. CallFollowsLeader' /\ UncachedPlaces'
    BY <1>1, <1>4, <1>7 DEF FlightInv, CallFollowsLeader, UncachedPlaces
  <1> QED BY <1>6, <1>8, <1>9, <1>10 DEF FlightInv

\* The leader closes its call in the step in which it stops resolving.
LEMMA PublishStep ==
    ASSUME FlightInv, NEW r \in Reqs, Publish(r)
    PROVE  FlightInv'
  <1>1. PICK o \in Outcomes(r) :
          /\ got' = [got EXCEPT ![r] = o]
          /\ call' = IF caching THEN [call EXCEPT ![r] = o] ELSE call
    BY DEF Publish
  <1>2. /\ pc[r] = "resolve"
        /\ pc' = [pc EXCEPT ![r] = IF caching THEN "unregister" ELSE "finish"]
        /\ UNCHANGED <<caching, clock, query, gone, inflight, waits>>
    BY DEF Publish, Goto
  <1>3. Outcome(o) /\ o # None /\ o # Open
    BY OutcomesAreOutcomes, OutcomeIsClosed DEF FlightInv
  <1>4. TypeOK'
    <2>1. DOMAIN call' = Reqs /\ \A s \in Reqs : call'[s] \in {None, Open} \/ Outcome(call'[s])
      BY <1>1, <1>3 DEF FlightInv, TypeOK
    <2>2. DOMAIN got' = Reqs /\ \A s \in Reqs : got'[s] = None \/ Outcome(got'[s])
      BY <1>1, <1>3 DEF FlightInv, TypeOK
    <2>3. pc' \in [Reqs -> {"idle", "join", "wait", "resolve", "unregister", "finish", "done"}]
      BY <1>2 DEF FlightInv, TypeOK
    <2> QED BY <1>2, <2>1, <2>2, <2>3 DEF FlightInv, TypeOK, Outcome
  <1>5. CASE caching
    <2>1. \A s \in Reqs : /\ KeyOf(s)' = KeyOf(s)
                          /\ pc'[s] = IF s = r THEN "unregister" ELSE pc[s]
                          /\ call'[s] = IF s = r THEN o ELSE call[s]
      BY <1>1, <1>2, <1>5 DEF KeyOf, FlightInv, TypeOK
    <2>2. InflightOwned'
      BY <1>2, <2>1 DEF FlightInv, InflightOwned, TypeOK
    <2>3. NoOrphanWaiter' /\ CallFollowsLeader' /\ UncachedPlaces'
      BY <1>2, <1>3, <1>5, <2>1
      DEF FlightInv, NoOrphanWaiter, CallFollowsLeader, UncachedPlaces
    <2> QED BY <1>4, <2>2, <2>3 DEF FlightInv
  <1>6. CASE ~caching
    <2>1. \A s \in Reqs : /\ KeyOf(s)' = KeyOf(s)
                          /\ pc'[s] = IF s = r THEN "finish" ELSE pc[s]
      BY <1>2, <1>6 DEF KeyOf, FlightInv, TypeOK
    <2>2. /\ \A s \in Reqs : pc[s] \notin {"join", "wait", "unregister"}
          /\ DOMAIN inflight = {}
      BY <1>6 DEF FlightInv, UncachedPlaces
    <2>3. InflightOwned'
      BY <1>2, <1>6, <2>2 DEF InflightOwned
    <2>4. NoOrphanWaiter' /\ CallFollowsLeader' /\ UncachedPlaces'
      BY <1>2, <1>6, <2>1, <2>2 DEF NoOrphanWaiter, CallFollowsLeader, UncachedPlaces
    <2> QED BY <1>4, <2>3, <2>4 DEF FlightInv
  <1> QED BY <1>5, <1>6

\* The leader takes its entry out, and no one else's.
LEMMA UnregisterStep ==
    ASSUME FlightInv, NEW r \in Reqs, Unregister(r)
    PROVE  FlightInv'
  <1>1. /\ pc[r] = "unregister"
        /\ inflight' = [k \in DOMAIN inflight \ {KeyOf(r)} |-> inflight[k]]
        /\ pc' = [pc EXCEPT ![r] = "finish"]
        /\ UNCHANGED <<caching, clock, query, gone, call, waits, got>>
    BY DEF Unregister, Goto
  <1>2. caching
    BY <1>1 DEF FlightInv, UncachedPlaces
  <1>3. inflight[KeyOf(r)] = r /\ KeyOf(r) \in DOMAIN inflight
    BY <1>1, <1>2 DEF FlightInv, InflightOwned
  <1>4. TypeOK'
    BY <1>1 DEF FlightInv, TypeOK, Outcome
  <1>5. \A s \in Reqs : /\ KeyOf(s)' = KeyOf(s)
                        /\ pc'[s] = IF s = r THEN "finish" ELSE pc[s]
    BY <1>1 DEF KeyOf, FlightInv, TypeOK
  <1>6. InflightOwned'
    <2>1. ASSUME NEW k \in DOMAIN inflight'
          PROVE  pc'[inflight'[k]] \in {"resolve", "unregister"} /\ KeyOf(inflight[k])' = k
      <3>1. /\ k \in DOMAIN inflight /\ k # KeyOf(r) /\ inflight'[k] = inflight[k]
            /\ inflight[k] \in Reqs
        BY <1>1 DEF FlightInv, TypeOK
      <3>2. pc[inflight[k]] \in {"resolve", "unregister"} /\ KeyOf(inflight[k]) = k
        BY <3>1 DEF FlightInv, InflightOwned
      <3> QED BY <3>1, <3>2, <1>1, <1>5 DEF KeyOf
    <2>2. ASSUME NEW s \in Reqs, pc'[s] \in {"resolve", "unregister"}
          PROVE  KeyOf(s)' \in DOMAIN inflight' /\ inflight'[KeyOf(s)'] = s
      <3>1. s # r /\ KeyOf(s) \in DOMAIN inflight /\ inflight[KeyOf(s)] = s
        BY <2>2, <1>2, <1>5 DEF FlightInv, InflightOwned
      <3>2. KeyOf(s) # KeyOf(r)
        BY <3>1, <1>3
      <3> QED BY <3>1, <3>2, <1>1, <1>5
    <2> QED BY <2>1, <2>2 DEF InflightOwned
  <1>7. NoOrphanWaiter'
    BY <1>1, <1>5 DEF FlightInv, NoOrphanWaiter, KeyOf
  <1>8. CallFollowsLeader' /\ UncachedPlaces'
    BY <1>1, <1>2, <1>5 DEF FlightInv, CallFollowsLeader, UncachedPlaces
  <1> QED BY <1>4, <1>6, <1>7, <1>8 DEF FlightInv

\* A waiter leaves with the outcome of its call, or with the error of its own
\* context; both are outcomes.
LEMMA WakeStep ==
    ASSUME FlightInv, NEW r \in Reqs, WakeDone(r) \/ WakeCancelled(r)
    PROVE  FlightInv'
  <1>1. PICK o : /\ Outcome(o)
                 /\ got' = [got EXCEPT ![r] = o]
    <2>1. CASE WakeDone(r)
      <3>1. pc[r] = "wait" /\ call[waits[r]] # Open /\ got' = [got EXCEPT ![r] = call[waits[r]]]
        BY <2>1 DEF WakeDone
      <3>2. waits[r] \in Reqs /\ call[waits[r]] # None
        BY <3>1 DEF FlightInv, NoOrphanWaiter
      <3>3. Outcome(call[waits[r]])
        BY <3>1, <3>2 DEF FlightInv, TypeOK
      <3> QED BY <3>1, <3>3
    <2>2. CASE WakeCancelled(r)
      BY <2>2 DEF WakeCancelled, Outcome
    <2> QED BY <2>1, <2>2
  <1>2. /\ pc[r] = "wait"
        /\ pc' = [pc EXCEPT ![r] = "finish"]
        /\ UNCHANGED <<caching, clock, query, gone, inflight, call, waits>>
    BY DEF WakeDone, WakeCancelled, Goto
  <1>3. TypeOK'
    <2>1. DOMAIN got' = Reqs /\ \A s \in Reqs : got'[s] = None \/ Outcome(got'[s])
      BY <1>1 DEF FlightInv, TypeOK
    <2>2. pc' \in [Reqs -> {"idle", "join", "wait", "resolve", "unregister", "finish", "done"}]
      BY <1>2 DEF FlightInv, TypeOK
    <2> QED BY <1>2, <2>1, <2>2 DEF FlightInv, TypeOK, Outcome
  <1> QED BY <1>2, <1>3, QuietStep

\* Lookup and Finish only look at, or change, the cache and the reply.
LEMMA HandlerStep ==
    ASSUME FlightInv, NEW r \in Reqs, Lookup(r) \/ Finish(r)
    PROVE  FlightInv'
  <1>1. PICK place \in {"join", "finish", "done"} :
          /\ pc[r] \in {"idle", "finish"}
          /\ pc' = [pc EXCEPT ![r] = place]
          /\ place = "join" => caching
          /\ UNCHANGED <<caching, clock, query, inflight, call, waits, got>>
    BY DEF Lookup, Finish, Goto
  <1>2. gone' \in [Reqs -> BOOLEAN]
    BY DEF Lookup, Finish, FlightInv, TypeOK
  <1>3. TypeOK'
    BY <1>1, <1>2 DEF FlightInv, TypeOK, Outcome
  <1> QED BY <1>1, <1>3, QuietStep

\* The clock, the clients and the end of an upstream call move no goroutine.
LEMMA EnvironmentStep ==
    ASSUME FlightInv, NEW r \in Reqs, Tick \/ ClientGone(r) \/ UpstreamEnds(r)
    PROVE  FlightInv'
  <1>1. UNCHANGED <<caching, query, pc, inflight, call, waits, got>>
    BY DEF Tick, ClientGone, UpstreamEnds
  <1>2. clock' \in 0..MaxClock
    <2>1. clock' = clock \/ (clock < MaxClock /\ clock' = clock + 1)
      BY DEF Tick, ClientGone, UpstreamEnds
    <2>2. clock \in 0..MaxClock
      BY DEF FlightInv, TypeOK
    <2> QED BY <2>1, <2>2, ClockAssumption
  <1>4. gone' \in [Reqs -> BOOLEAN]
    BY DEF Tick, ClientGone, UpstreamEnds, FlightInv, TypeOK
  <1>3. TypeOK'
    BY <1>1, <1>2, <1>4 DEF FlightInv, TypeOK, Outcome
  <1> QED BY <1>1, <1>3, QuietStep

\* FlightInv is inductive.
LEMMA StepKeepsFlightInv ==
    ASSUME FlightInv, [Next]_vars
    PROVE  FlightInv'
  <1>1. CASE Tick
    <2>1. CASE Reqs = {}
      BY <1>1, <2>1, ClockAssumption
      DEF Tick, FlightInv, TypeOK, InflightOwned, NoOrphanWaiter, CallFollowsLeader,
          UncachedPlaces, Outcome
    <2>2. CASE Reqs # {}
      BY <1>1, <2>2, EnvironmentStep
    <2> QED BY <2>1, <2>2
  <1>2. ASSUME NEW r \in Reqs, ClientGone(r) \/ UpstreamEnds(r) PROVE FlightInv'
    BY <1>2, EnvironmentStep
  <1>3. ASSUME NEW r \in Reqs, Lookup(r) \/ Finish(r) PROVE FlightInv'
    BY <1>3, HandlerStep
  <1>4. ASSUME NEW r \in Reqs, ResolveUncached(r) PROVE FlightInv'
    BY <1>4, ResolveUncachedStep
  <1>5. ASSUME NEW r \in Reqs, Register(r) PROVE FlightInv'
    BY <1>5, RegisterStep
  <1>6. ASSUME NEW r \in Reqs, Follow(r) PROVE FlightInv'
    BY <1>6, FollowStep
  <1>7. ASSUME NEW r \in Reqs, WakeDone(r) \/ WakeCancelled(r) PROVE FlightInv'
    BY <1>7, WakeStep
  <1>8. ASSUME NEW r \in Reqs, Publish(r) PROVE FlightInv'
    BY <1>8, PublishStep
  <1>9. ASSUME NEW r \in Reqs, Unregister(r) PROVE FlightInv'
    BY <1>9, UnregisterStep
  <1>10. CASE UNCHANGED vars
    BY <1>10 DEF vars, FlightInv, TypeOK, InflightOwned, NoOrphanWaiter, CallFollowsLeader,
       UncachedPlaces, KeyOf, Outcome
  <1> QED
    BY <1>1, <1>2, <1>3, <1>4, <1>5, <1>6, <1>7, <1>8, <1>9, <1>10 DEF Next

\* Two requests that resolve one key both own its entry: they are the same.
LEMMA OwnersAreUnique == ASSUME FlightInv PROVE SingleFlight
  BY DEF FlightInv, InflightOwned, SingleFlight

\* At most one goroutine resolves a key at a time (resolveWithInflight).  No entry of inflight
\* outlives its leader, and none is deleted by another request; a waiter's call is closed, or
\* its leader still resolves: no wake-up is lost.
THEOREM FlightIsConsistent == Spec => []FlightConsistent
  <1>1. Init => FlightInv
    BY InitFlightInv
  <1>2. FlightInv /\ [Next]_vars => FlightInv'
    BY StepKeepsFlightInv
  <1>3. FlightInv => FlightConsistent
    BY OwnersAreUnique DEF FlightInv, FlightConsistent
  <1> QED BY <1>1, <1>2, <1>3, PTL DEF Spec

-----------------------------------------------------------------------------
(* The cache behind the requests *)

\* What is proved about the cache, for the cache of QueryPath; the history variables of
\* CacheHistory are not needed and stand still.
Facts == INSTANCE CacheProofs WITH
    Bodies <- Answers, Times <- 0..MaxClock,
    TTLs <- {PositiveTTL, NegativeTTL}, Extras <- {0, StaleIfError},
    lastSet <- None, since <- None

\* The assumptions of Cache hold of it.
LEMMA StoreAssumptions ==
    /\ MaxItems \in Nat \ {0}
    /\ /\ 0..MaxClock \subseteq Int
       /\ {PositiveTTL, NegativeTTL} \subseteq Int
       /\ {0, StaleIfError} \subseteq Int
  BY RoomAssumption, TTLAssumption

\* Both instances of Cache move a key to the front of the list alike.
LEMMA SameMoveToFront ==
    ASSUME NEW s, NEW k
    PROVE  /\ Store!RemoveFirst(s, k) = Facts!RemoveFirst(s, k)
           /\ Store!MoveToFront(s, k) = Facts!MoveToFront(s, k)
  <1>1. Store!RemoveFirst(s, k) = Facts!RemoveFirst(s, k)
    BY DEF Store!RemoveFirst, Facts!RemoveFirst, Store!RemoveAt, Facts!RemoveAt,
       Store!SelectInSeq, Facts!SelectInSeq, Store!Min, Facts!Min
  <1> QED BY <1>1 DEF Store!MoveToFront, Facts!MoveToFront

\* They look up alike.
LEMMA SameLookup ==
    ASSUME NEW k, NEW now
    PROVE  /\ Store!GetFresh(k, now) => Facts!GetFresh(k, now)
           /\ Store!GetStale(k, now) => Facts!GetStale(k, now)
  <1>1. \A op, f, r : Store!Answer(op, k, now, f, r) = Facts!Answer(op, k, now, f, r)
    BY DEF Store!Answer, Facts!Answer
  <1>2. \A e : /\ Store!Dead(e, now) = Facts!Dead(e, now)
               /\ Store!Expired(e, now) = Facts!Expired(e, now)
    BY DEF Store!Dead, Facts!Dead, Store!Expired, Facts!Expired
  <1>3. \A f : Store!Without(f, k) = Facts!Without(f, k)
    BY DEF Store!Without, Facts!Without, Store!Restrict, Facts!Restrict
  <1>4. Store!None = Facts!None
    BY DEF Store!None, Facts!None
  <1>5. Store!RemoveElement(k) = Facts!RemoveElement(k)
    BY <1>3, SameMoveToFront, Zenon DEF Store!RemoveElement, Facts!RemoveElement
  <1>6. \A op : /\ Store!LookupMiss(op, k, now) => Facts!LookupMiss(op, k, now)
                /\ Store!LookupDead(op, k, now) => Facts!LookupDead(op, k, now)
                /\ Store!LookupKeep(op, k, now) => Facts!LookupKeep(op, k, now)
                /\ Store!LookupHit(op, k, now) => Facts!LookupHit(op, k, now)
    BY <1>1, <1>2, <1>4, <1>5, SameMoveToFront, Zenon
    DEF Store!LookupMiss, Facts!LookupMiss, Store!LookupDead, Facts!LookupDead,
        Store!LookupKeep, Facts!LookupKeep, Store!LookupHit, Facts!LookupHit
  <1> QED BY <1>2, <1>6, Zenon
      DEF Store!GetFresh, Facts!GetFresh, Store!GetStale, Facts!GetStale

\* They store alike.
LEMMA SameSet ==
    ASSUME NEW k, NEW body, NEW ttl, NEW extra, NEW now
    PROVE  Store!Set(k, body, ttl, extra, now) => Facts!Set(k, body, ttl, extra, now)
  <1>1. Store!MkEntry(body, ttl, extra, now) = Facts!MkEntry(body, ttl, extra, now)
    BY DEF Store!MkEntry, Facts!MkEntry
  <1>2. \A e : Store!With(items, k, e) = Facts!With(items, k, e)
    BY DEF Store!With, Facts!With
  <1>3. \A s, n : Store!Kept(s, n) = Facts!Kept(s, n)
    BY DEF Store!Kept, Facts!Kept
  <1>4. \A f, S : Store!Restrict(f, S) = Facts!Restrict(f, S)
    BY DEF Store!Restrict, Facts!Restrict
  <1>5. \A s : /\ Store!Range(s) = Facts!Range(s)
               /\ Store!Cardinality(s) = Facts!Cardinality(s)
    BY DEF Store!Range, Facts!Range, Store!Cardinality, Facts!Cardinality
  <1>6. Store!None = Facts!None
    BY DEF Store!None, Facts!None
  <1>7. Store!SetStored(k, body, ttl, extra, now) => Facts!SetStored(k, body, ttl, extra, now)
    BY <1>1, <1>2, <1>3, <1>4, <1>5, <1>6, SameMoveToFront, Zenon
    DEF Store!SetStored, Facts!SetStored
  <1>8. Store!SetRefused(k, ttl) => Facts!SetRefused(k, ttl)
    BY DEF Store!SetRefused, Facts!SetRefused, Store!vars, Facts!vars
  <1> QED BY <1>7, <1>8 DEF Store!Set, Facts!Set

\* A look-up by a request: it answers with the entry of the key, changes no entry and drops
\* at most its own, dead one.
LEMMA LookupEffect ==
    ASSUME Facts!CacheInv, NEW k \in Keys, NEW now \in 0..MaxClock,
           Store!GetFresh(k, now) \/ Store!GetStale(k, now)
    PROVE  /\ Facts!CacheInv'
           /\ out'.found => k \in DOMAIN items /\ out'.result = items[k].body
           /\ \A j \in DOMAIN items' : j \in DOMAIN items /\ items'[j] = items[j]
           /\ \A j \in DOMAIN items \ DOMAIN items' : j = k /\ now > items[j].staleUntil
  <1>1. Facts!GetFresh(k, now) \/ Facts!GetStale(k, now)
    BY SameLookup
  <1>2. Facts!CacheInv'
    BY <1>1, StoreAssumptions, Facts!LookupKeepsCacheInv
  <1>3. /\ out'.found => k \in DOMAIN items /\ out'.result = items[k].body
        /\ \A j \in DOMAIN items' : j \in DOMAIN items /\ items'[j] = items[j]
        /\ \A j \in DOMAIN items \ DOMAIN items' : j = k /\ Facts!Dead(items[j], now)
    BY <1>1, StoreAssumptions, Facts!LookupReadsEntry
  <1> QED BY <1>2, <1>3 DEF Facts!Dead

\* GetStale misses only what is not there or dead.
LEMMA StaleMiss ==
    ASSUME NEW k, NEW now, Store!GetStale(k, now), ~out'.found
    PROVE  k \notin DOMAIN items \/ now > items[k].staleUntil
  <1>1. Facts!GetStale(k, now)
    BY SameLookup
  <1>2. k \notin DOMAIN items \/ Facts!Dead(items[k], now)
    BY <1>1, StoreAssumptions, Facts!StaleMissMeansDead
  <1> QED BY <1>2 DEF Facts!Dead

\* The keys of the requests fit into the cache.
KeysInUse == {KeyOf(r) : r \in Reqs}
KeysFit   == IsFiniteSet(KeysInUse) /\ Cardinality(KeysInUse) <= MaxItems

\* A request stores its answer under its key: the entry is that answer with the two
\* deadlines, the others stay as they are, and none has to go when the keys fit.
LEMMA SetEffect ==
    ASSUME Facts!CacheInv, NEW k \in Keys, NEW a \in Answers, NEW now \in 0..MaxClock,
           Store!Set(k, a, responseTTL(a), cacheStaleExtra(a), now)
    PROVE  /\ Facts!CacheInv'
           /\ k \in DOMAIN items'
           /\ items'[k].body = a
           /\ items'[k].staleUntil = now + responseTTL(a) + cacheStaleExtra(a)
           /\ \A j \in DOMAIN items' : j # k => j \in DOMAIN items /\ items'[j] = items[j]
           /\ KeysFit /\ DOMAIN items \union {k} \subseteq KeysInUse => DOMAIN items \subseteq DOMAIN items'
  <1> DEFINE ttl == responseTTL(a)
             extra == cacheStaleExtra(a)
  <1>1. ttl \in {PositiveTTL, NegativeTTL} /\ extra \in {0, StaleIfError} /\ ttl > 0
    BY TTLAssumption DEF responseTTL, cacheStaleExtra
  <1>2. Facts!Set(k, a, ttl, extra, now)
    BY SameSet
  <1>3. /\ Facts!IsFiniteSet(KeysInUse) = IsFiniteSet(KeysInUse)
        /\ Facts!Cardinality(KeysInUse) = Cardinality(KeysInUse)
    BY DEF Facts!IsFiniteSet, IsFiniteSet, Facts!Cardinality, Cardinality
  <1> HIDE DEF ttl, extra
  <1>4. /\ Facts!CacheInv'
        /\ k \in DOMAIN items' /\ items'[k] = Facts!MkEntry(a, ttl, extra, now)
        /\ \A j \in DOMAIN items' : j # k => j \in DOMAIN items /\ items'[j] = items[j]
        /\ \A K : /\ DOMAIN items \union {k} \subseteq K
                  /\ Facts!IsFiniteSet(K) /\ Facts!Cardinality(K) <= MaxItems
                  => DOMAIN items \subseteq DOMAIN items'
    BY <1>1, <1>2, StoreAssumptions, Facts!SetStoresEntry
  <1>5. /\ items'[k].body = a
        /\ items'[k].staleUntil = IF extra > 0 THEN now + ttl + extra ELSE now + ttl
    BY <1>4 DEF Facts!MkEntry
  <1>6. now + ttl + extra = IF extra > 0 THEN now + ttl + extra ELSE now + ttl
    BY <1>1, TTLAssumption
  <1> QED BY <1>3, <1>4, <1>5, <1>6 DEF KeysFit, ttl, extra

-----------------------------------------------------------------------------
(* Whose answer a reply is *)

\* An answer to the question, the namespace, the route and the subnet of a key.
IsFor(a, k) == a \in Answers /\ dnsCacheKey(a.query) = k

\* Every entry of the cache is for its key.
EntriesFor == \A k \in DOMAIN items : IsFor(items[k].body, k)

\* What a call was closed with is for its leader's key.
CallsFor == \A r \in Reqs : call[r] \notin {None, Open} /\ call[r].ok => IsFor(call[r].answer, KeyOf(r))

\* What a request came back with is for its key, and carries its ID unless it had to wait.
OutcomesFor ==
    \A r \in Reqs :
        /\ pc[r] \in {"unregister", "finish"} => got[r] # None
        /\ got[r] # None /\ got[r].ok =>
              IsFor(got[r].answer, KeyOf(r)) /\ (got[r].answer.id = r \/ waits[r] # None)

\* So is what was written to its client.
RepliesFor ==
    /\ DOMAIN reply = Reqs
    /\ \A r \in Reqs : reply[r] # None /\ reply[r].status # "ERROR" =>
          /\ IsFor(reply[r].answer, KeyOf(r))
          /\ reply[r].answer.id = r \/ (waits[r] # None /\ reply[r].status = "MISS")

AnswerInv == FlightInv /\ Facts!CacheInv /\ EntriesFor /\ CallsFor /\ OutcomesFor /\ RepliesFor

\* No step changes a request's query, hence none changes its key.
LEMMA QueriesStay ==
    ASSUME [Next]_vars
    PROVE  UNCHANGED <<caching, query>> /\ \A r \in Reqs : KeyOf(r)' = KeyOf(r)
  <1>1. UNCHANGED <<caching, query>>
    BY DEF Next, Tick, ClientGone, ResolveUncached, Lookup, Register, RegisterAlways, Follow,
       WakeDone, WakeCancelled, UpstreamEnds, Publish, Unregister, Finish, vars
  <1> QED BY <1>1 DEF KeyOf

\* What a leader's upstream answered is for the leader's key and carries its ID.
LEMMA OwnOutcome ==
    ASSUME TypeOK, NEW r \in Reqs, NEW o \in Outcomes(r)
    PROVE  o # None /\ (o.ok => IsFor(o.answer, KeyOf(r)) /\ o.answer.id = r)
  <1>1. o # None
    BY OutcomesAreOutcomes, OutcomeIsClosed
  <1>2. CASE result[r].ok
    <2>1. PICK kind \in Kinds :
            o = [ok |-> TRUE, answer |-> [query |-> query[r], id |-> r, kind |-> kind]]
      BY <1>2 DEF Outcomes
    <2>2. [query |-> query[r], id |-> r, kind |-> kind] \in Answers
      BY DEF Answers, TypeOK
    <2> QED BY <1>1, <2>1, <2>2 DEF IsFor, KeyOf
  <1>3. CASE ~result[r].ok
    BY <1>1, <1>3 DEF Outcomes, Failed
  <1> QED BY <1>2, <1>3

\* A call is closed by its leader, with what that one's upstream answered.
LEMMA CallsStep ==
    ASSUME AnswerInv, [Next]_vars
    PROVE  CallsFor'
  <1>1. \A r \in Reqs : KeyOf(r)' = KeyOf(r)
    BY QueriesStay
  <1>2. CASE UNCHANGED call
    BY <1>1, <1>2 DEF AnswerInv, CallsFor
  <1>3. ASSUME NEW r \in Reqs, Register(r) PROVE CallsFor'
    <2>1. \A s \in Reqs : call'[s] = IF s = r THEN Open ELSE call[s]
      BY <1>3 DEF Register, RegisterAlways, AnswerInv, FlightInv, TypeOK
    <2> QED BY <1>1, <2>1 DEF AnswerInv, CallsFor
  <1>4. ASSUME NEW r \in Reqs, Publish(r) PROVE CallsFor'
    <2>1. PICK o \in Outcomes(r) : call' = IF caching THEN [call EXCEPT ![r] = o] ELSE call
      BY <1>4 DEF Publish
    <2>2. \A s \in Reqs : call'[s] = call[s] \/ (s = r /\ call'[s] = o)
      BY <2>1 DEF AnswerInv, FlightInv, TypeOK
    <2>3. o.ok => IsFor(o.answer, KeyOf(r))
      BY OwnOutcome DEF AnswerInv, FlightInv
    <2> QED BY <1>1, <2>2, <2>3 DEF AnswerInv, CallsFor
  <1> QED
    BY <1>2, <1>3, <1>4 DEF Next, Tick, ClientGone, ResolveUncached, Lookup, Follow,
       WakeDone, WakeCancelled, UpstreamEnds, Unregister, Finish, vars

\* A request comes back with its own outcome, with that of the call it waited for, which is a
\* call for its own key, or with an error.
LEMMA OutcomesStep ==
    ASSUME AnswerInv, [Next]_vars
    PROVE  OutcomesFor'
  <1>1. \A r \in Reqs : KeyOf(r)' = KeyOf(r)
    BY QueriesStay
  <1>2. ASSUME NEW r \in Reqs, NEW o, o # None, UNCHANGED waits,
               o.ok => IsFor(o.answer, KeyOf(r)) /\ (o.answer.id = r \/ waits[r] # None),
               got' = [got EXCEPT ![r] = o], \E place : pc' = [pc EXCEPT ![r] = place]
        PROVE  OutcomesFor'
    <2>1. \A s \in Reqs : /\ got'[s] = IF s = r THEN o ELSE got[s]
                          /\ s # r => pc'[s] = pc[s]
      BY <1>2 DEF AnswerInv, FlightInv, TypeOK
    <2> QED BY <1>1, <1>2, <2>1 DEF AnswerInv, OutcomesFor
  <1>3. CASE UNCHANGED <<got, waits, pc>>
    BY <1>1, <1>3 DEF AnswerInv, OutcomesFor
  <1>4. ASSUME NEW r \in Reqs, UNCHANGED got, waits' = waits \/ \E l \in Reqs : waits' = [waits EXCEPT ![r] = l],
               NEW place, place \notin {"unregister", "finish"}, pc' = [pc EXCEPT ![r] = place]
        PROVE  OutcomesFor'
    <2>1. \A s \in Reqs : /\ waits[s] # None => waits'[s] # None
                          /\ pc'[s] = IF s = r THEN place ELSE pc[s]
      BY <1>4, NoneIsNoRequest DEF AnswerInv, FlightInv, TypeOK
    <2> QED BY <1>1, <1>4, <2>1 DEF AnswerInv, OutcomesFor
  <1>5. ASSUME NEW r \in Reqs, ResolveUncached(r) \/ Lookup(r) \/ Register(r) \/ Finish(r)
        PROVE  OutcomesFor'
    <2>1. PICK place \in {"resolve", "join", "done"} :
             pc' = [pc EXCEPT ![r] = place] /\ UNCHANGED <<got, waits>>
      BY <1>5 DEF ResolveUncached, Lookup, Register, RegisterAlways, Finish, Goto
    <2> QED BY <2>1, <1>4
  <1>6. ASSUME NEW r \in Reqs, Follow(r) PROVE OutcomesFor'
    <2>1. inflight[KeyOf(r)] \in Reqs
      BY <1>6 DEF Follow, AnswerInv, FlightInv, TypeOK
    <2> QED BY <2>1, <1>4, <1>6 DEF Follow, Goto
  <1>7. ASSUME NEW r \in Reqs, WakeDone(r) PROVE OutcomesFor'
    <2>1. /\ pc[r] = "wait" /\ call[waits[r]] # Open /\ UNCHANGED waits
          /\ got' = [got EXCEPT ![r] = call[waits[r]]] /\ pc' = [pc EXCEPT ![r] = "finish"]
      BY <1>7 DEF WakeDone, Goto
    <2>2. waits[r] \in Reqs /\ KeyOf(waits[r]) = KeyOf(r) /\ call[waits[r]] # None
      BY <2>1 DEF AnswerInv, FlightInv, NoOrphanWaiter
    <2>3. call[waits[r]].ok => IsFor(call[waits[r]].answer, KeyOf(r))
      BY <2>1, <2>2 DEF AnswerInv, CallsFor
    <2>4. waits[r] # None
      BY <2>2, NoneIsNoRequest
    <2> QED BY <2>1, <2>2, <2>3, <2>4, <1>2
  <1>8. ASSUME NEW r \in Reqs, WakeCancelled(r) PROVE OutcomesFor'
    <2>1. /\ got' = [got EXCEPT ![r] = Failed] /\ pc' = [pc EXCEPT ![r] = "finish"]
          /\ UNCHANGED waits
      BY <1>8 DEF WakeCancelled, Goto
    <2>2. Failed # None /\ ~Failed.ok
      BY OutcomeIsClosed DEF Outcome, Failed
    <2> QED BY <2>1, <2>2, <1>2
  <1>9. ASSUME NEW r \in Reqs, Publish(r) PROVE OutcomesFor'
    <2>1. PICK o \in Outcomes(r) : got' = [got EXCEPT ![r] = o]
      BY <1>9 DEF Publish
    <2>2. UNCHANGED waits /\ \E place : pc' = [pc EXCEPT ![r] = place]
      BY <1>9 DEF Publish, Goto
    <2>3. o # None /\ (o.ok => IsFor(o.answer, KeyOf(r)) /\ o.answer.id = r)
      BY OwnOutcome DEF AnswerInv, FlightInv
    <2> QED BY <2>1, <2>2, <2>3, <1>2
  <1>10. ASSUME NEW r \in Reqs, Unregister(r) PROVE OutcomesFor'
    <2>1. \A s \in Reqs : pc'[s] = IF s = r THEN "finish" ELSE pc[s]
      BY <1>10 DEF Unregister, Goto, AnswerInv, FlightInv, TypeOK
    <2>2. pc[r] = "unregister" /\ UNCHANGED <<got, waits>>
      BY <1>10 DEF Unregister
    <2> QED BY <2>1, <2>2, <1>1 DEF AnswerInv, OutcomesFor
  <1> QED
    BY <1>3, <1>5, <1>6, <1>7, <1>8, <1>9, <1>10 DEF Next, Tick, ClientGone, UpstreamEnds, vars

\* The key of a request is a key, and the clock is a time of the cache.
LEMMA CallArguments ==
    ASSUME AnswerInv, NEW r \in Reqs
    PROVE  KeyOf(r) \in Keys /\ clock \in 0..MaxClock
  BY KeyIsKey DEF AnswerInv, FlightInv, TypeOK

\* A request stores an answer under its own key only.
LEMMA EntriesStep ==
    ASSUME AnswerInv, [Next]_vars
    PROVE  Facts!CacheInv' /\ EntriesFor'
  <1>1. CASE UNCHANGED cacheVars
    <2>1. Facts!CacheInv'
      BY <1>1 DEF AnswerInv, cacheVars, Facts!CacheInv, Facts!TypeOK, Facts!ListMatchesMap, Facts!Bounded
    <2> QED BY <2>1, <1>1 DEF AnswerInv, EntriesFor, cacheVars
  <1>2. ASSUME NEW r \in Reqs, Store!GetFresh(KeyOf(r), clock) \/ Store!GetStale(KeyOf(r), clock)
        PROVE  Facts!CacheInv' /\ EntriesFor'
    <2>1. Facts!CacheInv' /\ \A k \in DOMAIN items' : k \in DOMAIN items /\ items'[k] = items[k]
      BY <1>2, CallArguments, LookupEffect DEF AnswerInv
    <2> QED BY <2>1 DEF AnswerInv, EntriesFor
  <1>3. ASSUME NEW r \in Reqs, pc[r] = "finish", AnswerMiss(r) PROVE Facts!CacheInv' /\ EntriesFor'
    <2> DEFINE a == got[r].answer
    <2>1. CASE caching
      <3>1. Store!Set(KeyOf(r), a, responseTTL(a), cacheStaleExtra(a), clock)
        BY <1>3, <2>1 DEF AnswerMiss
      <3>2. IsFor(a, KeyOf(r))
        BY <1>3 DEF AnswerMiss, AnswerInv, OutcomesFor
      <3> HIDE DEF a
      <3>3. /\ Facts!CacheInv'
            /\ items'[KeyOf(r)].body = a
            /\ \A k \in DOMAIN items' : k # KeyOf(r) => k \in DOMAIN items /\ items'[k] = items[k]
        BY <3>1, <3>2, CallArguments, SetEffect DEF AnswerInv, IsFor
      <3> QED BY <3>2, <3>3 DEF AnswerInv, EntriesFor
    <2>2. CASE ~caching
      BY <1>1, <1>3, <2>2 DEF AnswerMiss
    <2> QED BY <2>1, <2>2
  <1>4. ASSUME NEW r \in Reqs, Finish(r) PROVE Facts!CacheInv' /\ EntriesFor'
    BY <1>1, <1>2, <1>3, <1>4 DEF Finish, AnswerStale, AnswerError
  <1> QED
    BY <1>1, <1>2, <1>4 DEF Next, Tick, ClientGone, ResolveUncached, Lookup, Register,
       RegisterAlways, Follow, WakeDone, WakeCancelled, UpstreamEnds, Publish, Unregister, vars

\* An answer with another ID is still for the key.
LEMMA WithIDIsFor ==
    ASSUME NEW a, NEW k, IsFor(a, k), NEW r \in Reqs
    PROVE  IsFor(responseWithQueryID(a, r), k) /\ responseWithQueryID(a, r).id = r
  BY DEF IsFor, Answers, responseWithQueryID

\* A reply is what the request came back with, or an entry of its key under its own ID.
LEMMA RepliesStep ==
    ASSUME AnswerInv, [Next]_vars
    PROVE  RepliesFor'
  <1>1. \A r \in Reqs : KeyOf(r)' = KeyOf(r)
    BY QueriesStay
  <1>2. CASE UNCHANGED <<reply, waits>>
    BY <1>1, <1>2 DEF AnswerInv, RepliesFor
  <1>3. ASSUME NEW r \in Reqs, NEW status, NEW a, UNCHANGED waits, Reply(r, status, a),
               status # "ERROR" => /\ IsFor(a, KeyOf(r))
                                   /\ a.id = r \/ (waits[r] # None /\ status = "MISS")
        PROVE  RepliesFor'
    <2>1. DOMAIN reply' = Reqs
          /\ \A s \in Reqs : reply'[s] = IF s = r THEN [status |-> status, answer |-> a] ELSE reply[s]
      BY <1>3 DEF Reply, AnswerInv, RepliesFor
    <2> QED BY <1>1, <1>3, <2>1 DEF AnswerInv, RepliesFor
  <1>4. ASSUME NEW r \in Reqs, NEW status, UNCHANGED waits, Reply(r, status, responseWithQueryID(out'.result, r)),
               out'.found, Store!GetFresh(KeyOf(r), clock) \/ Store!GetStale(KeyOf(r), clock)
        PROVE  RepliesFor'
    <2>1. KeyOf(r) \in DOMAIN items /\ out'.result = items[KeyOf(r)].body
      BY <1>4, CallArguments, LookupEffect DEF AnswerInv
    <2>2. IsFor(out'.result, KeyOf(r))
      BY <2>1 DEF AnswerInv, EntriesFor
    <2> QED BY <2>2, WithIDIsFor, <1>3, <1>4
  <1>5. ASSUME NEW r \in Reqs, Lookup(r) PROVE RepliesFor'
    <2>1. CASE out'.found
      BY <1>4, <1>5, <2>1 DEF Lookup
    <2>2. CASE ~out'.found
      BY <1>2, <1>5, <2>2 DEF Lookup
    <2> QED BY <2>1, <2>2
  <1>6. ASSUME NEW r \in Reqs, Follow(r) PROVE RepliesFor'
    <2>1. \A s \in Reqs : waits[s] # None => waits'[s] # None
      <3>1. inflight[KeyOf(r)] \in Reqs
        BY <1>6 DEF Follow, AnswerInv, FlightInv, TypeOK
      <3> QED BY <3>1, <1>6, NoneIsNoRequest DEF Follow, AnswerInv, FlightInv, TypeOK
    <2>2. UNCHANGED reply
      BY <1>6 DEF Follow
    <2> QED BY <1>1, <2>1, <2>2 DEF AnswerInv, RepliesFor
  <1>7. ASSUME NEW r \in Reqs, Finish(r) PROVE RepliesFor'
    <2>1. pc[r] = "finish" /\ UNCHANGED waits
      BY <1>7 DEF Finish
    <2>2. CASE AnswerMiss(r)
      <3>1. got[r].ok /\ Reply(r, "MISS", got[r].answer)
        BY <2>2 DEF AnswerMiss
      <3>2. IsFor(got[r].answer, KeyOf(r)) /\ (got[r].answer.id = r \/ waits[r] # None)
        BY <2>1, <3>1 DEF AnswerInv, OutcomesFor
      <3> QED BY <2>1, <3>1, <3>2, <1>3
    <2>3. CASE AnswerStale(r)
      <3>1. CASE out'.found
        BY <2>1, <2>3, <3>1, <1>4 DEF AnswerStale
      <3>2. CASE ~out'.found
        BY <2>1, <2>3, <3>2, <1>3 DEF AnswerStale
      <3> QED BY <3>1, <3>2
    <2>4. CASE AnswerError(r)
      BY <2>1, <2>4, <1>3 DEF AnswerError
    <2> QED BY <1>7, <2>2, <2>3, <2>4 DEF Finish
  <1> QED
    BY <1>2, <1>5, <1>6, <1>7 DEF Next, Tick, ClientGone, ResolveUncached, Register,
       RegisterAlways, WakeDone, WakeCancelled, UpstreamEnds, Publish, Unregister, vars

\* Nothing is cached, called for or answered when the server starts.
LEMMA InitAnswerInv == ASSUME Init PROVE AnswerInv
  <1>1. FlightInv
    BY InitFlightInv
  <1>2. Facts!CacheInv
    <2>1. Facts!Init
      BY DEF Init, Store!Init, Facts!Init, Store!None, Facts!None
    <2> QED BY <2>1, StoreAssumptions, Facts!InitCacheInv
  <1>3. EntriesFor /\ CallsFor /\ OutcomesFor /\ RepliesFor
    BY DEF Init, Store!Init, EntriesFor, CallsFor, OutcomesFor, RepliesFor
  <1> QED BY <1>1, <1>2, <1>3 DEF AnswerInv

\* AnswerInv is inductive.
LEMMA StepKeepsAnswerInv == ASSUME AnswerInv, [Next]_vars PROVE AnswerInv'
  BY StepKeepsFlightInv, CallsStep, OutcomesStep, EntriesStep, RepliesStep DEF AnswerInv

\* Whatever path an answer took through the cache and the calls of other requests, it was
\* fetched for the client's own question, namespace, subnet and upstream (dnsCacheKey).
THEOREM OwnQuestionAnswered == Spec => []AnswersOwnQuestion
  <1>1. AnswerInv => AnswersOwnQuestion
    BY DEF AnswerInv, RepliesFor, IsFor, AnswersOwnQuestion, SameQuestion, KeyOf, dnsCacheKey
  <1> QED BY <1>1, InitAnswerInv, StepKeepsAnswerInv, PTL DEF Spec

\* A reply carries the client's own DNS ID, unless the request waited for another one's call
\* and was written that one's bytes (handleDoHQuery does not set the ID of a MISS).
THEOREM OwnIDAnswered == Spec => []OwnIDUnlessCoalesced
  <1>1. AnswerInv => OwnIDUnlessCoalesced
    BY DEF AnswerInv, RepliesFor, OwnIDUnlessCoalesced
  <1> QED BY <1>1, InitAnswerInv, StepKeepsAnswerInv, PTL DEF Spec

-----------------------------------------------------------------------------
(* No needless error *)

\* As long as the last answer stored for a key may be served, its entry is still in the cache,
\* with that deadline: no look-up drops it early and no other key displaces it.
GoodInv ==
    /\ AnswerInv
    /\ KeysFit
    /\ DOMAIN items \subseteq KeysInUse
    /\ goodUntil \in [Keys -> Int]
    /\ \A k \in Keys : clock <= goodUntil[k] =>
          caching /\ k \in DOMAIN items /\ items[k].staleUntil = goodUntil[k]

\* Time passes; a step that leaves the cache alone keeps what it can still serve.
LEMMA ClockStep ==
    ASSUME AnswerInv, [Next]_vars
    PROVE  clock \in Int /\ clock' \in Int /\ clock <= clock'
  <1>1. clock \in Int
    BY DEF AnswerInv, FlightInv, TypeOK
  <1>2. clock' = clock \/ clock' = clock + 1
    BY DEF Next, Tick, ClientGone, ResolveUncached, Lookup, Register, RegisterAlways, Follow,
       WakeDone, WakeCancelled, UpstreamEnds, Publish, Unregister, Finish, vars
  <1> QED BY <1>1, <1>2

\* GoodInv is inductive.
LEMMA StepKeepsGoodInv == ASSUME GoodInv, [Next]_vars PROVE GoodInv'
  <1>1. AnswerInv /\ AnswerInv'
    BY StepKeepsAnswerInv DEF GoodInv
  <1>2. KeysInUse' = KeysInUse /\ KeysFit'
    BY QueriesStay DEF GoodInv, KeysInUse, KeysFit
  <1>3. clock \in Int /\ clock' \in Int /\ clock <= clock' /\ caching' = caching
    BY <1>1, ClockStep, QueriesStay
  <1>4. CASE UNCHANGED <<items, goodUntil>>
    BY <1>1, <1>2, <1>3, <1>4 DEF GoodInv
  <1>5. ASSUME NEW r \in Reqs, Store!GetFresh(KeyOf(r), clock) \/ Store!GetStale(KeyOf(r), clock),
               UNCHANGED <<clock, goodUntil>>
        PROVE  GoodInv'
    <2>1. /\ \A j \in DOMAIN items' : j \in DOMAIN items /\ items'[j] = items[j]
          /\ \A j \in DOMAIN items \ DOMAIN items' : clock > items[j].staleUntil
      BY <1>1, <1>5, CallArguments, LookupEffect DEF AnswerInv
    <2>2. ASSUME NEW k \in Keys, clock <= goodUntil[k]
          PROVE  caching /\ k \in DOMAIN items' /\ items'[k].staleUntil = goodUntil[k]
      <3>1. caching /\ k \in DOMAIN items /\ items[k].staleUntil = goodUntil[k]
        BY <2>2 DEF GoodInv
      <3>2. ~(clock > goodUntil[k])
        BY <1>3, <2>2 DEF GoodInv
      <3> QED BY <2>1, <3>1, <3>2
    <2> QED BY <1>1, <1>2, <1>3, <1>5, <2>1, <2>2 DEF GoodInv
  <1>6. ASSUME NEW r \in Reqs, pc[r] = "finish", AnswerMiss(r), UNCHANGED clock PROVE GoodInv'
    <2> DEFINE a == got[r].answer
               k == KeyOf(r)
               until == clock + responseTTL(a) + cacheStaleExtra(a)
    <2>1. CASE ~caching
      BY <1>4, <1>6, <2>1 DEF AnswerMiss, cacheVars
    <2>2. CASE caching
      <3>1. /\ Store!Set(k, a, responseTTL(a), cacheStaleExtra(a), clock)
            /\ goodUntil' = [goodUntil EXCEPT ![k] = until]
        BY <1>6, <2>2 DEF AnswerMiss
      <3>2. a \in Answers
        BY <1>1, <1>6 DEF AnswerMiss, AnswerInv, OutcomesFor, IsFor
      <3>3. k \in Keys /\ clock \in 0..MaxClock /\ k \in KeysInUse
        BY <1>1, CallArguments DEF KeysInUse
      <3>4. until \in Int
        BY <1>3, TTLAssumption DEF responseTTL, cacheStaleExtra
      <3> HIDE DEF a, k
      <3>5. /\ k \in DOMAIN items' /\ items'[k].staleUntil = until
            /\ \A j \in DOMAIN items' : j # k => j \in DOMAIN items /\ items'[j] = items[j]
            /\ DOMAIN items \subseteq DOMAIN items'
        BY <1>1, <3>1, <3>2, <3>3, SetEffect DEF AnswerInv, GoodInv
      <3> HIDE DEF until
      <3>6. \A j \in Keys : goodUntil'[j] = IF j = k THEN until ELSE goodUntil[j]
        BY <3>1 DEF GoodInv
      <3>7. goodUntil' \in [Keys -> Int]
        BY <3>1, <3>4 DEF GoodInv
      <3>8. ASSUME NEW j \in Keys, clock' <= goodUntil'[j]
            PROVE  caching' /\ j \in DOMAIN items' /\ items'[j].staleUntil = goodUntil'[j]
        BY <1>3, <1>6, <2>2, <3>5, <3>6, <3>8 DEF GoodInv
      <3>9. DOMAIN items' \subseteq KeysInUse'
        BY <1>2, <3>3, <3>5 DEF GoodInv
      <3> QED BY <1>1, <1>2, <3>7, <3>8, <3>9 DEF GoodInv
    <2> QED BY <2>1, <2>2
  <1>7. ASSUME NEW r \in Reqs, Finish(r) PROVE GoodInv'
    BY <1>4, <1>5, <1>6, <1>7 DEF Finish, AnswerStale, AnswerError, cacheVars
  <1>8. ASSUME NEW r \in Reqs, Lookup(r) PROVE GoodInv'
    BY <1>5, <1>8 DEF Lookup
  <1> QED
    BY <1>4, <1>7, <1>8 DEF Next, Tick, ClientGone, ResolveUncached, Register, RegisterAlways,
       Follow, WakeDone, WakeCancelled, UpstreamEnds, Publish, Unregister, vars, cacheVars

\* The step in which a request is answered with an error.
LEMMA ErrorStep ==
    ASSUME GoodInv, [Next]_vars, NEW r \in Reqs, reply'[r] # reply[r], reply'[r].status = "ERROR"
    PROVE  clock > goodUntil[KeyOf(r)]
  <1>1. AnswerInv /\ DOMAIN reply = Reqs
    BY DEF GoodInv, AnswerInv, RepliesFor
  <1>2. \A s \in Reqs : \A status, a : Reply(s, status, a) => s = r /\ status = "ERROR"
    BY <1>1 DEF Reply
  <1>3. Finish(r)
    <2>1. ~UNCHANGED reply
      OBVIOUS
    <2>2. \A s \in Reqs : ~Lookup(s)
      BY <2>1, <1>2 DEF Lookup
    <2>3. \A s \in Reqs : Finish(s) => s = r
      BY <1>2 DEF Finish, AnswerMiss, AnswerStale, AnswerError
    <2> QED
      BY <2>1, <2>2, <2>3 DEF Next, Tick, ClientGone, ResolveUncached, Register, RegisterAlways,
         Follow, WakeDone, WakeCancelled, UpstreamEnds, Publish, Unregister, vars
  <1>4. KeyOf(r) \in Keys /\ clock \in Int /\ goodUntil[KeyOf(r)] \in Int
    BY <1>1, CallArguments DEF GoodInv
  <1>5. ~AnswerMiss(r)
    BY <1>2 DEF AnswerMiss
  <1>6. CASE AnswerStale(r)
    <2>1. Store!GetStale(KeyOf(r), clock) /\ ~out'.found
      BY <1>2, <1>6 DEF AnswerStale
    <2>2. KeyOf(r) \notin DOMAIN items \/ clock > items[KeyOf(r)].staleUntil
      BY <2>1, StaleMiss
    <2> QED BY <1>4, <2>2 DEF GoodInv
  <1>7. CASE AnswerError(r)
    BY <1>4, <1>7 DEF AnswerError, GoodInv
  <1> QED BY <1>3, <1>5, <1>6, <1>7 DEF Finish

\* Where the keys of the requests fit into the cache, a request ends in an error only when no
\* answer stored for its key is inside its stale window: GetFresh drops no entry early, and a
\* follower of a failed call looks too.
THEOREM NoErrorWhileStale == Spec /\ KeysFit => NoNeedlessError
  <1>1. Init /\ KeysFit => GoodInv
    BY InitAnswerInv DEF Init, Store!Init, GoodInv
  <1>2. GoodInv /\ [Next]_vars => GoodInv'
    BY StepKeepsGoodInv
  <1>3. GoodInv /\ [Next]_vars =>
          [\A r \in Reqs : reply'[r] # reply[r] /\ reply'[r].status = "ERROR"
              => clock > goodUntil[KeyOf(r)]]_vars
    BY ErrorStep
  <1> QED BY <1>1, <1>2, <1>3, PTL DEF Spec, NoNeedlessError

-----------------------------------------------------------------------------
(* Whose subnet is sent *)

Address == [fam : {"v4", "v6", "mapped", "text"}, n : Nat]

\* A request as net/http and the DNS library hand it over: the peer address is always there, an
\* explicit subnet has been parsed, and lengths are not negative.
WellFormed(h) ==
    /\ h.ips \in Seq(Address \union {Nothing}) /\ \E i \in DOMAIN h.ips : h.ips[i] # Nothing
    /\ h.option # Nothing => h.option.addr \in Address /\ h.option.bits \in Nat
    /\ \A v \in {h.param, h.header} :
          v # Nothing => v.addr \in Address /\ v.addr.fam # "text" /\ v.bits \in Nat \union {Bare}

\* The length a configuration leads to is a number, in range or not.
LEMMA MaskIsNumber ==
    ASSUME NEW fam \in {"v4", "v6"}, NEW masks
    PROVE  MaskFor(fam, masks) \in Nat
  <1>1. Width[fam] \in Nat /\ DefaultBits[fam] \in 1..Width[fam]
    BY WidthAssumption
  <1> QED BY <1>1 DEF MaskFor

\* A prefix of an address covers it.
LEMMA PrefixCovers ==
    ASSUME NEW a, NEW bits, Prefix(a, bits) # InvalidPrefix
    PROVE  Covers(Prefix(a, bits), a) /\ Prefix(a, bits).bits = bits
  BY DEF Prefix, Covers

\* An address that is no text has a family with a width, mapped or not.
LEMMA UnmapFamily ==
    ASSUME NEW a \in Address
    PROVE  /\ Unmap(a).fam \in {"v4", "v6", "text"}
           /\ Unmap(a).fam = "text" <=> a.fam = "text"
           /\ Unmap([a EXCEPT !.n = 0]) = [Unmap(a) EXCEPT !.n = 0]
           /\ Unmap([a EXCEPT !.n = 0]).fam = Unmap(a).fam
  BY DEF Address, Unmap

\* A set of numbers has a least one.
LEMMA LeastNatural ==
    ASSUME NEW S, S \subseteq Nat, S # {}
    PROVE  \E m \in S : \A j \in S : m <= j
  <1> DEFINE less == OpToRel(<, Nat)
  <1>1. IsWellFoundedOn(less, Nat)
    BY NatLessThanWellFounded
  <1>2. \A j, m \in Nat : j < m => <<j, m>> \in less
    BY DEF OpToRel
  <1> HIDE DEF less
  <1>3. PICK m \in S : \A j \in S : <<j, m>> \notin less
    BY <1>1, WFMin
  <1>4. \A j \in S : ~(j < m)
    BY <1>2, <1>3, Zenon
  <1>5. \A j \in S : j \in Nat /\ m \in Nat
    OBVIOUS
  <1> QED BY <1>4, <1>5

\* The visitor's address is the first that is given, and there is one.
LEMMA ClientIPIsAddress ==
    ASSUME NEW h, WellFormed(h)
    PROVE  extractClientIP(h) \in Address
  <1> DEFINE given == {i \in DOMAIN h.ips : h.ips[i] # Nothing}
  <1>1. given \subseteq Nat /\ given # {} /\ \A i \in given : h.ips[i] \in Address
    BY DEF WellFormed
  <1>2. \E i \in given : \A j \in given : i <= j
    BY <1>1, LeastNatural
  <1>3. (CHOOSE i \in given : \A j \in given : i <= j) \in given
    BY <1>2
  <1> QED BY <1>1, <1>3 DEF extractClientIP

\* What may go upstream on behalf of nobody.
Anonymous(s) == s \in {Nothing, InvalidPrefix}

\* The visitor's subnet is a part of the visitor's own address, no longer than configured.
LEMMA VisitorSubnet ==
    ASSUME NEW h, WellFormed(h)
    PROVE  Anonymous(VisitorECS(h, cfg)) \/ OfVisitor(VisitorECS(h, cfg), h)
  <1> DEFINE ip == extractClientIP(h)
             mask == MaskFor(Unmap(ip).fam, cfg.sections.visitorMask)
  <1>1. ip \in Address
    BY ClientIPIsAddress
  <1> HIDE DEF ip
  <1>2. CASE Unmap(ip) \in Edges \/ ip.fam = "text"
    BY <1>2 DEF VisitorECS, VisitorFromIP, Anonymous, ip
  <1>3. CASE Unmap(ip) \notin Edges /\ ip.fam # "text"
    <2>1. VisitorECS(h, cfg) = Prefix(Unmap(ip), mask)
      BY <1>3 DEF VisitorECS, VisitorFromIP, ip
    <2>2. Unmap(ip).fam \in {"v4", "v6"}
      BY <1>1, <1>3, UnmapFamily
    <2>3. mask \in Nat
      BY <2>2, MaskIsNumber
    <2>4. CASE Prefix(Unmap(ip), mask) # InvalidPrefix
      <3>1. Covers(Prefix(Unmap(ip), mask), Unmap(ip)) /\ Prefix(Unmap(ip), mask).bits = mask
        BY <2>4, PrefixCovers
      <3>2. Prefix(Unmap(ip), mask).bits <= mask
        BY <2>3, <3>1
      <3> QED BY <1>3, <2>1, <2>2, <3>1, <3>2 DEF OfVisitor, ip
    <2> QED BY <2>1, <2>4 DEF Anonymous
  <1> QED BY <1>2, <1>3

\* An explicit length is capped at the configured one.
LEMMA CappedCovers ==
    ASSUME NEW a, a.fam \in {"v4", "v6"}, NEW bits \in Nat, NEW max, Capped(a, bits, max) # InvalidPrefix
    PROVE  Covers(Capped(a, bits, max), a) /\ Capped(a, bits, max).bits <= MaskFor(a.fam, max)
  <1> DEFINE n == IF bits > MaskFor(a.fam, max) THEN MaskFor(a.fam, max) ELSE bits
  <1>1. MaskFor(a.fam, max) \in Nat
    BY MaskIsNumber
  <1>2. n <= MaskFor(a.fam, max)
    BY <1>1
  <1>3. Capped(a, bits, max) = Prefix(a, n)
    BY DEF Capped
  <1> HIDE DEF n
  <1> QED BY <1>2, <1>3, PrefixCovers

\* So is one in the query string or the header.
LEMMA ExplicitCovers ==
    ASSUME NEW v, v # Nothing, v.addr \in Address, v.addr.fam # "text", v.bits \in Nat \union {Bare},
           NEW max, NormalizeExplicit(v, max) # InvalidPrefix
    PROVE  /\ Covers(NormalizeExplicit(v, max), Unmap(v.addr))
           /\ NormalizeExplicit(v, max).bits <= MaskFor(Unmap(v.addr).fam, max)
  <1> DEFINE a == Unmap(v.addr)
  <1>1. a.fam \in {"v4", "v6"}
    BY UnmapFamily
  <1>2. MaskFor(a.fam, max) \in Nat
    BY <1>1, MaskIsNumber
  <1> HIDE DEF a
  <1>3. CASE v.bits = Bare
    <2>1. NormalizeExplicit(v, max) = Prefix(a, MaskFor(a.fam, max))
      BY <1>3 DEF NormalizeExplicit, a
    <2>2. MaskFor(a.fam, max) <= MaskFor(a.fam, max)
      BY <1>2
    <2> QED BY <2>1, <2>2, PrefixCovers DEF a
  <1>4. CASE v.bits # Bare
    <2>1. NormalizeExplicit(v, max) = Capped(a, v.bits, max)
      BY <1>4 DEF NormalizeExplicit, a
    <2>2. v.bits \in Nat
      BY <1>4
    <2> QED BY <1>1, <2>1, <2>2, CappedCovers DEF a
  <1> QED BY <1>3, <1>4

\* The client's subnet is a part of an address the client has sent in a place that is allowed.
LEMMA ClientSubnet ==
    ASSUME NEW h, WellFormed(h)
    PROVE  Anonymous(extractClientECS(h, cfg)) \/ OfClient(extractClientECS(h, cfg), h)
  <1> DEFINE max == cfg.sections.clientMax
             dns == ExtractClientFromDNS(h.option, max)
  <1>1. ASSUME NEW v \in {h.param, h.header}, ~Anonymous(NormalizeExplicit(v, max))
        PROVE  /\ v # Nothing
               /\ Covers(NormalizeExplicit(v, max), Unmap(v.addr))
               /\ NormalizeExplicit(v, max).bits <= MaskFor(Unmap(v.addr).fam, max)
    <2>1. v # Nothing /\ NormalizeExplicit(v, max) # InvalidPrefix
      BY <1>1 DEF NormalizeExplicit, Anonymous
    <2>2. v.addr \in Address /\ v.addr.fam # "text" /\ v.bits \in Nat \union {Bare}
      BY <1>1, <2>1 DEF WellFormed
    <2> QED BY <2>1, <2>2, ExplicitCovers
  <1>2. CASE dns # Nothing
    <2>1. h.option # Nothing /\ h.option.addr \in Address /\ h.option.addr.fam # "text" /\ h.option.bits \in Nat
      BY <1>2 DEF ExtractClientFromDNS, WellFormed
    <2> DEFINE a == Unmap(h.option.addr)
               e == Unmap(EcsAddr(h.option))
    <2>2. a.fam \in {"v4", "v6"} /\ e.fam = a.fam /\ (e = a \/ e = [a EXCEPT !.n = 0])
      BY <2>1, UnmapFamily DEF EcsAddr
    <2>3. extractClientECS(h, cfg) = Capped(e, h.option.bits, max)
      BY <1>2, <2>1 DEF extractClientECS, ExtractClientFromDNS
    <2> HIDE DEF a, e, max
    <2>4. CASE Capped(e, h.option.bits, max) # InvalidPrefix
      <3>1. /\ Covers(Capped(e, h.option.bits, max), e)
            /\ Capped(e, h.option.bits, max).bits <= MaskFor(a.fam, max)
        BY <2>1, <2>2, <2>4, CappedCovers
      <3> QED BY <2>1, <2>2, <2>3, <3>1, Zenon DEF OfClient, a, max
    <2> QED BY <2>3, <2>4 DEF Anonymous
  <1>3. CASE dns = Nothing
    <2>1. \/ extractClientECS(h, cfg) = Nothing
          \/ cfg.allowQueryECS /\ extractClientECS(h, cfg) = NormalizeExplicit(h.param, max)
          \/ cfg.allowHeaderECS /\ extractClientECS(h, cfg) = NormalizeExplicit(h.header, max)
      BY <1>3 DEF extractClientECS
    <2>2. CASE extractClientECS(h, cfg) = Nothing
      BY <2>2 DEF Anonymous
    <2>3. ASSUME NEW v \in {h.param, h.header}, extractClientECS(h, cfg) = NormalizeExplicit(v, max),
                 v \in (IF cfg.allowQueryECS THEN {h.param} ELSE {})
                       \union (IF cfg.allowHeaderECS THEN {h.header} ELSE {})
          PROVE  Anonymous(extractClientECS(h, cfg)) \/ OfClient(extractClientECS(h, cfg), h)
      BY <1>1, <2>3, Zenon DEF OfClient
    <2>4. CASE cfg.allowQueryECS /\ extractClientECS(h, cfg) = NormalizeExplicit(h.param, max)
      BY <2>3, <2>4
    <2>5. CASE cfg.allowHeaderECS /\ extractClientECS(h, cfg) = NormalizeExplicit(h.header, max)
      BY <2>3, <2>5
    <2> QED BY <2>1, <2>2, <2>4, <2>5
  <1> QED BY <1>2, <1>3

\* A mainland visitor's own address is used only where the route asks for it.
LEMMA SelectedIsPermitted ==
    ASSUME NEW r \in Reqs, WellFormed(http[r]), query[r] = QueryOf(http[r], cfg)
    PROVE  Permitted(query[r].ecs, r)
  <1> DEFINE h == http[r]
             source == cfg.routing[query[r].via].ecsSource
             selected == Select(source, VisitorECS(h, cfg), extractClientECS(h, cfg))
  <1>1. query[r].via = pickRouteForVisitor(h) /\ query[r].ecs = SelectedECS(h, cfg)
    BY DEF QueryOf
  <1>2. \/ query[r].ecs = selected
        \/ query[r].ecs = VisitorECS(h, cfg) /\ ~isMainlandChinaRequest(h)
    BY <1>1 DEF SelectedECS
  <1>3. \/ source = "visitor" /\ selected = VisitorECS(h, cfg)
        \/ source = "client" /\ selected = extractClientECS(h, cfg)
        \/ selected = Nothing
    BY DEF Select
  <1>4. Anonymous(VisitorECS(h, cfg)) \/ OfVisitor(VisitorECS(h, cfg), h)
    BY VisitorSubnet
  <1>5. Anonymous(extractClientECS(h, cfg)) \/ OfClient(extractClientECS(h, cfg), h)
    BY ClientSubnet
  <1>6. \/ Anonymous(query[r].ecs)
        \/ (source = "visitor" \/ ~isMainlandChinaRequest(h)) /\ OfVisitor(query[r].ecs, h)
        \/ source = "client" /\ OfClient(query[r].ecs, h)
    <2> HIDE DEF source, selected, h
    <2>1. CASE query[r].ecs = VisitorECS(h, cfg) /\ ~isMainlandChinaRequest(h)
      BY <1>4, <2>1, Zenon
    <2>2. CASE query[r].ecs = selected
      <3>1. CASE source = "visitor" /\ selected = VisitorECS(h, cfg)
        BY <1>4, <2>2, <3>1, Zenon
      <3>2. CASE source = "client" /\ selected = extractClientECS(h, cfg)
        BY <1>5, <2>2, <3>2, Zenon
      <3>3. CASE selected = Nothing
        BY <2>2, <3>3 DEF Anonymous
      <3> QED BY <1>3, <3>1, <3>2, <3>3
    <2> QED BY <1>2, <2>1, <2>2
  <1> QED BY <1>6, Zenon DEF Permitted, Anonymous

\* The upstreams of a route of a configuration that was loaded exist.
LEMMA UpstreamsExist ==
    ASSUME NEW r \in Reqs, cfg \in Loaded(Files), query[r] = QueryOf(http[r], cfg)
    PROVE  Up!Configured(query[r].route) \subseteq DOMAIN cfg.upstreams
  <1> DEFINE via == pickRouteForVisitor(http[r])
  <1>1. via \in DOMAIN cfg.routing
    BY RoutesAssumption DEF pickRouteForVisitor
  <1>2. Validate(cfg)
    BY DEF Loaded
  <1>3. /\ query[r].route.primary = cfg.routing[via].primary
        /\ query[r].route.fallback = cfg.routing[via].fallback
    BY DEF QueryOf
  <1> HIDE DEF via
  <1> QED BY <1>1, <1>2, <1>3, NoUpstreamIsEmpty DEF Validate, Up!Configured

\* The query of a request is the one its handler made of it, and the upstream call goes where
\* the query says.
ServiceInv ==
    /\ AnswerInv
    /\ cfg \in Loaded(Files)
    /\ \A r \in Reqs : WellFormed(http[r]) /\ query[r] = QueryOf(http[r], cfg)
    /\ route = [r \in Reqs |-> query[r].route]

\* It stays so.
LEMMA StepKeepsServiceInv == ASSUME ServiceInv, [ServiceNext]_allVars PROVE ServiceInv'
  <1>1. [Next]_vars /\ UNCHANGED <<http, cfg>>
    BY DEF ServiceNext, allVars
  <1>2. AnswerInv'
    BY <1>1, StepKeepsAnswerInv DEF ServiceInv
  <1>3. UNCHANGED query
    BY <1>1, QueriesStay
  <1>4. UNCHANGED route
    <2>1. ASSUME NEW r \in Reqs, Up!Begin(r, query[r].route) PROVE UNCHANGED route
      BY <2>1 DEF Up!Begin, ServiceInv
    <2> QED
      BY <1>1, <2>1 DEF Next, Tick, ClientGone, ResolveUncached, Lookup, Register, RegisterAlways, Follow,
         WakeDone, WakeCancelled, UpstreamEnds, Publish, Unregister, Finish, vars, upVars,
         Up!Ends, Up!Finish, Up!Return
  <1>5. \A r \in Reqs : WellFormed(http[r])' /\ (query[r] = QueryOf(http[r], cfg))'
    <2>1. http' = http /\ cfg' = cfg
      BY <1>1
    <2>2. \A r \in Reqs : WellFormed(http[r]) /\ query[r] = QueryOf(http[r], cfg)
      BY DEF ServiceInv
    <2>3. TAKE r \in Reqs
    <2>4. http'[r] = http[r] /\ query'[r] = query[r]
      BY <1>3, <2>1
    <2> QED BY <2>1, <2>2, <2>4
  <1> QED BY <1>1, <1>2, <1>3, <1>4, <1>5 DEF ServiceInv

\* Whatever the requests, the configuration and the order of their steps: the subnet an answer
\* was fetched for is the client's own or nobody's, of no more bits than configured, a mainland
\* visitor's own only where the route asks for it, and the upstreams that are asked exist.
THEOREM OwnSubnetSent ==
    ASSUME NEW CONSTANT requests, \A f \in requests : \A r \in Reqs : WellFormed(f[r])
    PROVE  ServiceInit(requests) /\ [][ServiceNext]_allVars => []SubnetIsOwn
  <1>1. ServiceInit(requests) => ServiceInv
    BY InitAnswerInv DEF ServiceInit, ServiceInv, Init
  <1>2. ServiceInv /\ [ServiceNext]_allVars => ServiceInv'
    BY StepKeepsServiceInv
  <1>3. ServiceInv => SubnetIsOwn
    <2> SUFFICES ASSUME ServiceInv, NEW r \in Reqs
                 PROVE  /\ pc[r] = "resolve" =>
                              /\ Permitted(query[r].ecs, r)
                              /\ Up!Configured(route[r]) \subseteq DOMAIN cfg.upstreams
                        /\ reply[r] # None /\ reply[r].status # "ERROR" =>
                              Permitted(reply[r].answer.query.ecs, r)
      BY DEF SubnetIsOwn
    <2>1. Permitted(query[r].ecs, r)
      BY SelectedIsPermitted DEF ServiceInv
    <2>2. Up!Configured(route[r]) \subseteq DOMAIN cfg.upstreams
      BY UpstreamsExist DEF ServiceInv
    <2>3. reply[r] # None /\ reply[r].status # "ERROR" => reply[r].answer.query.ecs = query[r].ecs
      BY DEF ServiceInv, AnswerInv, RepliesFor, IsFor, KeyOf, dnsCacheKey
    <2> QED BY <2>1, <2>2, <2>3
  <1> QED BY <1>1, <1>2, <1>3, PTL
=============================================================================
