------------------------------ MODULE QueryPath ------------------------------
(***************************************************************************)
(* The resolution half of handleDoHQuery (internal/server/server.go, from  *)
(* the cache key on) with resolveWithInflight: any number of request       *)
(* goroutines over one answer cache, one table of in-flight calls and the  *)
(* upstream resolver.                                                      *)
(*                                                                         *)
(*   cache      the module Cache, one action per method;                   *)
(*   upstream   the promise UpstreamCall, which Upstream implements;       *)
(*   inflight   the map under inflightMu, cache key to open call.  A call  *)
(*              is named after the request that registered it.             *)
(*                                                                         *)
(* A goroutine is interrupted only where it blocks or takes a lock: between *)
(* the lookup and the join, while it waits or resolves, between closing    *)
(* the call and unregistering it, and before the final cache call.  The    *)
(* time.Now() argument of a cache call is the clock of that call.          *)
(*                                                                         *)
(* What comes before is DoHQuery (ECS and route of a request),             *)
(* PersonalPolicy and CNLearning; here a request brings a query that has   *)
(* passed them.                                                            *)
(***************************************************************************)
EXTENDS Integers, Sequences, FiniteSets

CONSTANTS
    Reqs,         \* request goroutines
    Queries,      \* [ns, via, route, ecs, name]: resolver namespace, name of the route
                  \* taken and the route, selected ECS, question (case-folded name, type,
                  \* class, flags)
    Unsendable,   \* the selected ECS that ApplyToMessage cannot put into a message
    NoUpstream,   \* the empty fallback_upstream
    MaxItems,     \* capacity of the cache
    PositiveTTL,  \* responseTTL of a positive answer
    NegativeTTL,  \* responseTTL of a negative answer
    StaleIfError, \* how long a positive answer may be served after its ttl
    MaxClock      \* bound on the clock

ASSUME TTLAssumption ==
    PositiveTTL \in Nat \ {0} /\ NegativeTTL \in Nat \ {0} /\ StaleIfError \in Nat
ASSUME ClockAssumption == MaxClock \in Nat
ASSUME RoomAssumption == MaxItems \in Nat \ {0}   \* cache.New replaces any other

VARIABLES
    caching,            \* cfg.Cache.Enabled; without it a.cache is nil
    clock,
    query,              \* per request, its query
    pc,                 \* per request, where its goroutine is
    gone,               \* per request, its context is done: the client has closed the
                        \* connection, or the handler has returned
    inflight,           \* App.inflight
    call,               \* per call: None, Open (done not closed) or its outcome
    waits,              \* per request, the call it waits for
    got,                \* per request, the outcome it came back with
    reply,              \* per request, what was written to its client
    items, lru, out,    \* the cache
    phase, route, result, \* the upstream calls
    goodUntil           \* history: per key, staleUntil of its last Set

cacheVars == <<items, lru, out>>
upVars    == <<phase, route, result>>
vars == <<caching, clock, query, pc, gone, inflight, call, waits, got, reply,
          cacheVars, upVars, goodUntil>>

None   == [none |-> TRUE]
Open   == [open |-> TRUE]
Failed == [ok |-> FALSE]

ASSUME NoneIsNoRequest == None \notin Reqs

\* Variants, here and below, are plausible mistakes in the definition that follows them:
\* the properties are tested against each.  This one forgets the ECS.
KeyWithoutECS(q) == <<q.ns, q.via, q.route.primary, q.name>>

dnsCacheKey(q) == <<q.ns, q.via, q.route.primary, q.ecs, q.name>>

KeyOf(r) == dnsCacheKey(query[r])

Keys   == {dnsCacheKey(q) : q \in Queries}
Kinds  == {"positive", "negative"}

\* An answer: the query it was fetched for, the DNS ID it carries (that of the
\* request r, written r) and its kind.
Answers == [query : Queries, id : Reqs, kind : Kinds]

KeepsID(a, r) == a   \* variant

responseWithQueryID(a, r) == [a EXCEPT !.id = r]

responseTTL(a) == IF a.kind = "positive" THEN PositiveTTL ELSE NegativeTTL

cacheStaleExtra(a) == IF a.kind = "positive" THEN StaleIfError ELSE 0

Store == INSTANCE Cache WITH
    Bodies <- Answers, Times <- 0..MaxClock,
    TTLs <- {PositiveTTL, NegativeTTL}, Extras <- {0, StaleIfError}

Up == INSTANCE UpstreamCall WITH
    Calls <- Reqs, Routes <- {q.route : q \in Queries}

Init ==
    /\ caching \in BOOLEAN
    /\ clock = 0
    /\ query \in [Reqs -> Queries]
    /\ pc = [r \in Reqs |-> "idle"]
    /\ gone = [r \in Reqs |-> FALSE]
    /\ inflight = [k \in {} |-> None]
    /\ call = [r \in Reqs |-> None]
    /\ waits = [r \in Reqs |-> None]
    /\ got = [r \in Reqs |-> None]
    /\ reply = [r \in Reqs |-> None]
    /\ Store!Init
    /\ phase = [r \in Reqs |-> "idle"]
    /\ route = [r \in Reqs |-> query[r].route]
    /\ result = [r \in Reqs |-> None]
    /\ goodUntil = [k \in Keys |-> -1]

Goto(r, place) == pc' = [pc EXCEPT ![r] = place]

-----------------------------------------------------------------------------
(* The environment *)

Tick ==
    /\ clock < MaxClock
    /\ clock' = clock + 1
    /\ UNCHANGED <<caching, query, pc, gone, inflight, call, waits, got, reply,
                   cacheVars, upVars, goodUntil>>

\* The context is consulted in resolveWithInflight and resolveUpstream only.
ClientGone(r) ==
    /\ pc[r] \in {"join", "wait", "resolve"}
    /\ ~gone[r]
    /\ gone' = [gone EXCEPT ![r] = TRUE]
    /\ UNCHANGED <<caching, clock, query, pc, inflight, call, waits, got, reply,
                   cacheVars, upVars, goodUntil>>

-----------------------------------------------------------------------------
(* handleDoHQuery, up to resolveWithInflight *)

Reply(r, status, a) == reply' = [reply EXCEPT ![r] = [status |-> status, answer |-> a]]

ResolveUncached(r) ==
    /\ pc[r] = "idle"
    /\ ~caching
    /\ Up!Begin(r, query[r].route)
    /\ Goto(r, "resolve")
    /\ UNCHANGED <<caching, clock, query, gone, inflight, call, waits, got, reply,
                   cacheVars, goodUntil>>

Lookup(r) ==
    /\ pc[r] = "idle"
    /\ caching
    /\ Store!GetFresh(KeyOf(r), clock)
    /\ IF out'.found
       THEN Reply(r, "HIT", responseWithQueryID(out'.result, r)) /\ Goto(r, "done")
       ELSE UNCHANGED reply /\ Goto(r, "join")
    /\ UNCHANGED <<caching, clock, query, gone, inflight, call, waits, got,
                   upVars, goodUntil>>

-----------------------------------------------------------------------------
(* resolveWithInflight *)

\* The registration itself; as a variant of Register it does not test first.
RegisterAlways(r) ==
    /\ pc[r] = "join"
    /\ inflight' = [k \in DOMAIN inflight \union {KeyOf(r)} |->
                        IF k = KeyOf(r) THEN r ELSE inflight[k]]
    /\ call' = [call EXCEPT ![r] = Open]
    /\ Up!Begin(r, query[r].route)
    /\ Goto(r, "resolve")
    /\ UNCHANGED <<caching, clock, query, gone, waits, got, reply, cacheVars, goodUntil>>

\* No call for the key is registered: this request becomes its leader.
Register(r) == KeyOf(r) \notin DOMAIN inflight /\ RegisterAlways(r)

\* A call is registered: wait for it.
Follow(r) ==
    /\ pc[r] = "join"
    /\ KeyOf(r) \in DOMAIN inflight
    /\ waits' = [waits EXCEPT ![r] = inflight[KeyOf(r)]]
    /\ Goto(r, "wait")
    /\ UNCHANGED <<caching, clock, query, gone, inflight, call, got, reply,
                   cacheVars, upVars, goodUntil>>

\* case <-call.done
WakeDone(r) ==
    /\ pc[r] = "wait"
    /\ call[waits[r]] # Open
    /\ got' = [got EXCEPT ![r] = call[waits[r]]]
    /\ Goto(r, "finish")
    /\ UNCHANGED <<caching, clock, query, gone, inflight, call, waits, reply,
                   cacheVars, upVars, goodUntil>>

\* case <-ctx.Done(), which select may pick even when the call is done
WakeCancelled(r) ==
    /\ pc[r] = "wait"
    /\ gone[r]
    /\ got' = [got EXCEPT ![r] = Failed]
    /\ Goto(r, "finish")
    /\ UNCHANGED <<caching, clock, query, gone, inflight, call, waits, reply,
                   cacheVars, upVars, goodUntil>>

\* resolveUpstream ends, with an answer or an error; with an error when neither attempt has
\* a payload to send.
UpstreamEnds(r) ==
    /\ pc[r] = "resolve"
    /\ Up!Ends(r)
    /\ result'[r].ok => query[r].ecs \notin Unsendable
    /\ UNCHANGED <<caching, clock, query, pc, gone, inflight, call, waits, got, reply,
                   cacheVars, goodUntil>>

\* The possible outcomes of a call whose resolveUpstream returned.
Outcomes(r) ==
    IF result[r].ok
    THEN {[ok |-> TRUE, answer |-> [query |-> query[r], id |-> r, kind |-> kind]] : kind \in Kinds}
    ELSE {Failed}

\* Variant: the call is closed only when there is an answer.
PublishAnswerOnly(r) ==
    /\ pc[r] = "resolve"
    /\ Up!Return(r)
    /\ \E o \in Outcomes(r) :
        /\ got' = [got EXCEPT ![r] = o]
        /\ call' = IF caching /\ o.ok THEN [call EXCEPT ![r] = o] ELSE call
    /\ Goto(r, IF caching THEN "unregister" ELSE "finish")
    /\ UNCHANGED <<caching, clock, query, gone, inflight, waits, reply, cacheVars, goodUntil>>

\* call.result, call.err = result, err; close(call.done).  Followers read the
\* fields only after the close, so the three are one step.
Publish(r) ==
    /\ pc[r] = "resolve"
    /\ Up!Return(r)
    /\ \E o \in Outcomes(r) :
        /\ got' = [got EXCEPT ![r] = o]
        /\ call' = IF caching THEN [call EXCEPT ![r] = o] ELSE call
    /\ Goto(r, IF caching THEN "unregister" ELSE "finish")
    /\ UNCHANGED <<caching, clock, query, gone, inflight, waits, reply, cacheVars, goodUntil>>

\* Variant: an early return on errors skips the deletion.
UnregisterOnSuccess(r) ==
    /\ pc[r] = "unregister"
    /\ inflight' = IF got[r].ok THEN [k \in DOMAIN inflight \ {KeyOf(r)} |-> inflight[k]]
                                ELSE inflight
    /\ Goto(r, "finish")
    /\ UNCHANGED <<caching, clock, query, gone, call, waits, got, reply,
                   cacheVars, upVars, goodUntil>>

\* delete(a.inflight, cacheKey)
Unregister(r) ==
    /\ pc[r] = "unregister"
    /\ inflight' = [k \in DOMAIN inflight \ {KeyOf(r)} |-> inflight[k]]
    /\ Goto(r, "finish")
    /\ UNCHANGED <<caching, clock, query, gone, call, waits, got, reply,
                   cacheVars, upVars, goodUntil>>

-----------------------------------------------------------------------------
(* handleDoHQuery, after resolveWithInflight *)

\* Every request that got an answer stores it, leader and followers alike, and
\* writes it as it is: the DNS ID stays that of the leader.
AnswerMiss(r) ==
    /\ got[r].ok
    /\ LET a == got[r].answer
           until == clock + responseTTL(a) + cacheStaleExtra(a)
       IN  /\ IF caching
              THEN /\ Store!Set(KeyOf(r), a, responseTTL(a), cacheStaleExtra(a), clock)
                   /\ goodUntil' = [goodUntil EXCEPT ![KeyOf(r)] = until]
              ELSE UNCHANGED <<cacheVars, goodUntil>>
           /\ Reply(r, "MISS", a)

AnswerStale(r) ==
    /\ ~got[r].ok
    /\ caching
    /\ Store!GetStale(KeyOf(r), clock)
    /\ IF out'.found
       THEN Reply(r, "STALE", responseWithQueryID(out'.result, r))
       ELSE Reply(r, "ERROR", None)
    /\ UNCHANGED goodUntil

\* Variant: a request that waited for another one gives up at once.
AnswerStaleLeader(r) ==
    IF waits[r] = None
    THEN AnswerStale(r)
    ELSE /\ ~got[r].ok /\ caching
         /\ Reply(r, "ERROR", None)
         /\ UNCHANGED <<cacheVars, goodUntil>>

AnswerError(r) ==
    /\ ~got[r].ok
    /\ ~caching
    /\ Reply(r, "ERROR", None)
    /\ UNCHANGED <<cacheVars, goodUntil>>

FinishLeaderStale(r) ==
    /\ pc[r] = "finish"
    /\ AnswerMiss(r) \/ AnswerStaleLeader(r) \/ AnswerError(r)
    /\ gone' = [gone EXCEPT ![r] = TRUE]
    /\ Goto(r, "done")
    /\ UNCHANGED <<caching, clock, query, inflight, call, waits, got, upVars>>

Finish(r) ==
    /\ pc[r] = "finish"
    /\ AnswerMiss(r) \/ AnswerStale(r) \/ AnswerError(r)
    /\ gone' = [gone EXCEPT ![r] = TRUE]
    /\ Goto(r, "done")
    /\ UNCHANGED <<caching, clock, query, inflight, call, waits, got, upVars>>

-----------------------------------------------------------------------------
Next ==
    \/ Tick
    \/ \E r \in Reqs :
        \/ ClientGone(r)
        \/ ResolveUncached(r) \/ Lookup(r)
        \/ Register(r) \/ Follow(r)
        \/ WakeDone(r) \/ WakeCancelled(r)
        \/ UpstreamEnds(r) \/ Publish(r) \/ Unregister(r)
        \/ Finish(r)

Spec == Init /\ [][Next]_vars

(***************************************************************************)
(* A runnable goroutine runs, a waiter whose call is done runs, and an     *)
(* upstream call ends (what Upstream is checked to promise).  Nothing says *)
(* that a request arrives, that a client leaves or that time passes.       *)
(***************************************************************************)
Runs(r) ==
    \/ Register(r) \/ Follow(r) \/ WakeDone(r)
    \/ UpstreamEnds(r) \/ Publish(r) \/ Unregister(r)
    \/ Finish(r)

Fairness == \A r \in Reqs : WF_vars(Runs(r))

FairSpec == Spec /\ Fairness

-----------------------------------------------------------------------------
(* Properties *)

Outcome(o) == o = Failed \/ o \in [ok : {TRUE}, answer : Answers]

TypeOK ==
    /\ caching \in BOOLEAN
    /\ clock \in 0..MaxClock
    /\ query \in [Reqs -> Queries]
    /\ pc \in [Reqs -> {"idle", "join", "wait", "resolve", "unregister", "finish", "done"}]
    /\ gone \in [Reqs -> BOOLEAN]
    /\ DOMAIN inflight \subseteq Keys /\ \A k \in DOMAIN inflight : inflight[k] \in Reqs
    /\ DOMAIN call = Reqs /\ \A r \in Reqs : call[r] \in {None, Open} \/ Outcome(call[r])
    /\ waits \in [Reqs -> Reqs \union {None}]
    /\ DOMAIN got = Reqs /\ \A r \in Reqs : got[r] = None \/ Outcome(got[r])

\* Single flight: at any time at most one goroutine is resolving a given key
\* (resolveWithInflight tests and registers under one lock, and deletes its
\* entry only after it has resolved).
SingleFlight ==
    caching => \A r, s \in Reqs :
        pc[r] = "resolve" /\ pc[s] = "resolve" /\ KeyOf(r) = KeyOf(s) => r = s

\* An entry of inflight belongs to a request that is still going to delete it,
\* and such a request still owns its entry: no key is left behind for ever, and no
\* request deletes the entry of another one.
InflightOwned ==
    /\ \A k \in DOMAIN inflight :
        pc[inflight[k]] \in {"resolve", "unregister"} /\ KeyOf(inflight[k]) = k
    /\ caching => \A r \in Reqs : pc[r] \in {"resolve", "unregister"} =>
        KeyOf(r) \in DOMAIN inflight /\ inflight[KeyOf(r)] = r

\* No lost wake-up: the call a request waits for is for its own key, and is either
\* closed or still being resolved by its leader, also when the leader's client
\* is gone or its upstream failed.
NoOrphanWaiter ==
    \A r \in Reqs : pc[r] = "wait" =>
        /\ waits[r] \in Reqs \ {r}
        /\ KeyOf(waits[r]) = KeyOf(r)
        /\ call[waits[r]] = Open => pc[waits[r]] = "resolve"
        /\ call[waits[r]] # None

\* At most one goroutine resolves a key, and the inflight map, the calls and the goroutines
\* agree with each other between any two steps, whatever fails and whoever leaves.
FlightConsistent == TypeOK /\ SingleFlight /\ InflightOwned /\ NoOrphanWaiter

SameQuestion(q, p) ==
    q.ns = p.ns /\ q.ecs = p.ecs /\ q.name = p.name /\ q.via = p.via /\ q.route.primary = p.route.primary

\* Whatever path an answer took (upstream, another request's call, cache, stale
\* cache), it was fetched for the client's own question, resolver namespace, ECS
\* subnet and upstream: dnsCacheKey separates all that must be separated.
AnswersOwnQuestion ==
    \A r \in Reqs : reply[r] # None /\ reply[r].status # "ERROR" =>
        SameQuestion(reply[r].answer.query, query[r])

\* The DNS ID of a reply is the client's, however old the cached answer, unless
\* the request was coalesced with another one and answered with that one's bytes.
OwnIDUnlessCoalesced ==
    \A r \in Reqs : reply[r] # None /\ reply[r].status # "ERROR" =>
        reply[r].answer.id = r \/ (waits[r] # None /\ reply[r].status = "MISS")

\* What the tests say of equivalent queries that share an answer: each client
\* gets its own DNS ID (server_test.go:231).  It does not hold of a coalesced one.
RepliesCarryOwnID ==
    \A r \in Reqs : reply[r] # None /\ reply[r].status # "ERROR" => reply[r].answer.id = r

\* Optimistic cache (docs/REBUILD_2026_04.md:6): a request ends in a 502 only when
\* no answer for its key was stored that is still inside its stale window.  It
\* holds where the keys in use fit into the cache; GetFresh must not drop an
\* expired entry early, and followers of a failed call must look too.
NoNeedlessError ==
    [][\A r \in Reqs :
          reply'[r] # reply[r] /\ reply'[r].status = "ERROR" => clock > goodUntil[KeyOf(r)]]_vars

\* Every request that arrived is answered: nothing a leader, an upstream or a
\* client does leaves a goroutine waiting in resolveWithInflight.
EveryRequestAnswered == \A r \in Reqs : pc[r] # "idle" ~> pc[r] = "done"
=============================================================================
