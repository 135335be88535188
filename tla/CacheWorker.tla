----------------------------- MODULE CacheWorker -----------------------------
(***************************************************************************)
(* The Cloudflare Worker in front of the service                           *)
(* (deploy/cloudflare/dquery-doh-cache-worker.js): the edge cache and the  *)
(* map inflight of one isolate, shared by its concurrent requests.         *)
(*                                                                         *)
(* JavaScript runs from one await to the next without interruption, so     *)
(* that is one step here.  The promise of a fill is settled in the same    *)
(* step as the request that made it goes on: it was the first to await it. *)
(*                                                                         *)
(* The edge cache, the origin and the platform are external.  A request    *)
(* the Worker only forwards is left out, and so are headers and logging.   *)
(* A query has the fields that the key is made of; its ecs is the X-ECS    *)
(* header.  What else the origin looks at, the ecs parameter of the URL    *)
(* (cacheURL.search is emptied) and the client subnet option of the        *)
(* message, is not in the key, and no property here speaks of it.          *)
(***************************************************************************)
EXTENDS Integers, FiniteSets

CONSTANTS
    Reqs,       \* the requests of an isolate; each has an ID of its own
    Queries,    \* what may be asked for
    Public      \* the resolver of a query to the public path

ASSUME QueriesAssumption ==
    \A q \in Queries : DOMAIN q = {"resolver", "country", "ecs", "dnssec", "name"}

VARIABLES
    edgeCache,  \* caches.default: key -> answer
    inflight,   \* key -> the request whose fill it is
    pc,         \* per request, where it is
    query,      \* per request, what it asks
    seen,       \* per request, what cache.match found
    on,         \* per request that waits, whose fill it awaits
    result,     \* per request, what its fill came to
    putting,    \* requests whose cache.put is running
    reply,      \* per request, its reply
    ended       \* history: per request, the fills that had ended when it came

workerVars == <<edgeCache, inflight, pc, query, seen, on, result, putting, reply, ended>>

Nothing == [kind |-> "none"]
NoID == "zero"

\* An answer of the origin: the query and the ID it was made for, the request that fetched
\* it, and whether it may be shared or says no-store.
Answer(q, id, by, shared) ==
    [kind |-> "answer", query |-> q, id |-> id, by |-> by, shared |-> shared]

Pending  == [kind |-> "pending"]
Failed   == [kind |-> "failed"]
Unshared == [kind |-> "unshared"]   \* resolved, without a cacheResponse

\* Variant: no country for the public resolver.
KeyWithoutCountry(q) == [q EXCEPT !.country = "any"]

\* cacheURL: the country is a part of the key for the public path only.
KeyOf(q) == IF q.resolver = Public THEN q ELSE [q EXCEPT !.country = "any"]

Keys == {KeyOf(q) : q \in Queries}

\* responseWithRequestID
responseWithRequestID(answer, r) == [answer EXCEPT !.id = r]

-----------------------------------------------------------------------------
WorkerInit ==
    /\ edgeCache = [k \in {} |-> Nothing]
    /\ inflight = [k \in {} |-> Nothing]
    /\ pc = [r \in Reqs |-> "idle"]
    /\ query \in [Reqs -> Queries]
    /\ seen = [r \in Reqs |-> Nothing]
    /\ on = [r \in Reqs |-> r]
    /\ result = [r \in Reqs |-> Nothing]
    /\ putting = {}
    /\ reply = [r \in Reqs |-> Nothing]
    /\ ended = [r \in Reqs |-> {}]

Goto(r, place) == pc' = [pc EXCEPT ![r] = place]

Respond(r, answer) ==
    /\ reply' = [reply EXCEPT ![r] = answer]
    /\ Goto(r, "done")

\* handleRequest, to the call of cache.match
Arrive(r) ==
    /\ pc[r] = "idle"
    /\ ended' = [ended EXCEPT ![r] = {p \in Reqs : result[p] \notin {Nothing, Pending}}]
    /\ Goto(r, "match")
    /\ UNCHANGED <<edgeCache, inflight, query, seen, on, result, putting, reply>>

\* The edge looks the key up; its answer reaches the isolate later.
Match(r) ==
    LET k == KeyOf(query[r])
    IN  /\ pc[r] = "match"
        /\ seen' = [seen EXCEPT ![r] = IF k \in DOMAIN edgeCache THEN edgeCache[k] ELSE Nothing]
        /\ Goto(r, "matched")
        /\ UNCHANGED <<edgeCache, inflight, query, on, result, putting, reply, ended>>

Hit(r) ==
    /\ pc[r] = "matched" /\ seen[r] # Nothing
    /\ Respond(r, responseWithRequestID(seen[r], r))
    /\ UNCHANGED <<edgeCache, inflight, query, seen, on, result, putting, ended>>

\* Variant: the entry is made once the fetch has ended.
StartFillUnlisted(r) ==
    /\ result' = [result EXCEPT ![r] = Pending]
    /\ UNCHANGED inflight
    /\ Goto(r, "fill")

\* The call of fillCache, to the fetch it starts, and the entry in inflight, whatever is there.
StartFill(r) ==
    /\ result' = [result EXCEPT ![r] = Pending]
    /\ inflight' = [k \in DOMAIN inflight \union {KeyOf(query[r])} |->
                        IF k = KeyOf(query[r]) THEN r ELSE inflight[k]]
    /\ Goto(r, "fill")

Miss(r) ==
    LET k == KeyOf(query[r])
    IN  /\ pc[r] = "matched" /\ seen[r] = Nothing
        /\ \/ k \in DOMAIN inflight /\ on' = [on EXCEPT ![r] = inflight[k]] /\ Goto(r, "wait")
              /\ UNCHANGED <<inflight, result>>
           \/ k \notin DOMAIN inflight /\ StartFill(r) /\ UNCHANGED on
        /\ UNCHANGED <<edgeCache, query, seen, putting, reply, ended>>

\* The awaited fill has ended: its answer is cloned, or the request fills for itself without
\* looking at inflight again; if the fill has thrown, so does the await.
Woken(r) ==
    LET filled == result[on[r]]
    IN  /\ pc[r] = "wait"
        /\ \/ /\ filled.kind = "answer" /\ Respond(r, responseWithRequestID(filled, r))
              /\ UNCHANGED <<inflight, result>>
           \/ filled = Unshared /\ StartFill(r) /\ UNCHANGED reply
           \/ filled = Failed /\ Goto(r, "failed") /\ UNCHANGED <<inflight, result, reply>>
        /\ UNCHANGED <<edgeCache, query, seen, on, putting, ended>>

\* Variant: the entry goes only when the fill yields an answer.
LeaveInflightIfFilled(r) ==
    IF result'[r].kind = "answer"
    THEN inflight' = [k \in DOMAIN inflight \ {KeyOf(query[r])} |-> inflight[k]]
    ELSE UNCHANGED inflight

\* Variant: the entry goes only when the fill has thrown.
LeaveInflightIfFailed(r) ==
    IF result'[r] = Failed
    THEN inflight' = [k \in DOMAIN inflight \ {KeyOf(query[r])} |-> inflight[k]]
    ELSE UNCHANGED inflight

\* finally: whatever entry the key has now goes.
LeaveInflight(r) == inflight' = [k \in DOMAIN inflight \ {KeyOf(query[r])} |-> inflight[k]]

\* Variant: a promise made by hand, which a fetch that throws leaves pending.
FillFailsUnsettled(r) ==
    /\ pc[r] = "fill"
    /\ LeaveInflight(r)
    /\ Goto(r, "failed")
    /\ UNCHANGED <<edgeCache, query, seen, on, result, putting, reply, ended>>

\* The fetch, or the reading of its body, throws.
FillFails(r) ==
    /\ pc[r] = "fill"
    /\ result' = [result EXCEPT ![r] = Failed]
    /\ LeaveInflight(r)
    /\ Goto(r, "failed")
    /\ UNCHANGED <<edgeCache, query, seen, on, putting, reply, ended>>

\* Not isCacheableDNSResponse: the response of the origin goes to this request alone.
FillUnshared(r) ==
    /\ pc[r] = "fill"
    /\ result' = [result EXCEPT ![r] = Unshared]
    /\ LeaveInflight(r)
    /\ Respond(r, Unshared)
    /\ UNCHANGED <<edgeCache, query, seen, on, putting, ended>>

\* The answer is kept with ID 0, cache.put is started, and the client gets its own copy.
FillAnswered(r) ==
    /\ pc[r] = "fill"
    /\ \E shared \in BOOLEAN :
        LET filled == Answer(query[r], NoID, r, shared)
        IN  /\ result' = [result EXCEPT ![r] = filled]
            /\ Respond(r, responseWithRequestID(filled, r))
    /\ LeaveInflight(r)
    /\ putting' = putting \union {r}
    /\ UNCHANGED <<edgeCache, query, seen, on, ended>>

FillEnds(r) == FillFails(r) \/ FillUnshared(r) \/ FillAnswered(r)

\* cache.put ends: the edge keeps what may be shared; it may also keep nothing.
PutEnds(r) ==
    /\ r \in putting
    /\ putting' = putting \ {r}
    /\ \/ /\ result[r].shared
          /\ edgeCache' = [k \in DOMAIN edgeCache \union {KeyOf(query[r])} |->
                             IF k = KeyOf(query[r]) THEN result[r] ELSE edgeCache[k]]
       \/ UNCHANGED edgeCache
    /\ UNCHANGED <<inflight, pc, query, seen, on, result, reply, ended>>

\* The edge drops an entry, for its age or for room.
EdgeDrops(k) ==
    /\ k \in DOMAIN edgeCache
    /\ edgeCache' = [j \in DOMAIN edgeCache \ {k} |-> edgeCache[j]]
    /\ UNCHANGED <<inflight, pc, query, seen, on, result, putting, reply, ended>>

\* The client has gone and the platform runs nothing more of its request, not even finally.
Cancelled(r) ==
    /\ pc[r] \in {"match", "matched", "wait", "fill"}
    /\ Goto(r, "gone")
    /\ UNCHANGED <<edgeCache, inflight, query, seen, on, result, putting, reply, ended>>

WorkerNext ==
    \/ \E r \in Reqs : \/ Arrive(r) \/ Match(r) \/ Hit(r) \/ Miss(r) \/ Woken(r)
                       \/ FillEnds(r) \/ PutEnds(r) \/ Cancelled(r)
    \/ \E k \in Keys : EdgeDrops(k)

WorkerSpec == WorkerInit /\ [][WorkerNext]_workerVars

\* The event loop runs what is ready, the edge answers a look-up, and a fetch ends, by an
\* error if need be.
Fairness ==
    \A r \in Reqs : WF_workerVars(Match(r) \/ Hit(r) \/ Miss(r) \/ Woken(r) \/ FillEnds(r))

FairWorkerSpec == WorkerSpec /\ Fairness

-----------------------------------------------------------------------------
(* Properties *)

Answers == {Answer(q, id, r, shared) :
                q \in Queries, id \in Reqs \union {NoID}, r \in Reqs, shared \in BOOLEAN}

\* Types.  The edge holds only what may be shared, and what is kept for others has ID 0.
WorkerTypeOK ==
    /\ DOMAIN edgeCache \subseteq Keys /\ DOMAIN inflight \subseteq Keys
    /\ \A k \in DOMAIN edgeCache : edgeCache[k] \in Answers /\ edgeCache[k].shared /\ edgeCache[k].id = NoID
    /\ \A k \in DOMAIN inflight : inflight[k] \in Reqs
    /\ pc \in [Reqs -> {"idle", "match", "matched", "wait", "fill", "done", "failed", "gone"}]
    /\ query \in [Reqs -> Queries] /\ on \in [Reqs -> Reqs] /\ putting \subseteq Reqs
    /\ seen \in [Reqs -> Answers \union {Nothing}]
    /\ result \in [Reqs -> Answers \union {Nothing, Pending, Failed, Unshared}]
    /\ reply \in [Reqs -> Answers \union {Nothing, Unshared}]
    /\ ended \in [Reqs -> SUBSET Reqs]

\* A reply carries the ID of its request, and it was made for the same name, DNSSEC bit, ECS
\* header and resolver, and for the public resolver in the same country, whether it came from
\* the edge, from another request's fill or from the origin.
ReplyFits ==
    \A r \in Reqs : reply[r].kind = "answer" =>
        LET q == query[r]
            a == reply[r].query
        IN  /\ reply[r].id = r
            /\ a.name = q.name /\ a.dnssec = q.dnssec /\ a.ecs = q.ecs /\ a.resolver = q.resolver
            /\ q.resolver = Public => a.country = q.country

\* An answer that says no-store goes only to requests that were there before its fetch ended:
\* coalescing never replays it.
NoStoreIsFresh ==
    \A r \in Reqs : reply[r].kind = "answer" /\ ~reply[r].shared => reply[r].by \notin ended[r]

FillersOf(k) == {r \in Reqs : pc[r] = "fill" /\ KeyOf(query[r]) = k}

\* Two fills of one key run at the same time only after one of that key came to nothing that
\* can be shared: requests that awaited it then fill each for itself.
OneFillUnlessUnshared ==
    \A k \in Keys : Cardinality(FillersOf(k)) > 1 =>
        \E p \in Reqs : KeyOf(query[p]) = k /\ result[p] = Unshared

\* Requests start fills over and over each other, and each removes whatever entry the key has;
\* still an entry never outlives its fill, unless the platform dropped the request that runs it.
EntryIsRunning ==
    \A k \in DOMAIN inflight : pc[inflight[k]] \in {"fill", "gone"}

\* Edge cache, inflight map and requests agree with each other between any two awaits, and
\* the map keeps fills of one key from piling up.
InflightConsistent == WorkerTypeOK /\ EntryIsRunning /\ OneFillUnlessUnshared

\* Every request gets a reply or an error, unless its client goes or a request that was filling
\* the same key was dropped: who awaits that fill waits for ever.
Dropped(p) == pc[p] = "gone" /\ result[p] = Pending

EveryRequestEnds ==
    \A r \in Reqs : pc[r] = "match" ~>
        \/ pc[r] \in {"done", "failed", "gone"}
        \/ \E p \in Reqs : Dropped(p) /\ KeyOf(query[p]) = KeyOf(query[r])
=============================================================================
