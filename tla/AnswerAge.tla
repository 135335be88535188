------------------------------ MODULE AnswerAge ------------------------------
(***************************************************************************)
(* How old an answer gets.  The service derives a TTL from the records of  *)
(* a response, keeps the response for it and, for answers, for a while     *)
(* longer in case of errors (internal/server/server.go with                *)
(* internal/cache).  A HIT or STALE reply carries a Cache-Control derived  *)
(* from the same records again, which the edge cache and the client obey.  *)
(* One key is modelled, over time; Cache has what the store does with many.*)
(*                                                                         *)
(* Every request of a flight stores its result with a time.Now() of its    *)
(* own, so a slow one overwrites what later flights have stored.  How slow *)
(* one may be the code does not say: MaxLag bounds it.                     *)
(***************************************************************************)
EXTENDS Config

CONSTANTS
    Messages,   \* what an upstream may answer
    Sections,   \* the cache sections that configuration files have
    MaxClock,   \* bound on the clock
    MaxLag      \* bound on the time from the end of a flight to the Set of a request in it

ASSUME AgeAssumption == "cache" \in DOMAIN Defaults /\ MaxClock \in Nat /\ MaxLag \in Nat

\* The numbers of config.CacheConfig that are used here, in seconds.
CacheFields ==
    {"DefaultPositiveTTL", "MinPositiveTTL", "MaxPositiveTTL", "NegativeTTL", "StaleIfError",
     "ResponseBrowserMaxAge", "ResponseSharedMaxAge", "ResponseStaleWhileRevalidate",
     "ResponseStaleIfError"}

ASSUME SectionsAssumption == Sections \subseteq [CacheFields -> Int]

\* TTLs are unsigned.
ASSUME MessagesAssumption ==
    \A msg \in Messages :
        /\ msg.answers \subseteq Nat
        /\ \A soa \in msg.soas : soa.ttl \in Nat /\ soa.minimum \in Nat

VARIABLES
    clock,
    cfg,        \* config.CacheConfig
    late,       \* the results that requests have yet to store
    app,        \* the entry in the cache of the service, or None
    edge,       \* the copy at the edge, or None
    client      \* the copy a client has received in this step, or None

vars == <<clock, cfg, late, app, edge, client>>

None == [kind |-> "none"]

-----------------------------------------------------------------------------
(* Lifetimes.  A message is whether it parses, its rcode, the TTLs of its  *)
(* answers and the TTL and minimum of its SOA records.                     *)

Positive(S) == {t \in S : t > 0}
Least(S, default) == IF S = {} THEN default ELSE CHOOSE t \in S : \A u \in S : t <= u

SOATTL(soa) == Least(Positive({soa.ttl, soa.minimum}), 0)

negativeResponseTTL(msg, fallback) ==
    Least(Positive({fallback} \union {SOATTL(soa) : soa \in msg.soas}), fallback)

capTTL(ttl) == IF ttl > 0 /\ cfg.MaxPositiveTTL > 0 /\ ttl > cfg.MaxPositiveTTL
               THEN cfg.MaxPositiveTTL ELSE ttl

clampTTL(ttl) == IF ttl > 0 /\ cfg.MinPositiveTTL > 0 /\ ttl < cfg.MinPositiveTTL
                 THEN capTTL(cfg.MinPositiveTTL) ELSE capTTL(ttl)

IsAnswer(msg) == msg.parses /\ msg.rcode = "NOERROR" /\ msg.answers # {}

\* Variant: with a floor, as clampTTL has.
responseTTLFloored(msg) ==
    IF ~msg.parses THEN cfg.NegativeTTL
    ELSE IF ~IsAnswer(msg) THEN negativeResponseTTL(msg, cfg.NegativeTTL)
    ELSE clampTTL(Least(Positive(msg.answers), cfg.DefaultPositiveTTL))

responseTTL(msg) ==
    IF ~msg.parses THEN cfg.NegativeTTL
    ELSE IF ~IsAnswer(msg) THEN negativeResponseTTL(msg, cfg.NegativeTTL)
    ELSE IF Positive(msg.answers) = {} THEN clampTTL(cfg.DefaultPositiveTTL)
    ELSE capTTL(Least(Positive(msg.answers), 0))

\* Variant: for every response.
cacheStaleExtraAny(msg) == cfg.StaleIfError

cacheStaleExtra(msg) == IF IsAnswer(msg) THEN cfg.StaleIfError ELSE 0

effectiveResponseCacheTTL(ttl) ==
    IF cfg.ResponseBrowserMaxAge > 0 /\ ttl > cfg.ResponseBrowserMaxAge THEN cfg.ResponseBrowserMaxAge
    ELSE IF ttl <= 0 THEN cfg.DefaultPositiveTTL ELSE ttl

buildCacheControl(ttl) ==
    LET maxAge == effectiveResponseCacheTTL(ttl)
    IN  [maxAge |-> maxAge,
         sMaxAge |-> IF cfg.ResponseSharedMaxAge <= 0 THEN maxAge ELSE cfg.ResponseSharedMaxAge,
         whileRevalidate |-> cfg.ResponseStaleWhileRevalidate,
         ifError |-> cfg.ResponseStaleIfError]

-----------------------------------------------------------------------------
Init ==
    /\ clock = 0
    /\ cfg \in {WithDefaults(section, Defaults["cache"]) : section \in Sections}
    /\ late = {}
    /\ app = None /\ edge = None /\ client = None

Tick ==
    /\ clock < MaxClock
    /\ clock' = clock + 1 /\ client' = None
    /\ late' = {p \in late : clock - p.at < MaxLag}
    /\ UNCHANGED <<cfg, app, edge>>

\* The end of a flight.  It began with a look-up that found nothing; by now another may
\* have stored an entry.
Resolve ==
    /\ \E msg \in Messages : late' = late \union {[msg |-> msg, at |-> clock]}
    /\ client' = None
    /\ UNCHANGED <<clock, cfg, app, edge>>

\* Cache.Set refuses a ttl that is not positive.
Set(p, ttl, extra) ==
    IF ttl <= 0 THEN UNCHANGED app
    ELSE app' = [kind |-> "entry", msg |-> p.msg, at |-> p.at, expires |-> clock + ttl,
                 staleUntil |-> clock + ttl + IF extra > 0 THEN extra ELSE 0]

\* A miss, of the leader or of a follower; more followers may be on their way.  The reply
\* says no-store.
StoreResult ==
    /\ \E p \in late :
        /\ Set(p, responseTTL(p.msg), cacheStaleExtra(p.msg))
        /\ late' \in {late, late \ {p}}
    /\ client' = None
    /\ UNCHANGED <<clock, cfg, edge>>

Told(msg) == buildCacheControl(effectiveResponseCacheTTL(responseTTL(msg)))

Kept(copy, maxAge, viaEdge) ==
    [kind |-> "copy", msg |-> copy.msg, at |-> copy.at, from |-> clock, until |-> clock + maxAge,
     viaEdge |-> viaEdge]

\* A shareable reply goes to a client, and past the edge, which may keep it too.
Deliver ==
    /\ client' = Kept(app, Told(app.msg).maxAge, FALSE)
    /\ \/ UNCHANGED edge
       \/ edge' = [kind |-> "copy", msg |-> app.msg, at |-> app.at, from |-> clock, told |-> Told(app.msg)]

ReplyHit ==
    /\ app # None /\ clock <= app.expires
    /\ Deliver
    /\ UNCHANGED <<clock, cfg, late, app>>

\* Variant: GetStale without its check.
ReplyStaleForever ==
    /\ app # None /\ clock > app.expires
    /\ Deliver
    /\ UNCHANGED <<clock, cfg, late, app>>

\* The resolution failed (resolveWithInflight).
ReplyStale ==
    /\ app # None /\ clock > app.expires /\ clock <= app.staleUntil
    /\ Deliver
    /\ UNCHANGED <<clock, cfg, late, app>>

\* The entry is evicted for one of another key.
AppDrops == app # None /\ app' = None /\ client' = None /\ UNCHANGED <<clock, cfg, late, edge>>

Longer(i, j) == IF i < j THEN j ELSE i

\* How long the edge may serve its copy: for s-maxage, then stale while it revalidates or
\* while the service fails; a negative time is none.
EdgeLimit(told) == told.sMaxAge + Longer(0, Longer(told.whileRevalidate, told.ifError))

EdgeReply ==
    /\ edge # None /\ clock <= edge.from + EdgeLimit(edge.told)
    /\ client' = Kept(edge, edge.told.maxAge, TRUE)
    /\ UNCHANGED <<clock, cfg, late, app, edge>>

Next == Tick \/ Resolve \/ StoreResult \/ ReplyHit \/ ReplyStale \/ AppDrops \/ EdgeReply

Spec == Init /\ [][Next]_vars

-----------------------------------------------------------------------------
(* Properties *)

\* An entry is stored only with a positive lifetime, and copies are of what was resolved.
TypeOK ==
    /\ clock \in 0..MaxClock /\ \A p \in late : p.at \in 0..clock
    /\ app # None => app.msg \in Messages /\ app.at < app.expires /\ app.expires <= app.staleUntil
    /\ edge # None => edge.msg \in Messages /\ edge.at <= edge.from /\ edge.from <= clock
    /\ client # None => client.msg \in Messages /\ client.at <= client.from /\ client.from <= clock

\* What the records of a message allow: the positive TTLs of its answers, or of its SOAs.
Allowed(msg) == IF IsAnswer(msg) THEN Positive(msg.answers)
                ELSE Positive({soa.ttl : soa \in msg.soas} \union {soa.minimum : soa \in msg.soas})

\* No client is told to keep a copy for longer than any record in it allows, nor for longer
\* than response_browser_max_age, whichever way the copy came: effectiveResponseCacheTTL's
\* fallback to default_positive_ttl is never taken for what was stored, because that has a
\* positive lifetime (TypeOK).
ToldWithinRecords ==
    /\ TypeOK
    /\ client # None /\ client.msg.parses =>
        /\ \A t \in Allowed(client.msg) : client.until - client.from <= t
        /\ cfg.ResponseBrowserMaxAge > 0 => client.until - client.from <= cfg.ResponseBrowserMaxAge

\* Where negative_ttl is positive, the service never gives out a negative response, or one
\* that does not parse, once it is older than negative_ttl and the time a slow request took
\* to store it: stale-if-error is for answers.
Fresh(copy) == ~IsAnswer(copy.msg) /\ cfg.NegativeTTL > 0 => copy.from - copy.at <= cfg.NegativeTTL + MaxLag

NegativeLeavesFresh ==
    (edge # None => Fresh(edge)) /\ (client # None /\ ~client.viaEdge => Fresh(client))

\* How long the configuration lets the edge keep what may live for t.
EdgeStay(t) ==
    (IF cfg.ResponseSharedMaxAge > 0 THEN cfg.ResponseSharedMaxAge ELSE t)
        + Longer(0, Longer(cfg.ResponseStaleWhileRevalidate, cfg.ResponseStaleIfError))

\* A client never uses an answer for longer than twice what its records allow, plus
\* stale_if_error and the time until it was stored: every reply restarts max-age with the
\* whole TTL, and a slow request that stores an answer over a newer one gives it a whole
\* lifetime again.  If its copy came by way of the edge, add the time the edge may have kept
\* it: response_shared_max_age, or without one a TTL once more, and the longer of
\* response_stale_while_revalidate and response_stale_if_error.
UsedWithinTwiceTTL ==
    client # None /\ IsAnswer(client.msg) =>
        \A t \in Allowed(client.msg) :
            client.until - client.at <=
                2 * t + MaxLag + Longer(0, cfg.StaleIfError) + IF client.viaEdge THEN EdgeStay(t) ELSE 0
=============================================================================
