---------------------------- MODULE EdgeProofs ----------------------------
(* Theorems about what is kept outside of the service: AnswerAge, for any   *)
(* messages and settings, and CacheWorker, for any requests and queries.    *)
EXTENDS AnswerAge, CacheWorker, WellFoundedInduction, FiniteSetTheorems, TLAPS

CfgTyped == cfg \in [CacheFields -> Int]

\* How long errors may stretch an entry, and by how much an entry outlives what was resolved.
Stretch(msg) == IF IsAnswer(msg) /\ cfg.StaleIfError > 0 THEN cfg.StaleIfError ELSE 0

Lifetime(msg) == MaxLag + responseTTL(msg)

LateInv == \A p \in late : p.msg \in Messages /\ p.at \in 0..clock /\ clock - p.at <= MaxLag

AppInv == app # None =>
    /\ app.msg \in Messages /\ responseTTL(app.msg) > 0
    /\ app.at \in 0..clock /\ app.expires \in Int /\ app.at < app.expires
    /\ app.expires <= app.at + Lifetime(app.msg)
    /\ app.staleUntil = app.expires + Stretch(app.msg)

\* What a copy at the edge or with a client is.
Copied(copy) ==
    /\ copy.msg \in Messages /\ responseTTL(copy.msg) > 0
    /\ copy.from \in 0..clock /\ copy.at \in 0..copy.from

InTime(copy) == copy.from <= copy.at + Lifetime(copy.msg) + Stretch(copy.msg)

StaysAtEdge(copy) ==
    copy.from <= copy.at + Lifetime(copy.msg) + Stretch(copy.msg) + EdgeLimit(Told(copy.msg))

EdgeInv == edge # None => Copied(edge) /\ InTime(edge) /\ edge.told = Told(edge.msg)

ClientInv == client # None =>
    /\ Copied(client) /\ IF client.viaEdge THEN StaysAtEdge(client) ELSE InTime(client)
    /\ client.until = client.from + Told(client.msg).maxAge

AgeInv == CfgTyped /\ clock \in 0..MaxClock /\ LateInv /\ AppInv /\ EdgeInv /\ ClientInv
-----------------------------------------------------------------------------
(* Lifetimes *)

\* A set of numbers has a least one.
LEMMA LeastNatural ==
    ASSUME NEW S, S \subseteq Nat, S # {}
    PROVE  \E m \in S : \A j \in S : m <= j
<1> DEFINE less == OpToRel(<, Nat)
<1>1. IsWellFoundedOn(less, Nat)
  BY NatLessThanWellFounded
<1>2. \A j, m \in Nat : j < m => <<j, m>> \in less
  BY DEF OpToRel
<1> HIDE DEF less
<1>3. PICK m \in S : \A j \in S : <<j, m>> \notin less
  BY <1>1, WFMin
<1>4. \A j \in S : ~(j < m)
  BY <1>2, <1>3, Zenon
<1>5. \A j \in S : j \in Nat /\ m \in Nat
    OBVIOUS
<1> QED BY <1>4, <1>5

\* Least is what it says, of numbers above zero.
LEMMA LeastIsLeast ==
    ASSUME NEW S \in SUBSET Int, NEW d
    PROVE  /\ Positive(S) = {} => Least(Positive(S), d) = d
           /\ Positive(S) # {} => /\ Least(Positive(S), d) \in Positive(S)
                                  /\ \A u \in Positive(S) : Least(Positive(S), d) <= u
<1>1. Positive(S) \subseteq Nat
  <2> SUFFICES ASSUME NEW t \in S, t > 0 PROVE t \in Nat
    BY DEF Positive
  <2>1. t \in Int
    OBVIOUS
  <2> QED
    BY <2>1
<1>2. Positive(S) # {} => \E t \in Positive(S) : \A u \in Positive(S) : t <= u
  BY <1>1, LeastNatural
<1> QED
  BY <1>2 DEF Least

LEMMA Capped ==
    ASSUME CfgTyped, NEW t \in Int
    PROVE  /\ capTTL(t) \in Int /\ capTTL(t) <= t /\ (t > 0 => capTTL(t) > 0)
           /\ clampTTL(t) \in Int
  BY DEF CfgTyped, CacheFields, capTTL, clampTTL

\* A lifetime is within what each record allows, and a negative one within negative_ttl.
LEMMA WithinRecords ==
    ASSUME CfgTyped, NEW msg \in Messages
    PROVE  /\ responseTTL(msg) \in Int
           /\ msg.parses => \A t \in Allowed(msg) : t \in Nat /\ responseTTL(msg) <= t
           /\ ~IsAnswer(msg) /\ cfg.NegativeTTL > 0 => responseTTL(msg) <= cfg.NegativeTTL
<1> DEFINE neg == cfg.NegativeTTL
           low == {SOATTL(soa) : soa \in msg.soas}
<1>1. neg \in Int /\ cfg.DefaultPositiveTTL \in Int
  BY DEF CfgTyped, CacheFields
<1>2. msg.answers \subseteq Int /\ \A soa \in msg.soas : soa.ttl \in Nat /\ soa.minimum \in Nat
  BY MessagesAssumption
<1>3. ASSUME NEW soa \in msg.soas
      PROVE  /\ SOATTL(soa) \in Nat
             /\ \A t \in Positive({soa.ttl, soa.minimum}) : 0 < SOATTL(soa) /\ SOATTL(soa) <= t
  <2>1. {soa.ttl, soa.minimum} \in SUBSET Int
    BY <1>2
  <2>2. Positive({soa.ttl, soa.minimum}) \subseteq Nat \ {0}
    BY <1>2 DEF Positive
  <2> QED
    BY <2>1, <2>2, LeastIsLeast DEF SOATTL
<1>4. {neg} \union low \in SUBSET Int
  <2>1. low \subseteq Nat
    BY <1>3
  <2> HIDE DEF low, neg
  <2> QED
    BY <1>1, <2>1
<1>5. /\ negativeResponseTTL(msg, neg) \in Int
      /\ \A u \in Positive({neg} \union low) : negativeResponseTTL(msg, neg) <= u
  BY <1>1, <1>4, LeastIsLeast DEF negativeResponseTTL, Positive
<1>6. CASE ~msg.parses
  BY <1>1, <1>6 DEF responseTTL, IsAnswer
<1>7. CASE msg.parses /\ ~IsAnswer(msg)
  <2>1. responseTTL(msg) = negativeResponseTTL(msg, neg)
    BY <1>7 DEF responseTTL
  <2>2. neg > 0 => neg \in Positive({neg} \union low)
    BY <1>1 DEF Positive
  <2>3. ASSUME NEW t \in Allowed(msg) PROVE t \in Nat /\ negativeResponseTTL(msg, neg) <= t
    <3>1. PICK soa \in msg.soas : t \in Positive({soa.ttl, soa.minimum})
      BY <1>7 DEF Allowed, Positive
    <3>2. t \in Nat /\ SOATTL(soa) \in Nat /\ 0 < SOATTL(soa) /\ SOATTL(soa) <= t
      BY <1>2, <1>3, <3>1 DEF Positive
    <3>3. SOATTL(soa) \in Positive({neg} \union low)
      BY <3>2 DEF Positive
    <3> QED
      BY <1>5, <3>2, <3>3
  <2> QED
    BY <1>5, <1>7, <2>1, <2>2, <2>3
<1>8. CASE IsAnswer(msg)
  <2>1. CASE Positive(msg.answers) = {}
    BY <1>1, <1>8, <2>1, Capped DEF responseTTL, Allowed, IsAnswer
  <2>2. CASE Positive(msg.answers) # {}
    <3> DEFINE least == Least(Positive(msg.answers), 0)
    <3>1. least \in Positive(msg.answers) /\ \A u \in Positive(msg.answers) : least <= u
      BY <1>2, <2>2, LeastIsLeast
    <3>2. Positive(msg.answers) \subseteq Nat
      BY <1>2, MessagesAssumption DEF Positive
    <3>3. responseTTL(msg) = capTTL(least)
      BY <1>8, <2>2 DEF responseTTL, IsAnswer
    <3> HIDE DEF least
    <3>4. capTTL(least) \in Int /\ capTTL(least) <= least
      BY <3>1, <3>2, Capped
    <3> QED
      BY <1>8, <3>1, <3>2, <3>3, <3>4 DEF Allowed
  <2> QED
    BY <2>1, <2>2
<1> QED
  BY <1>6, <1>7, <1>8 DEF IsAnswer

\* A reply is never told to be kept for longer than the lifetime, or than the browser's limit.
LEMMA ToldIsWithin ==
    ASSUME CfgTyped, NEW msg \in Messages, responseTTL(msg) > 0
    PROVE  /\ Told(msg).maxAge \in Nat /\ Told(msg).maxAge <= responseTTL(msg)
           /\ cfg.ResponseBrowserMaxAge > 0 => Told(msg).maxAge <= cfg.ResponseBrowserMaxAge
<1> DEFINE ttl == responseTTL(msg)
           once == effectiveResponseCacheTTL(ttl)
<1>1. ttl \in Int /\ ttl > 0
  BY WithinRecords
<1>2. cfg.ResponseBrowserMaxAge \in Int
  BY DEF CfgTyped, CacheFields
<1>3. Told(msg).maxAge = effectiveResponseCacheTTL(once)
  BY DEF Told, buildCacheControl
<1> HIDE DEF ttl
<1> QED
  BY <1>1, <1>2, <1>3 DEF effectiveResponseCacheTTL, ttl

\* The edge keeps its copy for as long as the configuration lets it.
LEMMA LimitIsTime ==
    ASSUME CfgTyped, NEW msg \in Messages, responseTTL(msg) > 0
    PROVE  /\ EdgeLimit(Told(msg)) \in Int
           /\ \A t \in Nat : responseTTL(msg) <= t =>
                  EdgeStay(t) \in Int /\ EdgeLimit(Told(msg)) <= EdgeStay(t)
<1> DEFINE maxAge == Told(msg).maxAge
           stale == Longer(0, Longer(cfg.ResponseStaleWhileRevalidate, cfg.ResponseStaleIfError))
           shared == cfg.ResponseSharedMaxAge
<1>1. maxAge \in Int /\ maxAge <= responseTTL(msg) /\ responseTTL(msg) \in Int
  BY ToldIsWithin, WithinRecords
<1>2. shared \in Int /\ stale \in Int
  BY DEF CfgTyped, CacheFields, Longer
<1>3. EdgeLimit(Told(msg)) = (IF shared <= 0 THEN maxAge ELSE shared) + stale
  BY DEF EdgeLimit, Told, buildCacheControl
<1>4. \A t : EdgeStay(t) = (IF shared > 0 THEN shared ELSE t) + stale
  BY DEF EdgeStay
<1> HIDE DEF maxAge, stale, shared
<1> QED
  BY <1>1, <1>2, <1>3, <1>4
-----------------------------------------------------------------------------
LEMMA SameArithmetic ==
    ASSUME UNCHANGED cfg
    PROVE  \A msg : /\ responseTTL(msg)' = responseTTL(msg) /\ Told(msg)' = Told(msg)
                    /\ Stretch(msg)' = Stretch(msg) /\ Lifetime(msg)' = Lifetime(msg)
<1>1. \A msg : responseTTL(msg)' = responseTTL(msg)
  BY DEF responseTTL, negativeResponseTTL, clampTTL, capTTL
<1>2. \A msg : Told(msg)' = Told(msg)
  BY <1>1 DEF Told, buildCacheControl, effectiveResponseCacheTTL
<1> QED
  BY <1>1, <1>2 DEF Stretch, Lifetime

LEMMA InitAgeInv == Init => AgeInv
<1> SUFFICES ASSUME Init PROVE AgeInv
  OBVIOUS
<1>1. CfgTyped
  BY AgeAssumption, DefaultsAssumption, SectionsAssumption DEF Init, CfgTyped, WithDefaults
<1> QED
  BY <1>1, AgeAssumption DEF Init, AgeInv, LateInv, AppInv, EdgeInv, ClientInv

\* Time passes, and what was kept stays.
LEMMA KeptInTime ==
    ASSUME AgeInv, UNCHANGED <<cfg, app, edge>>, clock' \in Int, clock <= clock',
           clock' \in 0..MaxClock
    PROVE  CfgTyped' /\ AppInv' /\ EdgeInv'
<1>1. clock \in Int
  BY AgeAssumption DEF AgeInv
<1>2. AppInv'
  BY <1>1, SameArithmetic DEF AgeInv, AppInv
<1>3. EdgeInv'
  BY <1>1, SameArithmetic DEF AgeInv, EdgeInv, Copied, InTime
<1> QED
  BY <1>2, <1>3 DEF AgeInv, CfgTyped

LEMMA TickKeeps == ASSUME AgeInv, Tick PROVE AgeInv'
<1>1. clock \in Int /\ MaxLag \in Int /\ MaxClock \in Int
  BY AgeAssumption DEF AgeInv
<1>2. clock' \in 0..MaxClock /\ clock <= clock'
  BY <1>1 DEF Tick, AgeInv
<1>3. LateInv'
  BY <1>1 DEF Tick, AgeInv, LateInv
<1> QED
  BY <1>1, <1>2, <1>3, KeptInTime DEF Tick, AgeInv, ClientInv

LEMMA ResolveKeeps == ASSUME AgeInv, Resolve PROVE AgeInv'
<1>1. clock \in 0..MaxClock /\ MaxLag \in Nat
  BY AgeAssumption DEF AgeInv
<1>2. LateInv'
  BY <1>1 DEF Resolve, AgeInv, LateInv
<1> QED
  BY <1>1, <1>2, KeptInTime DEF Resolve, AgeInv, ClientInv

LEMMA StoreKeeps == ASSUME AgeInv, StoreResult PROVE AgeInv'
<1>1. clock \in 0..MaxClock /\ clock \in Int /\ MaxLag \in Nat /\ UNCHANGED <<clock, cfg, edge>>
  BY AgeAssumption DEF StoreResult, AgeInv
<1>2. LateInv' /\ ClientInv'
  BY <1>1 DEF StoreResult, AgeInv, LateInv, ClientInv
<1>3. CfgTyped' /\ EdgeInv'
  BY <1>1, SameArithmetic DEF AgeInv, CfgTyped, EdgeInv, Copied, InTime
<1>4. AppInv'
  <2>1. PICK p \in late : Set(p, responseTTL(p.msg), cacheStaleExtra(p.msg))
    BY DEF StoreResult
  <2> DEFINE ttl == responseTTL(p.msg)
             extra == cacheStaleExtra(p.msg)
  <2>2. ttl \in Int /\ p.msg \in Messages /\ p.at \in 0..clock /\ clock - p.at <= MaxLag
    BY <2>1, WithinRecords DEF AgeInv, LateInv
  <2>3. CASE ttl <= 0
    BY <1>1, <2>1, <2>3, SameArithmetic DEF Set, AgeInv, AppInv
  <2>4. CASE ~(ttl <= 0)
    <3>1. Stretch(p.msg) = IF extra > 0 THEN extra ELSE 0
      BY DEF Stretch, cacheStaleExtra
    <3>2. Stretch(p.msg) \in Int
      BY DEF Stretch, AgeInv, CfgTyped, CacheFields
    <3>3. app' = [kind |-> "entry", msg |-> p.msg, at |-> p.at, expires |-> clock + ttl,
                  staleUntil |-> clock + ttl + Stretch(p.msg)]
      BY <2>1, <2>4, <3>1 DEF Set
    <3>4. /\ app'.msg = p.msg /\ app'.at = p.at /\ app'.expires = clock + ttl
          /\ app'.staleUntil = app'.expires + Stretch(p.msg)
      BY <3>3
    <3>5. Lifetime(p.msg) = MaxLag + ttl
      BY DEF Lifetime
    <3> HIDE DEF ttl
    <3>6. responseTTL(p.msg)' = ttl /\ Stretch(p.msg)' = Stretch(p.msg) /\ Lifetime(p.msg)' = MaxLag + ttl
      BY <1>1, <3>5, SameArithmetic DEF ttl
    <3>7. clock + ttl <= p.at + (MaxLag + ttl) /\ p.at < clock + ttl /\ clock + ttl \in Int /\ ttl > 0
      BY <1>1, <2>2, <2>4
    <3>8. responseTTL(app.msg)' = ttl /\ Stretch(app.msg)' = Stretch(p.msg) /\ Lifetime(app.msg)' = MaxLag + ttl
      BY <3>4, <3>6
    <3> QED
      BY <1>1, <2>2, <3>4, <3>7, <3>8 DEF AppInv
  <2> QED
    BY <2>3, <2>4
<1> QED
  BY <1>1, <1>2, <1>3, <1>4 DEF AgeInv

LEMMA DeliverKeeps ==
    ASSUME AgeInv, app # None, clock <= app.staleUntil, Deliver, UNCHANGED <<clock, cfg, late, app>>
    PROVE  AgeInv'
<1>1. clock \in 0..MaxClock /\ MaxLag \in Nat /\ MaxClock \in Nat
  BY AgeAssumption DEF AgeInv
<1>2. responseTTL(app.msg) \in Int /\ Stretch(app.msg) \in Int
  BY WithinRecords DEF AgeInv, AppInv, Stretch, CfgTyped, CacheFields
<1>3. /\ app.msg \in Messages /\ responseTTL(app.msg) > 0 /\ app.at \in 0..clock
      /\ clock <= app.at + Lifetime(app.msg) + Stretch(app.msg)
  BY <1>1, <1>2 DEF AgeInv, AppInv, Lifetime
<1>4. CfgTyped' /\ LateInv' /\ AppInv'
  BY SameArithmetic DEF AgeInv, CfgTyped, LateInv, AppInv
<1>5. EdgeInv'
  <2>1. CASE UNCHANGED edge
    BY <2>1, SameArithmetic DEF AgeInv, EdgeInv, Copied, InTime
  <2>2. CASE edge' = [kind |-> "copy", msg |-> app.msg, at |-> app.at, from |-> clock, told |-> Told(app.msg)]
    <3>1. edge'.msg = app.msg /\ edge'.at = app.at /\ edge'.from = clock /\ edge'.told = Told(app.msg)
      BY <2>2
    <3> QED
      BY <1>1, <1>3, <3>1, SameArithmetic DEF EdgeInv, Copied, InTime
  <2> QED
    BY <2>1, <2>2 DEF Deliver
<1>6. ClientInv'
  <2>1. /\ client'.msg = app.msg /\ client'.at = app.at /\ client'.from = clock
        /\ client'.until = clock + Told(app.msg).maxAge /\ client'.viaEdge = FALSE
    BY DEF Deliver, Kept
  <2> QED
    BY <1>1, <1>3, <2>1, SameArithmetic DEF ClientInv, Copied, InTime
<1> QED
  BY <1>1, <1>4, <1>5, <1>6 DEF AgeInv

LEMMA EdgeReplyKeeps == ASSUME AgeInv, EdgeReply PROVE AgeInv'
<1>1. clock \in 0..MaxClock /\ MaxClock \in Nat
  BY AgeAssumption DEF AgeInv
<1>2. CfgTyped' /\ LateInv' /\ AppInv' /\ EdgeInv'
  BY SameArithmetic DEF AgeInv, EdgeReply, CfgTyped, LateInv, AppInv, EdgeInv, Copied, InTime
<1>3. /\ client'.msg = edge.msg /\ client'.at = edge.at /\ client'.from = clock /\ client'.viaEdge = TRUE
      /\ client'.until = clock + Told(edge.msg).maxAge
  BY DEF EdgeReply, Kept, AgeInv, EdgeInv
<1>4. edge.msg \in Messages /\ responseTTL(edge.msg) > 0 /\ edge.at \in 0..clock
  BY <1>1 DEF EdgeReply, AgeInv, EdgeInv, Copied
<1>5. /\ responseTTL(client.msg)' = responseTTL(edge.msg) /\ Told(client.msg)' = Told(edge.msg)
      /\ Lifetime(client.msg)' = Lifetime(edge.msg) /\ Stretch(client.msg)' = Stretch(edge.msg)
  BY <1>3, SameArithmetic DEF EdgeReply
<1>6. StaysAtEdge(client)'
  <2> DEFINE stay == EdgeLimit(Told(edge.msg))
             life == Lifetime(edge.msg)
             more == Stretch(edge.msg)
  <2>1. /\ edge.at \in Int /\ edge.from \in Int /\ clock \in Int
        /\ clock <= edge.from + stay /\ edge.from <= edge.at + life + more
    BY <1>1 DEF EdgeReply, AgeInv, EdgeInv, Copied, InTime
  <2>2. CfgTyped
    BY DEF AgeInv
  <2>3. stay \in Int
    BY <1>4, <2>2, LimitIsTime
  <2>4. life \in Int /\ more \in Int
    BY <1>4, <2>2, WithinRecords, AgeAssumption DEF Lifetime, Stretch, CfgTyped, CacheFields
  <2>5. EdgeLimit(Told(client.msg))' = stay /\ Lifetime(client.msg)' = life /\ Stretch(client.msg)' = more
    BY <1>5 DEF EdgeLimit, Longer
  <2> HIDE DEF stay, life, more
  <2>6. clock <= edge.at + life + more + stay
    BY <2>1, <2>3, <2>4
  <2> QED
    BY <1>3, <2>5, <2>6 DEF StaysAtEdge
<1>7. ClientInv'
  <2>1. clock' = clock
    BY DEF EdgeReply
  <2> QED
    BY <1>1, <1>3, <1>4, <1>5, <1>6, <2>1 DEF ClientInv, Copied
<1> QED
  BY <1>1, <1>2, <1>7 DEF AgeInv, EdgeReply

LEMMA AgeInvHolds == Spec => []AgeInv
<1>1. AgeInv /\ [Next]_vars => AgeInv'
  <2> SUFFICES ASSUME AgeInv, [Next]_vars PROVE AgeInv'
    OBVIOUS
  <2>1. CASE UNCHANGED vars
    BY <2>1, SameArithmetic DEF vars, AgeInv, CfgTyped, LateInv, AppInv, EdgeInv, ClientInv, Copied,
                               InTime, StaysAtEdge
  <2>2. CASE AppDrops
    BY <2>2, SameArithmetic DEF AppDrops, AgeInv, CfgTyped, LateInv, AppInv, EdgeInv, ClientInv, Copied,
                               InTime, StaysAtEdge
  <2>3. CASE ReplyHit
    <3>1. clock <= app.staleUntil
      <4>1. clock \in Int /\ app.expires \in Int /\ Stretch(app.msg) \in Nat
        BY <2>3, AgeAssumption DEF ReplyHit, AgeInv, AppInv, Stretch, CfgTyped, CacheFields
      <4> QED
        BY <2>3, <4>1 DEF ReplyHit, AgeInv, AppInv
    <3> QED
      BY <2>3, <3>1, DeliverKeeps DEF ReplyHit
  <2>4. CASE ReplyStale
    BY <2>4, DeliverKeeps DEF ReplyStale
  <2> QED
    BY <2>1, <2>2, <2>3, <2>4, TickKeeps, ResolveKeeps, StoreKeeps, EdgeReplyKeeps DEF Next
<1> QED
  BY <1>1, InitAgeInv, PTL DEF Spec
-----------------------------------------------------------------------------
\* Whichever way a copy came, it is not kept for longer than any record in it allows.
THEOREM KeptWithinRecords == Spec => []ToldWithinRecords
<1>1. AgeInv => TypeOK
  BY WithinRecords DEF AgeInv, TypeOK, LateInv, AppInv, EdgeInv, ClientInv, Copied, Stretch, CfgTyped,
                        CacheFields
<1>2. AgeInv => ToldWithinRecords
  <2> SUFFICES ASSUME AgeInv, client # None
               PROVE  /\ client.msg.parses =>
                           \A t \in Allowed(client.msg) : client.until - client.from <= t
                      /\ cfg.ResponseBrowserMaxAge > 0 =>
                           client.until - client.from <= cfg.ResponseBrowserMaxAge
    BY <1>1 DEF ToldWithinRecords
  <2> DEFINE m == client.msg
             age == Told(m).maxAge
  <2>1. m \in Messages /\ responseTTL(m) > 0 /\ client.from \in Int /\ client.until = client.from + age
    BY DEF AgeInv, ClientInv, Copied
  <2>2. /\ age \in Nat /\ age <= responseTTL(m) /\ responseTTL(m) \in Int /\ cfg.ResponseBrowserMaxAge \in Int
        /\ cfg.ResponseBrowserMaxAge > 0 => age <= cfg.ResponseBrowserMaxAge
    BY <2>1, ToldIsWithin, WithinRecords DEF AgeInv, CfgTyped, CacheFields
  <2>3. m.parses => \A t \in Allowed(m) : t \in Nat /\ responseTTL(m) <= t
    BY <2>1, WithinRecords DEF AgeInv
  <2> HIDE DEF age
  <2> QED
    BY <2>1, <2>2, <2>3
<1> QED
  BY <1>2, AgeInvHolds, PTL

\* A negative response leaves the service before it is older than negative_ttl, if that is
\* positive, and the lag of a late store, errors or not.
THEOREM NegativeNotStale == Spec => []NegativeLeavesFresh
<1>1. ASSUME AgeInv, NEW copy, Copied(copy), InTime(copy) PROVE Fresh(copy)
  <2>1. /\ copy.msg \in Messages /\ responseTTL(copy.msg) \in Int
        /\ copy.from \in Int /\ copy.at \in Int /\ MaxLag \in Int
    BY <1>1, WithinRecords, AgeAssumption DEF AgeInv, Copied
  <2>2. ~IsAnswer(copy.msg) /\ cfg.NegativeTTL > 0 =>
           Stretch(copy.msg) = 0 /\ responseTTL(copy.msg) <= cfg.NegativeTTL /\ cfg.NegativeTTL \in Int
    BY <1>1, <2>1, WithinRecords DEF AgeInv, Stretch, CfgTyped, CacheFields
  <2> QED
    BY <1>1, <2>1, <2>2 DEF Fresh, InTime, Lifetime
<1>2. AgeInv => NegativeLeavesFresh
  BY <1>1 DEF NegativeLeavesFresh, AgeInv, EdgeInv, ClientInv
<1> QED
  BY <1>2, AgeInvHolds, PTL

\* No answer is used for longer than twice what its records allow, stale_if_error, the lag of
\* a late store and, if it came by way of the edge, the time the edge may keep it: for any
\* records and any cache section.
THEOREM UsedForTwiceAtMost == Spec => []UsedWithinTwiceTTL
<1>1. AgeInv => UsedWithinTwiceTTL
  <2> SUFFICES ASSUME AgeInv, client # None, IsAnswer(client.msg), NEW t \in Allowed(client.msg)
               PROVE  client.until - client.at <=
                        2 * t + MaxLag + Longer(0, cfg.StaleIfError)
                              + IF client.viaEdge THEN EdgeStay(t) ELSE 0
    BY DEF UsedWithinTwiceTTL
  <2> DEFINE m == client.msg
             age == Told(m).maxAge
             extra == Longer(0, cfg.StaleIfError)
             limit == EdgeLimit(Told(m))
             stay == EdgeStay(t)
  <2>1. /\ m \in Messages /\ responseTTL(m) > 0 /\ client.from \in Int /\ client.at \in Int
        /\ client.until = client.from + age
    BY DEF AgeInv, ClientInv, Copied
  <2>2. age \in Nat /\ age <= responseTTL(m) /\ responseTTL(m) \in Int /\ t \in Nat /\ responseTTL(m) <= t
    BY <2>1, ToldIsWithin, WithinRecords DEF AgeInv, IsAnswer
  <2>3. Stretch(m) = extra /\ extra \in Int /\ MaxLag \in Int
    BY AgeAssumption DEF Stretch, Longer, AgeInv, CfgTyped, CacheFields
  <2>4. limit \in Int /\ stay \in Int /\ limit <= stay
    BY <2>1, <2>2, LimitIsTime DEF AgeInv
  <2>5. IF client.viaEdge THEN client.from <= client.at + (MaxLag + responseTTL(m)) + extra + limit
                          ELSE client.from <= client.at + (MaxLag + responseTTL(m)) + extra
    BY <2>3 DEF AgeInv, ClientInv, InTime, StaysAtEdge, Lifetime
  <2> HIDE DEF age, extra, limit, stay
  <2>6. client.until - client.at <= 2 * t + MaxLag + extra + IF client.viaEdge THEN stay ELSE 0
    BY <2>1, <2>2, <2>3, <2>4, <2>5
  <2> QED
    BY <2>6 DEF extra, stay
<1> QED
  BY <1>1, AgeInvHolds, PTL
-----------------------------------------------------------------------------
(* The Worker at the edge, for any requests and queries *)

\* The edge, what was found there, the map, awaited fills and replies all are of the key
\* they are used for, and a fill is of the request that made it.
SameKey ==
    /\ \A k \in DOMAIN edgeCache : KeyOf(edgeCache[k].query) = k
    /\ \A k \in DOMAIN inflight : KeyOf(query[inflight[k]]) = k
    /\ \A r \in Reqs :
         /\ KeyOf(query[on[r]]) = KeyOf(query[r])
         /\ seen[r] # Nothing => KeyOf(seen[r].query) = KeyOf(query[r]) /\ seen[r].shared
         /\ result[r] \in Answers =>
              result[r].query = query[r] /\ result[r].by = r /\ result[r].id = NoID
         /\ reply[r] \in Answers => KeyOf(reply[r].query) = KeyOf(query[r]) /\ reply[r].id = r

\* A request fills at most once, and what that came to stays.
FillsOnce ==
    \A r \in Reqs :
        /\ pc[r] \in {"idle", "match", "matched", "wait"} => result[r] = Nothing
        /\ pc[r] = "fill" => result[r] = Pending
        /\ pc[r] = "gone" => result[r] \in {Nothing, Pending}
        /\ r \in putting => result[r] \in Answers

\* A fill that had ended when a request came is none that it awaits.
EndedBefore ==
    \A r \in Reqs :
        /\ \A p \in ended[r] : result[p] \notin {Nothing, Pending}
        /\ r \notin ended[r]
        /\ pc[r] = "idle" => reply[r] = Nothing
        /\ pc[r] = "wait" => on[r] \notin ended[r]

UnsharedFor(k) == \E p \in Reqs : KeyOf(query[p]) = k /\ result[p] = Unshared

\* Fills that are not in the map run only after one of their key that could not be shared.
FillersListed ==
    \A k \in Keys :
        UnsharedFor(k) \/ \A r \in FillersOf(k) : k \in DOMAIN inflight /\ inflight[k] = r

WorkerInv ==
    /\ WorkerTypeOK /\ SameKey /\ FillsOnce /\ EndedBefore
    /\ EntryIsRunning /\ FillersListed /\ NoStoreIsFresh
-----------------------------------------------------------------------------
(* Answers and keys *)

LEMMA AnswersAreRecords ==
    Answers =
        [kind : {"answer"}, query : Queries, id : Reqs \union {NoID}, by : Reqs, shared : BOOLEAN]
<1> DEFINE R ==
             [kind : {"answer"}, query : Queries, id : Reqs \union {NoID}, by : Reqs, shared : BOOLEAN]
<1>1. ASSUME NEW a \in R PROVE a \in Answers
  <2>1. a = Answer(a.query, a.id, a.by, a.shared)
    BY DEF Answer
  <2>2. a.query \in Queries /\ a.id \in Reqs \union {NoID} /\ a.by \in Reqs /\ a.shared \in BOOLEAN
    OBVIOUS
  <2> QED
    BY <2>1, <2>2 DEF Answers
<1>2. ASSUME NEW a \in Answers PROVE a \in R
  BY DEF Answers, Answer
<1> QED
  BY <1>1, <1>2

\* What is no answer is not taken for one, and the request ID is all that a copy differs in.
LEMMA AnswerFacts ==
    /\ Nothing \notin Answers /\ Pending \notin Answers
    /\ Failed \notin Answers /\ Unshared \notin Answers
    /\ Nothing # Pending /\ Nothing # Failed /\ Nothing # Unshared
    /\ Pending # Failed /\ Pending # Unshared /\ Failed # Unshared
    /\ Nothing.kind # "answer" /\ Pending.kind # "answer"
    /\ Failed.kind # "answer" /\ Unshared.kind # "answer"
    /\ \A a \in Answers :
         /\ a.kind = "answer" /\ a.query \in Queries /\ a.by \in Reqs /\ a.shared \in BOOLEAN
         /\ \A r \in Reqs : LET c == responseWithRequestID(a, r)
                           IN  /\ c \in Answers /\ c.id = r /\ c.query = a.query
                               /\ c.by = a.by /\ c.shared = a.shared
<1>1. /\ Nothing.kind # "answer" /\ Pending.kind # "answer"
      /\ Failed.kind # "answer" /\ Unshared.kind # "answer"
      /\ Nothing # Pending /\ Nothing # Failed /\ Nothing # Unshared
      /\ Pending # Failed /\ Pending # Unshared /\ Failed # Unshared
  BY DEF Nothing, Pending, Failed, Unshared
<1>2. \A a \in Answers :
        a.kind = "answer" /\ a.query \in Queries /\ a.by \in Reqs /\ a.shared \in BOOLEAN
  BY AnswersAreRecords
<1>3. \A a \in Answers, r \in Reqs :
        LET c == responseWithRequestID(a, r)
        IN  c \in Answers /\ c.id = r /\ c.query = a.query /\ c.by = a.by /\ c.shared = a.shared
  BY AnswersAreRecords DEF responseWithRequestID
<1> QED
  BY <1>1, <1>2, <1>3

LEMMA NewAnswer ==
    ASSUME NEW q \in Queries, NEW r \in Reqs, NEW s \in BOOLEAN
    PROVE  /\ Answer(q, NoID, r, s) \in Answers /\ Answer(q, NoID, r, s).query = q
           /\ Answer(q, NoID, r, s).id = NoID /\ Answer(q, NoID, r, s).by = r
  BY DEF Answers, Answer

\* Two queries have the same key only if they ask the same of the same resolver, from the same
\* country if it is the public one.
LEMMA KeyTellsApart ==
    ASSUME NEW a \in Queries, NEW q \in Queries, KeyOf(a) = KeyOf(q)
    PROVE  /\ a.name = q.name /\ a.dnssec = q.dnssec /\ a.ecs = q.ecs /\ a.resolver = q.resolver
           /\ q.resolver = Public => a.country = q.country
<1>1. DOMAIN a = {"resolver", "country", "ecs", "dnssec", "name"} /\ DOMAIN q = DOMAIN a
  BY QueriesAssumption
<1>2. \A x \in {a, q} : /\ KeyOf(x).name = x.name /\ KeyOf(x).dnssec = x.dnssec
                        /\ KeyOf(x).ecs = x.ecs
                        /\ KeyOf(x).resolver = x.resolver
                        /\ x.resolver = Public => KeyOf(x) = x
  BY <1>1 DEF KeyOf
<1> QED
  BY <1>2
-----------------------------------------------------------------------------
LEMMA InitWorkerInv == WorkerInit => WorkerInv
<1> SUFFICES ASSUME WorkerInit PROVE WorkerInv
  OBVIOUS
<1>1. WorkerTypeOK
  BY DEF WorkerInit, WorkerTypeOK
<1>2. SameKey /\ FillsOnce /\ EndedBefore /\ EntryIsRunning /\ NoStoreIsFresh
  BY AnswerFacts DEF WorkerInit, SameKey, FillsOnce, EndedBefore, EntryIsRunning, NoStoreIsFresh
<1>3. FillersListed
  BY DEF WorkerInit, FillersListed, FillersOf
<1> QED
  BY <1>1, <1>2, <1>3 DEF WorkerInv

\* A step that starts no fill and ends none leaves the map and the fills that run in agreement.
LEMMA SameFills ==
    ASSUME WorkerInv, UNCHANGED <<inflight, query, result>>,
           \A r \in Reqs : pc'[r] = "fill" => pc[r] = "fill",
           \A r \in Reqs : pc[r] = "fill" => pc'[r] \in {"fill", "gone"},
           \A r \in Reqs : pc[r] = "gone" => pc'[r] = "gone"
    PROVE  EntryIsRunning' /\ FillersListed'
<1>1. EntryIsRunning'
  BY DEF WorkerInv, WorkerTypeOK, EntryIsRunning
<1>2. \A k : FillersOf(k)' \subseteq FillersOf(k)
  BY DEF FillersOf
<1>3. \A k : UnsharedFor(k)' = UnsharedFor(k)
  BY DEF UnsharedFor
<1> QED
  BY <1>1, <1>2, <1>3 DEF WorkerInv, FillersListed

LEMMA ArriveKeeps == ASSUME WorkerInv, NEW r \in Reqs, Arrive(r) PROVE WorkerInv'
<1> USE DEF WorkerInv, Arrive, Goto
<1>1. WorkerTypeOK'
  BY DEF WorkerTypeOK
<1>2. SameKey' /\ FillsOnce' /\ NoStoreIsFresh'
  BY AnswerFacts DEF WorkerTypeOK, SameKey, FillsOnce, NoStoreIsFresh, EndedBefore
<1>3. EndedBefore'
  BY DEF WorkerTypeOK, EndedBefore, FillsOnce
<1>4. EntryIsRunning' /\ FillersListed'
  BY SameFills DEF WorkerTypeOK
<1> QED
  BY <1>1, <1>2, <1>3, <1>4

LEMMA MatchKeeps == ASSUME WorkerInv, NEW r \in Reqs, Match(r) PROVE WorkerInv'
<1> USE DEF WorkerInv, Match, Goto
<1>1. WorkerTypeOK'
  BY DEF WorkerTypeOK
<1>2. SameKey'
  <2>1. seen'[r] # Nothing => KeyOf(seen'[r].query) = KeyOf(query[r]) /\ seen'[r].shared
    BY DEF WorkerTypeOK, SameKey
  <2>2. \A q \in Reqs \ {r} : seen'[q] = seen[q]
    BY DEF WorkerTypeOK
  <2> QED
    BY <2>1, <2>2 DEF SameKey
<1>3. FillsOnce' /\ EndedBefore' /\ NoStoreIsFresh'
  BY DEF WorkerTypeOK, FillsOnce, EndedBefore, NoStoreIsFresh
<1>4. EntryIsRunning' /\ FillersListed'
  BY SameFills DEF WorkerTypeOK
<1> QED
  BY <1>1, <1>2, <1>3, <1>4

\* A reply is fit to be given: a copy of an answer of the key, which is not one that says
\* no-store and was there before the request.
LEMMA RespondKeeps ==
    ASSUME WorkerInv, NEW r \in Reqs, pc[r] \in {"matched", "wait"}, NEW a \in Answers,
           KeyOf(a.query) = KeyOf(query[r]), a.shared \/ a.by \notin ended[r],
           Respond(r, responseWithRequestID(a, r)),
           UNCHANGED <<edgeCache, inflight, query, seen, on, result, putting, ended>>,
           pc[r] = "matched" => result[r] = Nothing
    PROVE  WorkerInv'
<1> USE DEF WorkerInv, Respond, Goto
<1> DEFINE c == responseWithRequestID(a, r)
<1>1. c \in Answers /\ c.id = r /\ c.query = a.query /\ c.by = a.by /\ c.shared = a.shared
  BY AnswerFacts
<1> HIDE DEF c
<1>2. reply' = [reply EXCEPT ![r] = c] /\ pc' = [pc EXCEPT ![r] = "done"]
  BY DEF c
<1>3. WorkerTypeOK'
  BY <1>1, <1>2 DEF WorkerTypeOK
<1>4. SameKey'
  BY <1>1, <1>2 DEF WorkerTypeOK, SameKey
<1>5. FillsOnce' /\ EndedBefore'
  BY <1>2 DEF WorkerTypeOK, FillsOnce, EndedBefore
<1>6. NoStoreIsFresh'
  BY <1>1, <1>2 DEF WorkerTypeOK, NoStoreIsFresh
<1>7. EntryIsRunning' /\ FillersListed'
  BY <1>2, SameFills DEF WorkerTypeOK
<1> QED
  BY <1>3, <1>4, <1>5, <1>6, <1>7

LEMMA HitKeeps == ASSUME WorkerInv, NEW r \in Reqs, Hit(r) PROVE WorkerInv'
<1>1. seen[r] \in Answers /\ KeyOf(seen[r].query) = KeyOf(query[r]) /\ seen[r].shared
  BY DEF WorkerInv, WorkerTypeOK, SameKey, Hit
<1> QED
  BY <1>1, RespondKeeps DEF Hit, WorkerInv, FillsOnce

\* A request starts its fill, without another in the map or after one that was not shared.
LEMMA StartFillKeeps ==
    ASSUME WorkerInv, NEW r \in Reqs, pc[r] \in {"matched", "wait"}, StartFill(r),
           KeyOf(query[r]) \notin DOMAIN inflight \/ UnsharedFor(KeyOf(query[r])),
           UNCHANGED <<edgeCache, query, seen, on, putting, reply, ended>>
    PROVE  WorkerInv'
<1> USE DEF WorkerInv, Goto
<1> DEFINE k == KeyOf(query[r])
<1>1. /\ result' = [result EXCEPT ![r] = Pending] /\ pc' = [pc EXCEPT ![r] = "fill"]
      /\ inflight' = [j \in DOMAIN inflight \union {k} |-> IF j = k THEN r ELSE inflight[j]]
  BY DEF StartFill
<1>2. k \in Keys /\ result[r] = Nothing
  BY DEF WorkerTypeOK, Keys, FillsOnce
<1>3. \A p \in Reqs : result'[p] \in Answers => result'[p] = result[p] /\ result[p] \in Answers
  BY <1>1, AnswerFacts DEF WorkerTypeOK
<1>4. WorkerTypeOK'
  BY <1>1, <1>2 DEF WorkerTypeOK
<1>5. SameKey'
  BY <1>1, <1>3 DEF WorkerTypeOK, SameKey
<1>6. FillsOnce'
  BY <1>1, <1>2, AnswerFacts DEF WorkerTypeOK, FillsOnce
<1>7. EndedBefore' /\ NoStoreIsFresh'
  BY <1>1, <1>2 DEF WorkerTypeOK, EndedBefore, NoStoreIsFresh
<1>8. EntryIsRunning'
  BY <1>1 DEF WorkerTypeOK, EntryIsRunning
<1>9. FillersListed'
  <2>1. \A j \in Keys : UnsharedFor(j) => UnsharedFor(j)'
    <3> SUFFICES ASSUME NEW p \in Reqs, result[p] = Unshared PROVE result'[p] = Unshared
      BY DEF UnsharedFor
    <3> QED
      BY <1>1, <1>2, AnswerFacts DEF WorkerTypeOK
  <2>2. ASSUME NEW j \in Keys, j # k PROVE FillersOf(j)' = FillersOf(j)
    BY <1>1, <2>2 DEF FillersOf, WorkerTypeOK
  <2>3. k \notin DOMAIN inflight => UnsharedFor(k) \/ FillersOf(k)' = {r}
    BY <1>1, <1>2 DEF FillersListed, FillersOf, WorkerTypeOK
  <2> QED
    BY <1>1, <2>1, <2>2, <2>3 DEF FillersListed
<1> QED
  BY <1>4, <1>5, <1>6, <1>7, <1>8, <1>9

LEMMA MissKeeps == ASSUME WorkerInv, NEW r \in Reqs, Miss(r) PROVE WorkerInv'
<1> DEFINE k == KeyOf(query[r])
<1>1. CASE k \in DOMAIN inflight /\ on' = [on EXCEPT ![r] = inflight[k]] /\ Goto(r, "wait")
           /\ UNCHANGED <<inflight, result>>
  <2> USE <1>1 DEF WorkerInv, Miss, Goto
  <2>1. inflight[k] \in Reqs /\ KeyOf(query[inflight[k]]) = k
    BY DEF WorkerTypeOK, SameKey
  <2>2. result[inflight[k]] \in {Nothing, Pending}
    BY <2>1 DEF EntryIsRunning, FillsOnce
  <2>3. WorkerTypeOK'
    BY <2>1 DEF WorkerTypeOK
  <2>4. SameKey'
    BY <2>1 DEF WorkerTypeOK, SameKey
  <2>5. FillsOnce' /\ NoStoreIsFresh'
    BY DEF WorkerTypeOK, FillsOnce, NoStoreIsFresh
  <2>6. EndedBefore'
    BY <2>1, <2>2 DEF WorkerTypeOK, EndedBefore
  <2>7. EntryIsRunning' /\ FillersListed'
    BY SameFills DEF WorkerTypeOK
  <2> QED
    BY <2>3, <2>4, <2>5, <2>6, <2>7
<1>2. CASE k \notin DOMAIN inflight /\ StartFill(r) /\ UNCHANGED on
  BY <1>2, StartFillKeeps DEF Miss
<1> QED
  BY <1>1, <1>2 DEF Miss

LEMMA WokenKeeps == ASSUME WorkerInv, NEW r \in Reqs, Woken(r) PROVE WorkerInv'
<1> DEFINE filled == result[on[r]]
<1>1. /\ pc[r] = "wait" /\ on[r] \in Reqs /\ KeyOf(query[on[r]]) = KeyOf(query[r])
      /\ UNCHANGED <<edgeCache, query, seen, on, putting, ended>>
  BY DEF Woken, WorkerInv, WorkerTypeOK, SameKey
<1>2. CASE /\ filled.kind = "answer" /\ Respond(r, responseWithRequestID(filled, r))
           /\ UNCHANGED <<inflight, result>>
  <2>1. filled \in Answers
    <3>1. filled \in Answers \union {Nothing, Pending, Failed, Unshared}
      BY <1>1 DEF WorkerInv, WorkerTypeOK
    <3> HIDE DEF filled
    <3> QED
      BY <1>2, <3>1, AnswerFacts, Zenon
  <2>2. KeyOf(filled.query) = KeyOf(query[r]) /\ filled.by \notin ended[r]
    BY <1>1, <2>1 DEF WorkerInv, SameKey, EndedBefore
  <2> QED
    BY <1>1, <1>2, <2>1, <2>2, RespondKeeps
<1>3. CASE filled = Unshared /\ StartFill(r) /\ UNCHANGED reply
  BY <1>1, <1>3, StartFillKeeps DEF UnsharedFor
<1>4. CASE Goto(r, "failed") /\ UNCHANGED <<inflight, result, reply>>
  <2> USE <1>1, <1>4 DEF WorkerInv, Goto
  <2>1. WorkerTypeOK'
    BY DEF WorkerTypeOK
  <2>2. SameKey' /\ FillsOnce' /\ EndedBefore' /\ NoStoreIsFresh'
    BY DEF WorkerTypeOK, SameKey, FillsOnce, EndedBefore, NoStoreIsFresh
  <2>3. EntryIsRunning' /\ FillersListed'
    BY SameFills DEF WorkerTypeOK
  <2> QED
    BY <2>1, <2>2, <2>3
<1> QED
  BY <1>2, <1>3, <1>4 DEF Woken

\* A fill ends with v, and its entry goes, whoever's that is by now.
LEMMA FillEndsKeeps ==
    ASSUME WorkerInv, NEW r \in Reqs, pc[r] = "fill",
           NEW v \in Answers \union {Failed, Unshared},
           result' = [result EXCEPT ![r] = v], LeaveInflight(r),
           NEW place \in {"done", "failed"}, pc' = [pc EXCEPT ![r] = place],
           UNCHANGED <<edgeCache, query, seen, on, ended>>,
           v \in Answers => v.query = query[r] /\ v.by = r /\ v.id = NoID,
           \/ UNCHANGED reply
           \/ /\ \E w \in Answers \union {Unshared} :
                   /\ reply' = [reply EXCEPT ![r] = w]
                   /\ w \in Answers => KeyOf(w.query) = KeyOf(query[r]) /\ w.id = r /\ w.by = r,
           \/ UNCHANGED putting
           \/ v \in Answers /\ putting' = putting \union {r}
    PROVE  WorkerInv'
<1> USE DEF WorkerInv
<1> DEFINE k == KeyOf(query[r])
<1>1. inflight' = [j \in DOMAIN inflight \ {k} |-> inflight[j]]
  BY DEF LeaveInflight
<1>2. result[r] = Pending /\ v \notin {Nothing, Pending} /\ k \in Keys
  BY AnswerFacts DEF WorkerTypeOK, Keys, FillsOnce
<1>3. WorkerTypeOK'
  BY <1>1 DEF WorkerTypeOK
<1>4. SameKey'
  <2>1. \A j \in DOMAIN inflight' : KeyOf(query'[inflight'[j]]) = j
    BY <1>1 DEF SameKey
  <2>2. result'[r] = v /\ \A q \in Reqs \ {r} : result'[q] = result[q] /\ reply'[q] = reply[q]
    BY DEF WorkerTypeOK
  <2>3. reply'[r] \in Answers => KeyOf(reply'[r].query) = KeyOf(query[r]) /\ reply'[r].id = r
    BY DEF WorkerTypeOK, SameKey
  <2> QED
    BY <2>1, <2>2, <2>3 DEF SameKey
<1>5. FillsOnce'
  BY <1>2, AnswerFacts DEF WorkerTypeOK, FillsOnce
<1>6. EndedBefore'
  BY <1>2 DEF WorkerTypeOK, EndedBefore
<1>7. NoStoreIsFresh'
  <2>1. reply'[r] = reply[r] \/ reply'[r] = Unshared \/ reply'[r].by = r
    BY DEF WorkerTypeOK
  <2>2. r \notin ended[r] /\ Unshared.kind # "answer"
    BY AnswerFacts DEF EndedBefore
  <2>3. \A q \in Reqs \ {r} : reply'[q] = reply[q]
    BY DEF WorkerTypeOK
  <2> QED
    BY <2>1, <2>2, <2>3 DEF NoStoreIsFresh
<1>8. EntryIsRunning'
  <2>1. \A j \in DOMAIN inflight' : inflight'[j] # r /\ inflight'[j] = inflight[j] /\ j \in DOMAIN inflight
    BY <1>1 DEF SameKey
  <2> QED
    BY <2>1 DEF WorkerTypeOK, EntryIsRunning
<1>9. FillersListed'
  <2>1. \A j \in Keys : UnsharedFor(j) => UnsharedFor(j)'
    <3> SUFFICES ASSUME NEW p \in Reqs, result[p] = Unshared PROVE result'[p] = Unshared
      BY DEF UnsharedFor
    <3> QED
      BY <1>2, AnswerFacts DEF WorkerTypeOK
  <2>2. ASSUME NEW j \in Keys, j # k PROVE FillersOf(j)' = FillersOf(j)
    BY <2>2 DEF FillersOf, WorkerTypeOK
  <2>3. FillersOf(k)' = FillersOf(k) \ {r} /\ r \in FillersOf(k)
    BY DEF FillersOf, WorkerTypeOK
  <2> QED
    BY <1>1, <1>2, <2>1, <2>2, <2>3 DEF FillersListed
<1> QED
  BY <1>3, <1>4, <1>5, <1>6, <1>7, <1>8, <1>9

LEMMA FillEndKeeps == ASSUME WorkerInv, NEW r \in Reqs, FillEnds(r) PROVE WorkerInv'
<1>1. CASE FillFails(r)
  BY <1>1, FillEndsKeeps, AnswerFacts DEF FillFails, Goto
<1>2. CASE FillUnshared(r)
  BY <1>2, FillEndsKeeps, AnswerFacts DEF FillUnshared, Respond, Goto
<1>3. CASE FillAnswered(r)
  <2>1. PICK s \in BOOLEAN :
           /\ result' = [result EXCEPT ![r] = Answer(query[r], NoID, r, s)]
           /\ Respond(r, responseWithRequestID(Answer(query[r], NoID, r, s), r))
    BY <1>3 DEF FillAnswered
  <2> DEFINE v == Answer(query[r], NoID, r, s)
             w == responseWithRequestID(v, r)
  <2>2. v \in Answers /\ v.query = query[r] /\ v.id = NoID /\ v.by = r
    BY NewAnswer DEF WorkerInv, WorkerTypeOK
  <2>3. w \in Answers /\ KeyOf(w.query) = KeyOf(query[r]) /\ w.id = r /\ w.by = r
    BY <2>2, AnswerFacts
  <2> HIDE DEF v, w
  <2>4. result' = [result EXCEPT ![r] = v] /\ reply' = [reply EXCEPT ![r] = w]
    BY <2>1 DEF v, w, Respond
  <2> QED
    BY <1>3, <2>2, <2>3, <2>4, FillEndsKeeps DEF FillAnswered, Respond, Goto
<1> QED
  BY <1>1, <1>2, <1>3 DEF FillEnds

LEMMA PutEndsKeeps == ASSUME WorkerInv, NEW r \in Reqs, PutEnds(r) PROVE WorkerInv'
<1> USE DEF WorkerInv, PutEnds
<1>1. result[r] \in Answers /\ result[r].query = query[r] /\ result[r].id = NoID
  BY DEF FillsOnce, SameKey
<1>2. KeyOf(query[r]) \in Keys
  BY DEF WorkerTypeOK, Keys
<1>3. WorkerTypeOK'
  BY <1>1, <1>2 DEF WorkerTypeOK
<1>4. SameKey'
  BY <1>1 DEF WorkerTypeOK, SameKey
<1>5. FillsOnce' /\ EndedBefore' /\ NoStoreIsFresh'
  BY DEF FillsOnce, EndedBefore, NoStoreIsFresh
<1>6. EntryIsRunning' /\ FillersListed'
  BY SameFills
<1> QED
  BY <1>3, <1>4, <1>5, <1>6

LEMMA EdgeDropsKeeps == ASSUME WorkerInv, NEW k \in Keys, EdgeDrops(k) PROVE WorkerInv'
<1> USE DEF WorkerInv, EdgeDrops
<1>1. WorkerTypeOK' /\ SameKey'
  BY DEF WorkerTypeOK, SameKey
<1>2. FillsOnce' /\ EndedBefore' /\ NoStoreIsFresh'
  BY DEF FillsOnce, EndedBefore, NoStoreIsFresh
<1>3. EntryIsRunning' /\ FillersListed'
  BY SameFills
<1> QED
  BY <1>1, <1>2, <1>3

LEMMA CancelledKeeps == ASSUME WorkerInv, NEW r \in Reqs, Cancelled(r) PROVE WorkerInv'
<1> USE DEF WorkerInv, Cancelled, Goto
<1>1. WorkerTypeOK'
  BY DEF WorkerTypeOK
<1>2. SameKey' /\ NoStoreIsFresh'
  BY DEF SameKey, NoStoreIsFresh
<1>3. FillsOnce' /\ EndedBefore'
  BY DEF WorkerTypeOK, FillsOnce, EndedBefore
<1>4. EntryIsRunning' /\ FillersListed'
  BY SameFills DEF WorkerTypeOK
<1> QED
  BY <1>1, <1>2, <1>3, <1>4

LEMMA WorkerInvHolds == WorkerSpec => []WorkerInv
<1>1. WorkerInv /\ UNCHANGED workerVars => WorkerInv'
  <2> SUFFICES ASSUME WorkerInv, UNCHANGED workerVars PROVE WorkerInv'
    OBVIOUS
  <2> USE DEF workerVars, WorkerInv
  <2>1. WorkerTypeOK' /\ SameKey' /\ FillsOnce' /\ EndedBefore' /\ NoStoreIsFresh'
    BY DEF WorkerTypeOK, SameKey, FillsOnce, EndedBefore, NoStoreIsFresh
  <2>2. EntryIsRunning' /\ FillersListed'
    BY SameFills
  <2> QED
    BY <2>1, <2>2
<1>2. WorkerInv /\ [WorkerNext]_workerVars => WorkerInv'
  BY <1>1, ArriveKeeps, MatchKeeps, HitKeeps, MissKeeps, WokenKeeps, FillEndKeeps, PutEndsKeeps,
     EdgeDropsKeeps, CancelledKeeps DEF WorkerNext
<1> QED
  BY <1>2, InitWorkerInv, PTL DEF WorkerSpec
-----------------------------------------------------------------------------
\* Whether a reply comes from the edge, from another request's fill or from the origin, it has
\* the ID of its request and answers its question.
THEOREM RepliesFit == WorkerSpec => []ReplyFits
<1>1. WorkerInv => ReplyFits
  <2> SUFFICES ASSUME WorkerInv, NEW r \in Reqs, reply[r].kind = "answer"
               PROVE  /\ reply[r].id = r /\ reply[r].query \in Queries /\ query[r] \in Queries
                      /\ KeyOf(reply[r].query) = KeyOf(query[r])
    BY KeyTellsApart DEF ReplyFits
  <2>1. reply[r] \in Answers
    BY AnswerFacts DEF WorkerInv, WorkerTypeOK
  <2> QED
    BY <2>1, AnswerFacts DEF WorkerInv, WorkerTypeOK, SameKey
<1> QED
  BY <1>1, WorkerInvHolds, PTL

\* Coalescing replays no answer that says no-store: who gets it came before its fetch ended.
THEOREM NoStoreIsNotReplayed == WorkerSpec => []NoStoreIsFresh
  BY WorkerInvHolds, PTL DEF WorkerInv

\* Edge cache, inflight map and requests agree between any two awaits, and fills of one key do
\* not pile up before one of them could not be shared.
THEOREM MapAgrees == WorkerSpec => []InflightConsistent
<1>1. WorkerInv => OneFillUnlessUnshared
  <2> SUFFICES ASSUME WorkerInv, NEW k \in Keys, ~UnsharedFor(k)
               PROVE  ~(Cardinality(FillersOf(k)) > 1)
    BY DEF OneFillUnlessUnshared, UnsharedFor
  <2>1. FillersOf(k) = {} \/ FillersOf(k) = {inflight[k]}
    BY DEF WorkerInv, FillersListed
  <2>2. Cardinality(FillersOf(k)) \in {0, 1}
    BY <2>1, FS_EmptySet, FS_Singleton
  <2> QED
    BY <2>2
<1>2. WorkerInv => InflightConsistent
  BY <1>1 DEF WorkerInv, InflightConsistent
<1> QED
  BY <1>2, WorkerInvHolds, PTL
=============================================================================
