------------------------------- MODULE Cache -------------------------------
(***************************************************************************)
(* internal/cache/cache.go: the bounded LRU answer cache of dqueryd.       *)
(*                                                                         *)
(* The Go structure keeps the same set of entries twice: a map from key to *)
(* list element, and a list of nodes whose front is the most recently used *)
(* one.  Every method holds Cache.mu from its first to its last access, so *)
(* one method is one action.  The caller reads the clock BEFORE it takes   *)
(* the lock: two calls may take effect in the opposite order of their      *)
(* times, hence "now" is any time and no clock variable orders the calls.  *)
(*                                                                         *)
(* Left out: the counters hits/misses/stales/evicted (read by handleReadyz *)
(* only) and the cloning of bodies (a body is a value here).               *)
(***************************************************************************)
EXTENDS Integers, Sequences, FiniteSets, SequencesExt

CONSTANTS
    Keys,       \* cache keys (SHA-256 of the question, route, ECS, namespace)
    Bodies,     \* cached payloads
    MaxItems,   \* capacity, after New has replaced a non-positive one by 1000
    Times,      \* instants the callers may pass as "now"
    TTLs,       \* ttl arguments of Set, zero and negative ones included
    Extras      \* staleExtra arguments of Set

None == [none |-> TRUE]   \* the (nil, false) result of a lookup

ASSUME CapacityAssumption == MaxItems \in Nat \ {0}
ASSUME TimeAssumption == Times \subseteq Int /\ TTLs \subseteq Int /\ Extras \subseteq Int

VARIABLES
    items,      \* Cache.items: the partial map from key to entry
    lru,        \* Cache.lru: the keys of the list's nodes, front first
    out         \* what the last call returned to its caller

vars == <<items, lru, out>>

Entry == {e \in [body : Bodies, expiresAt : Int, staleUntil : Int] : e.expiresAt <= e.staleUntil}

MkEntry(body, ttl, extra, now) ==
    [body |-> body,
     expiresAt  |-> now + ttl,
     staleUntil |-> IF extra > 0 THEN now + ttl + extra ELSE now + ttl]

\* Variants, here and below, are plausible mistakes in the definition that follows
\* them: the properties are tested against each.  This one takes the wrong deadline.
ExpiredLate(e, now) == now > e.staleUntil

Expired(e, now) == now > e.expiresAt
Dead(e, now)    == now > e.staleUntil

(***************************************************************************)
(* List and map updates.                                                   *)
(***************************************************************************)
MoveToFront(s, k) == <<k>> \o RemoveFirst(s, k)

Without(f, k) == Restrict(f, DOMAIN f \ {k})

With(f, k, e) == [x \in DOMAIN f \union {k} |-> IF x = k THEN e ELSE f[x]]

\* for len(c.items) > c.maxItems { c.removeOldest() }: the nodes that stay
Kept(s, size) ==
    IF size > MaxItems THEN SubSeq(s, 1, Len(s) - (size - MaxItems)) ELSE s

Answer(op, k, now, found, result) ==
    [op |-> op, key |-> k, now |-> now, found |-> found, result |-> result]

Init ==
    /\ items = [k \in {} |-> None]
    /\ lru = <<>>
    /\ out = None

(***************************************************************************)
(* The methods.                                                            *)
(***************************************************************************)
\* Variant: the node stays in the list.
RemoveFromMap(k) ==
    /\ items' = Without(items, k)
    /\ UNCHANGED lru

RemoveElement(k) ==
    /\ items' = Without(items, k)
    /\ lru' = RemoveFirst(lru, k)

LookupMiss(op, k, now) ==
    /\ k \notin DOMAIN items
    /\ out' = Answer(op, k, now, FALSE, None)
    /\ UNCHANGED <<items, lru>>

LookupDead(op, k, now) ==
    /\ k \in DOMAIN items
    /\ Dead(items[k], now)
    /\ out' = Answer(op, k, now, FALSE, None)
    /\ RemoveElement(k)

\* Variant: a hit that is not a use.
LookupHitInPlace(op, k, now) ==
    /\ out' = Answer(op, k, now, TRUE, items[k].body)
    /\ UNCHANGED <<items, lru>>

LookupHit(op, k, now) ==
    /\ out' = Answer(op, k, now, TRUE, items[k].body)
    /\ lru' = MoveToFront(lru, k)
    /\ UNCHANGED items

\* Variant: an expired entry is removed, whatever is left of its stale window.
LookupDropExpired(op, k, now) ==
    /\ ~Dead(items[k], now)
    /\ out' = Answer(op, k, now, FALSE, None)
    /\ RemoveElement(k)

\* An expired entry inside its stale window is not returned, and not removed.
LookupKeep(op, k, now) ==
    /\ ~Dead(items[k], now)
    /\ out' = Answer(op, k, now, FALSE, None)
    /\ UNCHANGED <<items, lru>>

GetFresh(k, now) ==
    \/ LookupMiss("GetFresh", k, now)
    \/ /\ k \in DOMAIN items
       /\ Expired(items[k], now)
       /\ LookupDead("GetFresh", k, now) \/ LookupKeep("GetFresh", k, now)
    \/ /\ k \in DOMAIN items
       /\ ~Expired(items[k], now)
       /\ LookupHit("GetFresh", k, now)

\* GetStale never looks at ExpiresAt: it also returns an entry that is fresh.
GetStale(k, now) ==
    \/ LookupMiss("GetStale", k, now)
    \/ LookupDead("GetStale", k, now)
    \/ /\ k \in DOMAIN items
       /\ ~Dead(items[k], now)
       /\ LookupHit("GetStale", k, now)

\* ttl <= 0 returns before the lock: nothing is stored, an old entry stays.
SetRefused(k, ttl) ==
    /\ ttl <= 0
    /\ UNCHANGED vars

SetStored(k, body, ttl, extra, now) ==
    /\ ttl > 0
    /\ LET grown == With(items, k, MkEntry(body, ttl, extra, now))
           kept  == Kept(MoveToFront(lru, k), Cardinality(DOMAIN grown))
       IN  /\ lru' = kept
           /\ items' = Restrict(grown, Range(kept))
    /\ out' = None

Set(k, body, ttl, extra, now) ==
    \/ SetRefused(k, ttl)
    \/ SetStored(k, body, ttl, extra, now)

Delete(k) ==
    /\ k \in DOMAIN items
    /\ RemoveElement(k)
    /\ out' = None

Next ==
    \E k \in Keys :
        \/ \E now \in Times : GetFresh(k, now) \/ GetStale(k, now)
        \/ \E body \in Bodies, ttl \in TTLs, extra \in Extras, now \in Times :
               Set(k, body, ttl, extra, now)
        \/ Delete(k)

Spec == Init /\ [][Next]_vars

-----------------------------------------------------------------------------
(* Types and invariants *)

\* items maps keys to entries whose stale window does not end before their ttl (New,
\* Set: an entry may be stale, never dead, when it expires), lru lists keys, out is nothing or an answer.
TypeOK ==
    /\ DOMAIN items \subseteq Keys
    /\ items \in [DOMAIN items -> Entry]
    /\ lru \in Seq(Keys)
    /\ out = None \/ out.op \in {"GetFresh", "GetStale"}

\* The list and the map describe the same set of entries: every key of the map
\* has exactly one node in the list, and no node is left without a map entry.
\* removeElement, PushFront and the eviction loop each update both.
ListMatchesMap ==
    /\ Range(lru) = DOMAIN items
    /\ IsInjective(lru)

\* After every call the cache holds at most maxItems entries: the eviction loop
\* of Set is the only thing that bounds it.
Bounded == Cardinality(DOMAIN items) <= MaxItems

\* The whole structure is sound between any two calls, whatever their order and times:
\* entries are well-formed, list and map agree, and the capacity holds.
Consistent == TypeOK /\ ListMatchesMap /\ Bounded
=============================================================================
