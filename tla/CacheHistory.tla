---------------------------- MODULE CacheHistory ----------------------------
(***************************************************************************)
(* The answer cache with two history variables, which no call reads.  They *)
(* let the properties speak about calls made several steps ago:            *)
(*   lastSet[k]  the last accepted Set of k, which an eviction does not    *)
(*               erase and a Delete does;                                  *)
(*   since[k]    the OTHER keys used (stored or hit) after the last use of *)
(*               k; its domain is the keys that were stored and that no    *)
(*               call has deleted or found dead since.                     *)
(***************************************************************************)
EXTENDS Cache

VARIABLES lastSet, since

hvars == <<items, lru, out, lastSet, since>>

HInit ==
    /\ Init
    /\ lastSet = [k \in Keys |-> None]
    /\ since = [k \in {} |-> {}]

\* k is used: it has no later user, and it is a later user of every other key.
Used(k) ==
    since' = [j \in DOMAIN since \union {k} |-> IF j = k THEN {} ELSE since[j] \union {k}]

Dropped(k) == since' = Without(since, k)

HLookup(k, now) ==
    /\ GetFresh(k, now) \/ GetStale(k, now)
    /\ IF out'.found
       THEN Used(k)
       ELSE IF k \in DOMAIN items \ DOMAIN items' THEN Dropped(k) ELSE UNCHANGED since
    /\ UNCHANGED lastSet

HSet(k, body, ttl, extra, now) ==
    /\ Set(k, body, ttl, extra, now)
    /\ IF ttl > 0
       THEN /\ Used(k)
            /\ lastSet' = [lastSet EXCEPT ![k] =
                              [body |-> body, at |-> now, ttl |-> ttl, extra |-> extra]]
       ELSE UNCHANGED <<lastSet, since>>

HDelete(k) ==
    /\ Delete(k)
    /\ Dropped(k)
    /\ lastSet' = [lastSet EXCEPT ![k] = None]

HNext ==
    \E k \in Keys :
        \/ \E now \in Times : HLookup(k, now)
        \/ \E body \in Bodies, ttl \in TTLs, extra \in Extras, now \in Times :
               HSet(k, body, ttl, extra, now)
        \/ HDelete(k)

HSpec == HInit /\ [][HNext]_hvars

-----------------------------------------------------------------------------
(* Properties *)

\* Working-set guarantee of an LRU cache: a stored key that nobody deleted is
\* still there as long as fewer than maxItems other keys were used after its own
\* last use.  It needs MoveToFront on every hit, PushFront on insertion and
\* eviction from the back, over any sequence of calls.
WorkingSetRetained ==
    \A k \in DOMAIN since : Cardinality(since[k]) < MaxItems => k \in DOMAIN items

\* a's node is in front of b's node.
Before(s, a, b) == \E i, j \in 1..Len(s) : i < j /\ s[i] = a /\ s[j] = b

\* The reason, and what makes the guarantee inductive: every cached key is
\* tracked, and the keys in front of a key in the list were used after it
\* (MoveToFront, PushFront and removal keep the list in order of use).
FrontIsNewer ==
    /\ DOMAIN items \subseteq DOMAIN since
    /\ \A a, b \in DOMAIN items : Before(lru, a, b) => a \in since[b]

\* Every cached entry is the last accepted Set of its key: an overwrite replaces
\* body and both deadlines together.
EntryIsLastSet ==
    \A k \in DOMAIN items :
        /\ lastSet[k] # None
        /\ items[k] = MkEntry(lastSet[k].body, lastSet[k].ttl, lastSet[k].extra, lastSet[k].at)

\* The detailed cache keeps the caller's contract: what a lookup returns is the
\* last accepted Set of the key, inside its window (GetFresh, GetStale, Set).
Contract == INSTANCE CacheContract
KeepsContract == Contract!Spec
=============================================================================
