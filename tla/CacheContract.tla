--------------------------- MODULE CacheContract ---------------------------
(***************************************************************************)
(* What a caller of internal/cache/cache.go relies on, without a list, a   *)
(* capacity or an eviction policy: the cache may always forget, but what   *)
(* it returns for a key is the body of the LAST accepted Set of that key,  *)
(* inside the window that Set opened, and never after a Delete.            *)
(***************************************************************************)
EXTENDS Integers

CONSTANTS Keys, Bodies, Times, TTLs, Extras

None == [none |-> TRUE]

VARIABLES
    lastSet,    \* per key, the last accepted Set, None when there is none
    out         \* the last call's result

vars == <<lastSet, out>>

Init == lastSet = [k \in Keys |-> None] /\ out = None

Put(k, body, ttl, extra, now) ==
    /\ ttl > 0
    /\ lastSet' = [lastSet EXCEPT ![k] =
                      [body |-> body, at |-> now, ttl |-> ttl, extra |-> extra]]
    /\ out' = None

Forget(k) ==
    /\ lastSet' = [lastSet EXCEPT ![k] = None]
    /\ out' = None

\* How long after its Set a body may be returned: GetFresh stops at the ttl,
\* GetStale at the ttl plus a positive staleExtra.
Window(op, set) ==
    IF op = "GetStale" /\ set.extra > 0 THEN set.ttl + set.extra ELSE set.ttl

Hit(op, k, now) ==
    /\ lastSet[k] # None
    /\ now <= lastSet[k].at + Window(op, lastSet[k])
    /\ out' = [op |-> op, key |-> k, now |-> now, found |-> TRUE,
               result |-> lastSet[k].body]
    /\ UNCHANGED lastSet

\* A miss is always allowed: the entry may have been evicted.
Miss(op, k, now) ==
    /\ out' = [op |-> op, key |-> k, now |-> now, found |-> FALSE, result |-> None]
    /\ UNCHANGED lastSet

Next ==
    \E k \in Keys :
        \/ \E op \in {"GetFresh", "GetStale"}, now \in Times : Hit(op, k, now) \/ Miss(op, k, now)
        \/ \E body \in Bodies, ttl \in TTLs, extra \in Extras, now \in Times :
               Put(k, body, ttl, extra, now)
        \/ Forget(k)

Spec == Init /\ [][Next]_vars
=============================================================================
