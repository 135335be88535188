---------------------------- MODULE MCCacheWorker ----------------------------
(* Three requests: two that wait for a first one whose fill cannot be shared fill *)
(* over each other.  Two ask the same of the public path; the third asks that as  *)
(* well, or what differs in one thing the key must tell apart.  Or all three ask  *)
(* a personal path, from two countries.                                           *)
EXTENDS CacheWorker

CONSTANTS r1, r2, r3

MCReqs == {r1, r2, r3}

Query(resolver, country, ecs, dnssec) ==
    [resolver |-> resolver, country |-> country, ecs |-> ecs, dnssec |-> dnssec, name |-> "x"]

First   == Query("public", "CN", "", FALSE)
Others  == {First, Query("public", "US", "", FALSE), Query("public", "CN", "s1", FALSE),
            Query("public", "CN", "", TRUE), Query("owner1", "CN", "", FALSE)}
Abroad  == Query("owner1", "US", "", FALSE)

MCQueries == Others \union {Abroad}

Alike ==
    \/ query[r1] = First /\ query[r2] = First /\ query[r3] \in Others
    \/ query[r1] = Query("owner1", "CN", "", FALSE) /\ query[r2] = Abroad /\ query[r3] = Abroad

MCInit == WorkerInit /\ Alike

MCSpec == MCInit /\ [][WorkerNext]_workerVars /\ Fairness
=============================================================================
