------------------------------- MODULE MCCache -------------------------------
(* Three keys compete for two places, with two bodies: every order of the list,   *)
(* evictions, overwrites, dead entries, refused Sets and Deletes.  Times reach    *)
(* past the fresh window of an entry, into the stale window of one that has one,  *)
(* and past the life of one that has none.                                        *)
EXTENDS CacheHistory, TLC

CONSTANTS k1, k2, k3, b1, b2

MCKeys   == {k1, k2, k3}
MCBodies == {b1, b2}
MCTimes  == 0..2
MCTTLs   == {0, 1}
MCExtras == {-1, 1}

Symmetry == Permutations(MCKeys) \union Permutations(MCBodies)
=============================================================================
