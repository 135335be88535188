----------------------------- MODULE MCUpstream -----------------------------
(* Two calls, over and over, and two upstreams with one token each, reached in   *)
(* both orders (a route and its mirror image, as cn and global may be            *)
(* configured); a third upstream without a gate is the route without a fallback. *)
EXTENDS Upstream

CONSTANTS c1, c2, u1, u2, u3

MCCalls  == {c1, c2}
MCUps    == {u1, u2, u3}
MCRoutes == {[primary |-> u1, fallback |-> u2],
             [primary |-> u2, fallback |-> u1],
             [primary |-> u3, fallback |-> NoUpstream]}
MCMaxConcurrent == [u \in MCUps |-> IF u = u3 THEN 0 ELSE 1]
=============================================================================
