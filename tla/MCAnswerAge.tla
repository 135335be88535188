----------------------------- MODULE MCAnswerAge -----------------------------
(* Messages with records of every kind of TTL: missing, zero, below min_positive_ttl,     *)
(* between the bounds, above max_positive_ttl; a section that leaves everything   *)
(* to the defaults, and negative numbers that switch a bound off or refuse to store.      *)
EXTENDS AnswerAge, FiniteSets

Message(rcode, answers, soas) == [parses |-> TRUE, rcode |-> rcode, answers |-> answers, soas |-> soas]
SOA(ttl, minimum) == [ttl |-> ttl, minimum |-> minimum]

SomeMessages ==
    {Message("NOERROR", {1}, {}), Message("NOERROR", {0, 3}, {}), Message("NOERROR", {9, 7}, {}),
     Message("NOERROR", {0}, {}), Message("NOERROR", {}, {SOA(5, 1)}), Message("NXDOMAIN", {}, {SOA(0, 2), SOA(9, 9)}),
     Message("NXDOMAIN", {}, {SOA(0, 0)}), Message("SERVFAIL", {}, {}),
     [Message("NOERROR", {}, {}) EXCEPT !.parses = FALSE]}

MCDefaults ==
    [cache |-> [DefaultPositiveTTL |-> 4, MinPositiveTTL |-> 2, MaxPositiveTTL |-> 5, NegativeTTL |-> 3,
                StaleIfError |-> 2, ResponseBrowserMaxAge |-> 4, ResponseSharedMaxAge |-> 2,
                ResponseStaleWhileRevalidate |-> 1, ResponseStaleIfError |-> 2]]

Empty == [f \in DOMAIN MCDefaults.cache |-> 0]

SomeSections ==
    {Empty, [Empty EXCEPT !.NegativeTTL = -1, !.StaleIfError = -1],
     [Empty EXCEPT !.ResponseSharedMaxAge = -1, !.MaxPositiveTTL = -1],
     [Empty EXCEPT !.ResponseBrowserMaxAge = -1, !.MinPositiveTTL = -1]}

\* Results wait to be stored one at a time, so that an entry and copies of others meet them, or
\* two, so that a slow request comes after a quick one of the next flight; then no edge.
Bounds ==
    \/ late = {}
    \/ Cardinality(late) = 1 /\ (edge = None \/ client = None)
    \/ Cardinality(late) = 2 /\ edge = None /\ client = None

MCNext == Next /\ Bounds'

MCSpec == Init /\ [][MCNext]_vars
=============================================================================
