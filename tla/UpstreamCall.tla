---------------------------- MODULE UpstreamCall ----------------------------
(***************************************************************************)
(* What resolveUpstream promises to the request that calls it, without     *)
(* attempts, timers or concurrency slots: the call ends exactly once, with *)
(* an answer of one of the route's two upstreams or with an error that     *)
(* names one of them, and it always ends.                                  *)
(***************************************************************************)
CONSTANTS
    Calls,      \* goroutines that resolve
    Routes,     \* route configurations, [primary, fallback]
    NoUpstream  \* the empty fallback_upstream

VARIABLES
    phase,      \* "idle", "running" or "done", per call
    route,      \* the route a running call was given
    result      \* the outcome of a done call

cvars == <<phase, route, result>>

None == [none |-> TRUE]

Configured(r) == {r.primary, r.fallback} \ {NoUpstream}

Outcomes(r) == [ok : BOOLEAN, upstream : Configured(r)]

Init ==
    /\ phase = [c \in Calls |-> "idle"]
    /\ route \in [Calls -> Routes]
    /\ result = [c \in Calls |-> None]

Begin(c, r) ==
    /\ phase[c] = "idle"
    /\ phase' = [phase EXCEPT ![c] = "running"]
    /\ route' = [route EXCEPT ![c] = r]
    /\ UNCHANGED result

Finish(c, outcome) ==
    /\ phase[c] = "running"
    /\ phase' = [phase EXCEPT ![c] = "done"]
    /\ result' = [result EXCEPT ![c] = outcome]
    /\ UNCHANGED route

Return(c) ==
    /\ phase[c] = "done"
    /\ phase' = [phase EXCEPT ![c] = "idle"]
    /\ result' = [result EXCEPT ![c] = None]
    /\ UNCHANGED route

Ends(c) == \E outcome \in Outcomes(route[c]) : Finish(c, outcome)

Next == \E c \in Calls : (\E r \in Routes : Begin(c, r)) \/ Ends(c) \/ Return(c)

Spec == Init /\ [][Next]_cvars

FairSpec == Spec /\ \A c \in Calls : WF_cvars(Ends(c))
=============================================================================
