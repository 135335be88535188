------------------------------ MODULE Upstream ------------------------------
(***************************************************************************)
(* resolveUpstream (internal/server/server.go) over Resolver.Resolve       *)
(* (internal/doh/resolver.go): one exchange with the route's primary       *)
(* upstream and, when it fails, one with its fallback.  Every upstream has *)
(* a gate, a buffered channel of max_concurrent tokens that an exchange    *)
(* holds from before the request is sent until its body is read; each      *)
(* attempt has its own timeout, which runs while it waits for the gate     *)
(* too; the caller's context is cancelled when its client goes away.       *)
(*                                                                         *)
(* Left out: request building, HMAC signing and proxies, whose failures    *)
(* are failures of the exchange.                                           *)
(***************************************************************************)
EXTENDS Integers, FiniteSets

CONSTANTS
    Calls,          \* goroutines that resolve (leaders of a single flight)
    Ups,            \* upstream names
    Routes,         \* route configurations, [primary, fallback]
    MaxConcurrent,  \* per upstream, max_concurrent; not positive: no gate
    NoUpstream      \* the empty fallback_upstream

ASSUME RouteAssumption ==
    /\ NoUpstream \notin Ups
    /\ \A r \in Routes : r.primary \in Ups /\ r.fallback \in Ups \union {NoUpstream}
ASSUME GateAssumption == MaxConcurrent \in [Ups -> Int]

VARIABLES
    pc,         \* "idle", "build", "gate", "exchange" or "done", per call
    route,      \* the route of the call
    stage,      \* "primary" or "fallback": the attempt the call is in
    expired,    \* the attempt's timeout has fired
    gone,       \* the caller's context is cancelled
    held,       \* the upstream whose token the call holds, or NoUpstream
    slots,      \* per upstream, the tokens in its channel
    result      \* what resolveUpstream returned

vars == <<pc, route, stage, expired, gone, held, slots, result>>

None == [none |-> TRUE]

Target(c) == IF stage[c] = "primary" THEN route[c].primary ELSE route[c].fallback

Gated(u) == MaxConcurrent[u] > 0

\* The upstream an error is reported for.
ErrorName(c) == Target(c)

HasRoomForOneMore(u) == slots[u] <= MaxConcurrent[u]   \* variant
HasRoom(u) == slots[u] < MaxConcurrent[u]

CtxDone(c) == expired[c] \/ gone[c]

Init ==
    /\ pc = [c \in Calls |-> "idle"]
    /\ route \in [Calls -> Routes]
    /\ stage = [c \in Calls |-> "primary"]
    /\ expired = [c \in Calls |-> FALSE]
    /\ gone = [c \in Calls |-> FALSE]
    /\ held = [c \in Calls |-> NoUpstream]
    /\ slots = [u \in Ups |-> 0]
    /\ result = [c \in Calls |-> None]

-----------------------------------------------------------------------------
(* The environment: callers, clients, timers *)

Begin(c, r) ==
    /\ pc[c] = "idle"
    /\ pc' = [pc EXCEPT ![c] = "build"]
    /\ route' = [route EXCEPT ![c] = r]
    /\ stage' = [stage EXCEPT ![c] = "primary"]
    /\ expired' = [expired EXCEPT ![c] = FALSE]
    /\ gone' = [gone EXCEPT ![c] = FALSE]
    /\ UNCHANGED <<held, slots, result>>

ClientGone(c) ==
    /\ pc[c] \in {"build", "gate", "exchange"}
    /\ ~gone[c]
    /\ gone' = [gone EXCEPT ![c] = TRUE]
    /\ UNCHANGED <<pc, route, stage, expired, held, slots, result>>

Expire(c) ==
    /\ pc[c] \in {"build", "gate", "exchange"}
    /\ ~expired[c]
    /\ expired' = [expired EXCEPT ![c] = TRUE]
    /\ UNCHANGED <<pc, route, stage, gone, held, slots, result>>

-----------------------------------------------------------------------------
(* resolveDoHWire and acquireUpstreamSlot *)

\* Variants of the deferred release: the token is not taken out; or not before the
\* fallback has been tried too.
ReleaseNothing(c) ==
    /\ held' = [held EXCEPT ![c] = NoUpstream]
    /\ UNCHANGED slots

ReleaseLate(c) ==
    IF held[c] = NoUpstream \/ (stage[c] = "primary" /\ route[c].fallback # NoUpstream)
    THEN UNCHANGED <<held, slots>>
    ELSE /\ slots' = [slots EXCEPT ![held[c]] = @ - 1]
         /\ held' = [held EXCEPT ![c] = NoUpstream]

\* The deferred release: take one token out, if this call put one in.
Release(c) ==
    IF held[c] = NoUpstream
    THEN UNCHANGED <<held, slots>>
    ELSE /\ slots' = [slots EXCEPT ![held[c]] = @ - 1]
         /\ held' = [held EXCEPT ![c] = NoUpstream]

\* The attempt returned an error: the primary's is followed by the fallback
\* attempt, with a new timeout, unless there is none or the client has gone.
AttemptError(c) ==
    /\ Release(c)
    /\ IF stage[c] = "primary" /\ route[c].fallback # NoUpstream /\ ~gone[c]
       THEN /\ pc' = [pc EXCEPT ![c] = "build"]
            /\ stage' = [stage EXCEPT ![c] = "fallback"]
            /\ expired' = [expired EXCEPT ![c] = FALSE]
            /\ UNCHANGED result
       ELSE /\ pc' = [pc EXCEPT ![c] = "done"]
            /\ result' = [result EXCEPT ![c] = [ok |-> FALSE, upstream |-> ErrorName(c)]]
            /\ UNCHANGED <<stage, expired>>
    /\ UNCHANGED <<route, gone>>

Build(c) ==
    /\ pc[c] = "build"
    /\ pc' = [pc EXCEPT ![c] = "gate"]
    /\ UNCHANGED <<route, stage, expired, gone, held, slots, result>>

\* The ECS option or the message cannot be packed: no token is taken.
BuildFails(c) == pc[c] = "build" /\ AttemptError(c)

\* case gate <- struct{}{}: possible whenever the channel has room, even when
\* the context is done too (select picks any ready case).  A nil gate returns at
\* once and never looks at the context.
Acquire(c) ==
    LET u == Target(c)
    IN  /\ pc[c] = "gate"
        /\ Gated(u) => HasRoom(u)
        /\ IF Gated(u)
           THEN /\ slots' = [slots EXCEPT ![u] = @ + 1]
                /\ held' = [held EXCEPT ![c] = u]
           ELSE UNCHANGED <<slots, held>>
        /\ pc' = [pc EXCEPT ![c] = "exchange"]
        /\ UNCHANGED <<route, stage, expired, gone, result>>

\* Variant: the wait for a token heeds the client, not the attempt's timeout.
GiveUpForClient(c) ==
    /\ pc[c] = "gate"
    /\ Gated(Target(c))
    /\ gone[c]
    /\ AttemptError(c)

\* case <-ctx.Done()
GiveUp(c) ==
    /\ pc[c] = "gate"
    /\ Gated(Target(c))
    /\ CtxDone(c)
    /\ AttemptError(c)

Answered(c) ==
    /\ pc[c] = "exchange"
    /\ Release(c)
    /\ pc' = [pc EXCEPT ![c] = "done"]
    /\ result' = [result EXCEPT ![c] = [ok |-> TRUE, upstream |-> Target(c)]]
    /\ UNCHANGED <<route, stage, expired, gone>>

\* Connection error, status other than 200, empty body, or the context.
ExchangeFails(c) == pc[c] = "exchange" /\ AttemptError(c)

\* The HTTP client returns once the context of its request is done.
ExchangeAborts(c) == CtxDone(c) /\ ExchangeFails(c)

\* The caller has taken the result.
Return(c) ==
    /\ pc[c] = "done"
    /\ pc' = [pc EXCEPT ![c] = "idle"]
    /\ result' = [result EXCEPT ![c] = None]
    /\ UNCHANGED <<route, stage, expired, gone, held, slots>>

-----------------------------------------------------------------------------
Next ==
    \E c \in Calls :
        \/ \E r \in Routes : Begin(c, r)
        \/ ClientGone(c) \/ Expire(c)
        \/ Build(c) \/ BuildFails(c)
        \/ Acquire(c) \/ GiveUp(c)
        \/ Answered(c) \/ ExchangeFails(c)
        \/ Return(c)

Spec == Init /\ [][Next]_vars

(***************************************************************************)
(* Timers fire, a runnable goroutine runs, and the HTTP client returns     *)
(* when its context is done.  Nothing says that an upstream answers, that  *)
(* a client leaves, or that a goroutine waiting for a token gets one.      *)
(***************************************************************************)
Fairness ==
    \A c \in Calls :
        /\ WF_vars(Expire(c))
        /\ WF_vars(Build(c) \/ BuildFails(c))
        /\ WF_vars(GiveUp(c))
        /\ WF_vars(Acquire(c))
        /\ WF_vars(ExchangeAborts(c))

FairSpec == Spec /\ Fairness

-----------------------------------------------------------------------------
(* Properties *)

TypeOK ==
    /\ pc \in [Calls -> {"idle", "build", "gate", "exchange", "done"}]
    /\ route \in [Calls -> Routes]
    /\ stage \in [Calls -> {"primary", "fallback"}]
    /\ expired \in [Calls -> BOOLEAN]
    /\ gone \in [Calls -> BOOLEAN]
    /\ held \in [Calls -> Ups \union {NoUpstream}]
    /\ slots \in [Ups -> Int]
    /\ \A c \in Calls : result[c] = None \/ result[c] \in [ok : BOOLEAN, upstream : Ups \union {NoUpstream}]
    /\ DOMAIN result = Calls
    /\ \A c \in Calls : stage[c] = "fallback" => route[c].fallback \in Ups

Holders(u) == {c \in Calls : held[c] = u}

\* The tokens in a gate are those of the exchanges that hold one: whatever way an
\* exchange ends (answer, error, timeout, client gone, fallback) its token has
\* been put back exactly once, so capacity is neither leaked nor invented.
SlotsAreHolders == \A u \in Ups : slots[u] = Cardinality(Holders(u))

\* A call that waits for a gate holds no token of another: the primary's token is
\* back before the fallback's gate is tried, so two routes with swapped
\* upstreams cannot wait for each other.
NoHoldAndWait == \A c \in Calls : pc[c] # "exchange" => held[c] = NoUpstream

\* An exchange in progress with a gated upstream holds that upstream's token.
ExchangeHolds ==
    \A c \in Calls : pc[c] = "exchange" =>
        held[c] = IF Gated(Target(c)) THEN Target(c) ELSE NoUpstream

\* Never more exchanges with an upstream than its max_concurrent.
ConcurrencyCapped ==
    \A u \in Ups : Gated(u) =>
        Cardinality({c \in Calls : pc[c] = "exchange" /\ Target(c) = u}) <= MaxConcurrent[u]

\* The books of the gates balance at all times: what the channels contain, what the
\* calls hold and what the calls are doing agree, on every way out of an attempt, and no
\* upstream gets more exchanges at once than it may.
TokensAccounted == TypeOK /\ SlotsAreHolders /\ ExchangeHolds /\ ConcurrencyCapped

\* resolveUpstream keeps its promise to the caller: it ends with one outcome of
\* the configured upstreams, and it ends even when no upstream ever answers and
\* every gate is full (UpstreamCall, fairness included).
phase == [c \in Calls |-> IF pc[c] \in {"build", "gate", "exchange"} THEN "running" ELSE pc[c]]
Promise == INSTANCE UpstreamCall
KeepsPromise == Promise!FairSpec
=============================================================================
