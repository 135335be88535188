----------------------------- MODULE CNLearning -----------------------------
(***************************************************************************)
(* How a request gets its route: pickRouteForVisitor and the learning at   *)
(* the end of handleDoHQuery (internal/server/server.go) over the rule     *)
(* Store (internal/chinarules/store.go).  The rules change only when the   *)
(* process starts (RuleUpdate says to what); names whose answers are all   *)
(* Chinese are learned for a while in a map that goroutines read under its *)
(* read lock and change under its write lock.                              *)
(*                                                                         *)
(* A goroutine is interrupted before each lock, and after each time.Now(). *)
(* What happens between the route and the answer is QueryPath; here a      *)
(* request ends with an answer it has fetched or shared ("MISS"), which is *)
(* the only kind that teaches, or in any other way.                        *)
(***************************************************************************)
EXTENDS Integers, Sequences

CONSTANTS
    Reqs,       \* request goroutines
    Names,      \* names asked for: sequences of labels, <<>> is the root
    KeywordHits,       \* pairs of a name and a keyword it contains
    TTLs,       \* what responseTTL gives for answers
    TTLFloor,   \* cn_learning.ttl_floor
    TTLCaps,    \* what cn_learning.ttl_cap may be: Load accepts a negative one, no cap
    MaxClock    \* bound on the clock

ASSUME NamesAssumption == Names \subseteq Seq(STRING)
ASSUME TTLAssumption ==
    TTLs \subseteq Int /\ TTLFloor \in Int /\ TTLCaps \subseteq Int
ASSUME ClockAssumption == MaxClock \in Nat

VARIABLES
    rules,      \* what Load made of the compact file
    learning,   \* cfg.CNLearning: enabled and its ttl_cap
    clock,
    learned,    \* Store.learned, name to ExpiresAt
    pc,         \* per request, where its goroutine is
    name,       \* per request, its qname
    asked,      \* per request that asks the rules, its time.Now()
    route,      \* per request, the route picked, or None before
    lesson,     \* per request about to learn: ttl and time.Now(), or None
    old,        \* per request about to forget: the ExpiresAt it read, or None
    evidence    \* history: per name, when an answer of the global route last was all
                \* Chinese, or Never, and until when the ttl of such an answer, or the
                \* floor, reached at most

vars == <<rules, learning, clock, learned, pc, name, asked, route, lesson, old, evidence>>

None  == "none"
Never == -1

\* What of an answer counts: its rcode and whether it has addresses inside, addresses
\* outside the Chinese networks, and other records.
Answers == [success : BOOLEAN, records : SUBSET {"cn", "foreign", "other"}]

\* Names, keywords and networks are sequences of labels alike; a network stands for
\* itself here, see EndWithAnswer.
Rules == [exacts : SUBSET Seq(STRING), suffixes : SUBSET Seq(STRING),
          keywords : SUBSET Seq(STRING), nets : SUBSET Seq(STRING)]

Settings == [enabled : BOOLEAN, cap : TTLCaps]

Evidence == [at : {Never} \union 0..MaxClock, until : Int]

Init ==
    /\ rules \in Rules
    /\ learning \in Settings
    /\ clock = 0
    /\ learned = [n \in {} |-> 0]
    /\ pc = [r \in Reqs |-> "idle"]
    /\ name = [r \in Reqs |-> <<>>]
    /\ asked = [r \in Reqs |-> 0]
    /\ route = [r \in Reqs |-> None]
    /\ lesson = [r \in Reqs |-> None]
    /\ old = [r \in Reqs |-> None]
    /\ evidence = [n \in Names \ {<<>>} |-> [at |-> Never, until |-> Never]]

Goto(r, place) == pc' = [pc EXCEPT ![r] = place]

\* The request is over, and its variables with it.
Return(r) ==
    /\ Goto(r, "idle")
    /\ name' = [name EXCEPT ![r] = <<>>]
    /\ asked' = [asked EXCEPT ![r] = 0]
    /\ route' = [route EXCEPT ![r] = None]

Tick ==
    /\ clock < MaxClock
    /\ clock' = clock + 1
    /\ UNCHANGED <<rules, learning, learned, pc, name, asked, route, lesson, old, evidence>>

\* The process starts anew with the rules it loads: what was learned is gone, and so are
\* the requests.
Restart(loaded) ==
    /\ rules' = loaded
    /\ learned' = [n \in {} |-> 0]
    /\ pc' = [r \in Reqs |-> "idle"]
    /\ name' = [r \in Reqs |-> <<>>]
    /\ asked' = [r \in Reqs |-> 0]
    /\ route' = [r \in Reqs |-> None]
    /\ lesson' = [r \in Reqs |-> None]
    /\ old' = [r \in Reqs |-> None]
    /\ UNCHANGED <<learning, clock, evidence>>

-----------------------------------------------------------------------------
(* pickRouteForVisitor and IsCNDomain *)

\* The name and its parents, up to the last label.
Candidates(n) == {SubSeq(n, i, Len(n)) : i \in 1..Len(n)}

InRules(loaded, n) ==
    \/ n \in loaded.exacts
    \/ Candidates(n) \cap loaded.suffixes # {}
    \/ \E k \in loaded.keywords : <<n, k>> \in KeywordHits

Pick(r, chosen) == route' = [route EXCEPT ![r] = chosen] /\ Goto(r, "resolve")

PickByRules(r, n) == Pick(r, IF InRules(rules, n) THEN "cn" ELSE "global")

\* A request; only those of mainland visitors ask the rules.
Arrive(r) ==
    /\ pc[r] = "idle"
    /\ \E n \in Names, mainland \in BOOLEAN :
        /\ name' = [name EXCEPT ![r] = n]
        /\ IF mainland /\ n # <<>>
           THEN asked' = [asked EXCEPT ![r] = clock] /\ Goto(r, "check") /\ UNCHANGED route
           ELSE Pick(r, "global") /\ UNCHANGED asked
    /\ UNCHANGED <<rules, learning, clock, learned, lesson, old, evidence>>

\* Variant: now.Before(ExpiresAt) for not now.After(ExpiresAt).
CheckBefore(r) ==
    /\ pc[r] = "check"
    /\ LET n == name[r]
       IN  \/ n \notin DOMAIN learned /\ PickByRules(r, n) /\ UNCHANGED old
           \/ n \in DOMAIN learned /\ asked[r] < learned[n] /\ Pick(r, "cn") /\ UNCHANGED old
           \/ /\ n \in DOMAIN learned /\ asked[r] >= learned[n]
              /\ old' = [old EXCEPT ![r] = learned[n]]
              /\ Goto(r, "forget")
              /\ UNCHANGED route
    /\ UNCHANGED <<rules, learning, clock, learned, name, asked, lesson, evidence>>

\* isLearned up to the decision, under the read lock.
Check(r) ==
    /\ pc[r] = "check"
    /\ LET n == name[r]
       IN  \/ n \notin DOMAIN learned /\ PickByRules(r, n) /\ UNCHANGED old
           \/ n \in DOMAIN learned /\ asked[r] <= learned[n] /\ Pick(r, "cn") /\ UNCHANGED old
           \/ /\ n \in DOMAIN learned /\ asked[r] > learned[n]
              /\ old' = [old EXCEPT ![r] = learned[n]]
              /\ Goto(r, "forget")
              /\ UNCHANGED route
    /\ UNCHANGED <<rules, learning, clock, learned, name, asked, lesson, evidence>>

\* delete(s.learned, host) under the write lock, whatever stands there by now.
Forget(r) ==
    /\ pc[r] = "forget"
    /\ learned' = [n \in DOMAIN learned \ {name[r]} |-> learned[n]]
    /\ old' = [old EXCEPT ![r] = None]
    /\ PickByRules(r, name[r])
    /\ UNCHANGED <<rules, learning, clock, name, asked, lesson, evidence>>

-----------------------------------------------------------------------------
(* Learning *)

\* Variant: one Chinese address is enough.
LearnsFromAny(a) == a.success /\ "cn" \in a.records

ShouldLearnAllAnswersCN(a) == a.success /\ "cn" \in a.records /\ "foreign" \notin a.records

Floored(ttl) == IF ttl < TTLFloor THEN TTLFloor ELSE ttl

LearnTTL(ttl) ==
    IF learning.cap > 0 /\ Floored(ttl) > learning.cap THEN learning.cap ELSE Floored(ttl)

Later(i, j) == IF i < j THEN j ELSE i

\* A cached or stale answer, or an error.
EndWithoutAnswer(r) ==
    /\ pc[r] = "resolve"
    /\ Return(r)
    /\ UNCHANGED <<rules, learning, clock, learned, lesson, old, evidence>>

\* The evidence for n after an all-Chinese answer with this ttl.
Seen(n, ttl) == [at |-> clock, until |-> Later(evidence[n].until, clock + Floored(ttl))]

\* An answer from upstream, or shared with a request that resolved.  Its addresses are
\* inside networks of the rules only where there are any.  LearnCNDomain gives up on an
\* empty name and on a ttl that is not positive.
EndWithAnswer(r) ==
    /\ pc[r] = "resolve"
    /\ \E a \in Answers, ttl \in TTLs :
        /\ "cn" \in a.records => rules.nets # {}
        /\ evidence' = IF route[r] = "global" /\ a.success /\ a.records \ {"other"} = {"cn"}
                       THEN [n \in DOMAIN evidence |-> IF n = name[r] THEN Seen(n, ttl) ELSE evidence[n]]
                       ELSE evidence
        /\ IF /\ route[r] = "global" /\ learning.enabled /\ ShouldLearnAllAnswersCN(a)
              /\ name[r] # <<>> /\ LearnTTL(ttl) > 0
           THEN /\ lesson' = [lesson EXCEPT ![r] = [ttl |-> LearnTTL(ttl), now |-> clock]]
                /\ Goto(r, "learn")
                /\ UNCHANGED <<name, asked, route>>
           ELSE Return(r) /\ UNCHANGED lesson
    /\ UNCHANGED <<rules, learning, clock, learned, old>>

\* LearnCNDomain under the write lock.
Learn(r) ==
    /\ pc[r] = "learn"
    /\ learned' = [n \in DOMAIN learned \union {name[r]} |->
                       IF n = name[r] THEN lesson[r].now + lesson[r].ttl ELSE learned[n]]
    /\ lesson' = [lesson EXCEPT ![r] = None]
    /\ Return(r)
    /\ UNCHANGED <<rules, learning, clock, old, evidence>>

-----------------------------------------------------------------------------
Next ==
    \/ Tick
    \/ \E loaded \in Rules : Restart(loaded)
    \/ \E r \in Reqs : \/ Arrive(r) \/ Check(r) \/ Forget(r)
                       \/ EndWithoutAnswer(r) \/ EndWithAnswer(r) \/ Learn(r)

Spec == Init /\ [][Next]_vars

-----------------------------------------------------------------------------
(* Properties *)

\* Types; only names that were asked for are ever learned, and never the root.
TypeOK ==
    /\ rules \in Rules
    /\ learning \in Settings
    /\ clock \in 0..MaxClock
    /\ DOMAIN learned \subseteq Names \ {<<>>} /\ \A n \in DOMAIN learned : learned[n] \in Nat
    /\ pc \in [Reqs -> {"idle", "check", "forget", "resolve", "learn"}]
    /\ name \in [Reqs -> Names \union {<<>>}]
    /\ asked \in [Reqs -> 0..MaxClock]
    /\ route \in [Reqs -> {None, "cn", "global"}]
    /\ DOMAIN lesson = Reqs
    /\ \A r \in Reqs : \/ pc[r] # "learn" /\ lesson[r] = None
                       \/ pc[r] = "learn" /\ lesson[r] \in [ttl : Nat, now : 0..MaxClock]
    /\ DOMAIN old = Reqs
    /\ \A r \in Reqs : \/ pc[r] # "forget" /\ old[r] = None
                       \/ pc[r] = "forget" /\ old[r] \in Nat
    /\ evidence \in [Names \ {<<>>} -> Evidence]

\* There is evidence for n that reaches to the instant i.
Vouched(n, i) ==
    /\ evidence[n].at # Never
    /\ i <= evidence[n].until
    /\ learning.cap > 0 => i <= evidence[n].at + learning.cap

\* A name that no rule names goes to the Chinese resolvers only on evidence: all the
\* addresses of some answer for this very name were Chinese, and the request asks within
\* the ttl of such an answer (or the floor, if that is longer).  Where there is a cap on
\* the ttl, the last such answer was moreover at most ttl_cap ago (route, isLearned,
\* LearnCNDomain and the bounds on its ttl together, over requests that race each other).
CNRouteHasEvidence ==
    \A r \in Reqs : route[r] = "cn" =>
        \/ InRules(rules, name[r])
        \/ learning.enabled /\ Vouched(name[r], asked[r])

\* A name leaves the map only after its time, unless the process restarts or a look-up
\* that had met an older, expired entry of the same name deletes what was learned since:
\* isLearned does not look again once it has the write lock.
ForgottenEarlyOnlyInRace ==
    [][\A n \in DOMAIN learned : n \notin DOMAIN learned' /\ learned[n] >= clock =>
          \/ DOMAIN learned' = {} /\ \A r \in Reqs : pc'[r] = "idle"
          \/ \E r \in Reqs : pc[r] = "forget" /\ name[r] = n /\ old[r] < learned[n]]_vars
=============================================================================
