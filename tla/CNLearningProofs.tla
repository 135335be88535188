-------------------------- MODULE CNLearningProofs --------------------------
(* Theorems about CNLearning and RuleUpdate, for any rules, names, ttls,      *)
(* requests, downloads, local files and scripts.                              *)
EXTENDS RuleUpdate, TLAPS

Askable == Names \ {<<>>}

\* The map holds nothing that outlives the evidence for it, and neither does a lesson
\* that is about to be stored: the invariant CNRouteHasEvidence rests on.
LearnedHasEvidence ==
    \A n \in DOMAIN learned :
        learning.enabled /\ learned[n] \in Nat /\ Vouched(n, learned[n])

LessonHasEvidence ==
    \A r \in Reqs : pc[r] = "learn" =>
        /\ learning.enabled /\ lesson[r].now \in Nat /\ lesson[r].ttl \in Nat
        /\ Vouched(name[r], lesson[r].now + lesson[r].ttl)

\* Only a request about a name asks the rules, learns or forgets, and it asks once.
HasName ==
    /\ \A r \in Reqs : pc[r] \in {"idle", "check", "forget"} => route[r] = None
    /\ \A r \in Reqs : pc[r] \in {"check", "forget", "learn"} \/ route[r] = "cn" =>
           name[r] \in Askable

\* What happened before is in the past.
Past ==
    /\ \A n \in Askable : evidence[n].at <= clock
    /\ \A r \in Reqs : asked[r] <= clock /\ (pc[r] = "forget" => old[r] < asked[r])

LearnInv ==
    TypeOK /\ LearnedHasEvidence /\ LessonHasEvidence /\ HasName /\ Past /\ CNRouteHasEvidence
-----------------------------------------------------------------------------
LEMMA TypeFacts ==
    ASSUME TypeOK
    PROVE  /\ learning.cap \in Int /\ DOMAIN evidence = Askable /\ clock \in Int
           /\ clock \in 0..MaxClock
           /\ \A n \in Askable : /\ evidence[n] \in Evidence
                                 /\ evidence[n].at \in Int /\ evidence[n].until \in Int
<1>1. learning.cap \in Int
  <2>1. learning.cap \in TTLCaps
    BY DEF TypeOK, Settings
  <2> QED
    BY <2>1, TTLAssumption
<1>2. DOMAIN evidence = Askable /\ \A n \in Askable : evidence[n] \in Evidence
  BY DEF TypeOK, Askable
<1>3. \A e \in Evidence : e.at \in Int /\ e.until \in Int
  BY ClockAssumption DEF Evidence, Never
<1>4. clock \in 0..MaxClock /\ clock \in Int
  BY ClockAssumption DEF TypeOK
<1> QED
  BY <1>1, <1>2, <1>3, <1>4

\* Vouched in the next state, for a name and an instant of this one.
VouchedThen(n, i) ==
    /\ evidence'[n].at # Never
    /\ i <= evidence'[n].until
    /\ learning'.cap > 0 => i <= evidence'[n].at + learning'.cap

\* What vouches for an instant vouches for every earlier one.
LEMMA VouchedEarlier ==
    ASSUME TypeOK, NEW n \in Askable, NEW i \in Int, NEW j \in Int, i <= j, Vouched(n, j)
    PROVE  Vouched(n, i)
<1>1. evidence[n].at \in Int /\ evidence[n].until \in Int /\ learning.cap \in Int
  BY TypeFacts
<1> QED
  BY <1>1 DEF Vouched

LEMMA InitLearnInv == Init => LearnInv
<1> SUFFICES ASSUME Init PROVE LearnInv
  OBVIOUS
<1> USE ClockAssumption DEF Init, None
<1>1. TypeOK
  <2>1. [at |-> Never, until |-> Never] \in Evidence
    BY DEF Evidence, Never
  <2>2. evidence \in [Names \ {<<>>} -> Evidence]
    BY <2>1
  <2> QED
    BY <2>2 DEF TypeOK
<1>2. Past
  <2>1. \A n \in Askable : evidence[n].at = Never
    BY DEF Askable
  <2> QED
    BY <2>1 DEF Past, Never
<1> QED
  BY <1>1, <1>2 DEF LearnInv, LearnedHasEvidence, LessonHasEvidence, HasName, CNRouteHasEvidence, Vouched

LEMMA TickKeeps == ASSUME LearnInv, Tick PROVE LearnInv'
<1> USE ClockAssumption DEF Tick, LearnInv
<1>1. TypeOK'
  BY DEF TypeOK
<1>2. Past'
  <2>1. \A n \in Askable : evidence'[n].at <= clock /\ evidence[n].at \in Int
    BY TypeFacts DEF Past
  <2>2. \A r \in Reqs : asked'[r] <= clock /\ asked[r] \in Int
                       /\ (pc'[r] = "forget" => old'[r] < asked'[r])
    BY DEF Past, TypeOK
  <2> QED
    BY <2>1, <2>2, TypeFacts DEF Past
<1> QED
  BY <1>1, <1>2 DEF LearnedHasEvidence, LessonHasEvidence, HasName, CNRouteHasEvidence, Vouched

LEMMA RestartKeeps == ASSUME LearnInv, NEW loaded \in Rules, Restart(loaded) PROVE LearnInv'
<1> USE ClockAssumption DEF Restart, LearnInv
<1>1. TypeOK'
  BY DEF TypeOK, None
<1>2. Past'
  BY DEF TypeOK, Past, Askable
<1> QED
  BY <1>1, <1>2 DEF LearnedHasEvidence, LessonHasEvidence, HasName, CNRouteHasEvidence, None, Vouched

LEMMA ArriveKeeps == ASSUME LearnInv, NEW r \in Reqs, Arrive(r) PROVE LearnInv'
<1> USE DEF LearnInv
<1>1. PICK n \in Names, mainland \in BOOLEAN :
        /\ name' = [name EXCEPT ![r] = n]
        /\ IF mainland /\ n # <<>>
           THEN asked' = [asked EXCEPT ![r] = clock] /\ Goto(r, "check") /\ UNCHANGED route
           ELSE Pick(r, "global") /\ UNCHANGED asked
  BY DEF Arrive
<1>2. pc[r] = "idle" /\ UNCHANGED <<rules, learning, clock, learned, lesson, old, evidence>>
  BY DEF Arrive
<1>3. CASE mainland /\ n # <<>>
  <2> USE <1>1, <1>2, <1>3 DEF Goto
  <2>1. TypeOK'
    BY DEF TypeOK
  <2>2. Past'
    BY DEF TypeOK, Past
  <2>3. CNRouteHasEvidence'
    BY DEF TypeOK, CNRouteHasEvidence, HasName, None, Vouched
  <2> QED
    BY <2>1, <2>2, <2>3 DEF TypeOK, LearnedHasEvidence, LessonHasEvidence, HasName, Askable, Vouched
<1>4. CASE ~(mainland /\ n # <<>>)
  <2> USE <1>1, <1>2, <1>4 DEF Pick, Goto
  <2>1. TypeOK'
    BY DEF TypeOK
  <2>2. LearnedHasEvidence' /\ LessonHasEvidence'
    BY DEF TypeOK, LearnedHasEvidence, LessonHasEvidence, Vouched
  <2>3. HasName' /\ Past'
    BY DEF TypeOK, HasName, Past
  <2>4. CNRouteHasEvidence'
    BY DEF TypeOK, CNRouteHasEvidence, Vouched
  <2> QED
    BY <2>1, <2>2, <2>3, <2>4
<1> QED
  BY <1>3, <1>4

\* What CheckKeeps and ForgetKeeps share: the choice by the rules alone.
LEMMA PickByRulesKeeps ==
    ASSUME LearnInv, NEW r \in Reqs, PickByRules(r, name[r]), pc[r] \in {"check", "forget"},
           UNCHANGED <<rules, learning, clock, name, asked, evidence>>
    PROVE  /\ pc' = [pc EXCEPT ![r] = "resolve"] /\ route' \in [Reqs -> {None, "cn", "global"}]
           /\ HasName' /\ CNRouteHasEvidence'
<1> USE DEF LearnInv, TypeOK
<1>1. PICK c \in {"cn", "global"} :
        /\ route' = [route EXCEPT ![r] = c] /\ pc' = [pc EXCEPT ![r] = "resolve"]
        /\ c = "cn" => InRules(rules, name[r])
  BY DEF PickByRules, Pick, Goto
<1>2. HasName'
  BY <1>1 DEF HasName
<1>3. CNRouteHasEvidence'
  BY <1>1 DEF CNRouteHasEvidence, Vouched
<1> QED
  BY <1>1, <1>2, <1>3

LEMMA CheckKeeps == ASSUME LearnInv, NEW r \in Reqs, Check(r) PROVE LearnInv'
<1> USE DEF LearnInv
<1>1. pc[r] = "check" /\ UNCHANGED <<rules, learning, clock, learned, name, asked, lesson, evidence>>
  BY DEF Check
<1>2. name[r] \in Askable
  BY <1>1 DEF HasName
<1>3. CASE PickByRules(r, name[r]) /\ UNCHANGED old
  <2>1. TypeOK'
    BY <1>1, <1>3, PickByRulesKeeps DEF TypeOK
  <2> QED
    BY <1>1, <1>3, <2>1, PickByRulesKeeps DEF TypeOK, LearnedHasEvidence, LessonHasEvidence, Past, Vouched
<1>4. CASE name[r] \in DOMAIN learned /\ asked[r] <= learned[name[r]] /\ Pick(r, "cn") /\ UNCHANGED old
  <2> USE <1>1, <1>4 DEF Pick, Goto
  <2>1. TypeOK'
    BY DEF TypeOK
  <2>2. learning.enabled /\ Vouched(name[r], asked[r])
    <3>1. learning.enabled /\ learned[name[r]] \in Nat /\ Vouched(name[r], learned[name[r]])
      BY DEF LearnedHasEvidence, Vouched
    <3>2. asked[r] \in Nat
      BY ClockAssumption DEF TypeOK
    <3> QED
      BY <1>2, <3>1, <3>2, VouchedEarlier
  <2>3. CNRouteHasEvidence'
    BY <2>2 DEF TypeOK, CNRouteHasEvidence, Vouched
  <2> QED
    BY <1>2, <2>1, <2>3 DEF TypeOK, LearnedHasEvidence, LessonHasEvidence, Past, HasName, Vouched
<1>5. CASE /\ name[r] \in DOMAIN learned /\ asked[r] > learned[name[r]]
           /\ old' = [old EXCEPT ![r] = learned[name[r]]]
           /\ Goto(r, "forget") /\ UNCHANGED route
  <2> USE <1>1, <1>5 DEF Goto
  <2>1. TypeOK'
    BY DEF TypeOK
  <2>2. Past'
    BY DEF TypeOK, Past
  <2> QED
    BY <1>2, <2>1, <2>2 DEF TypeOK, LearnedHasEvidence, LessonHasEvidence, HasName, CNRouteHasEvidence, Vouched
<1> QED
  BY <1>3, <1>4, <1>5 DEF Check

LEMMA ForgetKeeps == ASSUME LearnInv, NEW r \in Reqs, Forget(r) PROVE LearnInv'
<1> USE DEF LearnInv
<1>1. /\ pc[r] = "forget" /\ UNCHANGED <<rules, learning, clock, name, asked, lesson, evidence>>
      /\ learned' = [n \in DOMAIN learned \ {name[r]} |-> learned[n]]
      /\ old' = [old EXCEPT ![r] = None]
  BY DEF Forget
<1>2. /\ pc' = [pc EXCEPT ![r] = "resolve"] /\ route' \in [Reqs -> {None, "cn", "global"}]
      /\ HasName' /\ CNRouteHasEvidence'
  BY <1>1, PickByRulesKeeps DEF Forget
<1>3. TypeOK'
  <2>1. DOMAIN learned' \subseteq Names \ {<<>>} /\ \A n \in DOMAIN learned' : learned'[n] \in Nat
    BY <1>1 DEF TypeOK
  <2>2. \A s \in Reqs : \/ pc'[s] # "forget" /\ old'[s] = None
                        \/ pc'[s] = "forget" /\ old'[s] \in Nat
    BY <1>1, <1>2 DEF TypeOK
  <2> QED
    BY <1>1, <1>2, <2>1, <2>2 DEF TypeOK
<1>4. LearnedHasEvidence'
  BY <1>1 DEF LearnedHasEvidence, Vouched
<1>5. LessonHasEvidence' /\ Past'
  BY <1>1, <1>2 DEF TypeOK, LessonHasEvidence, Past, Vouched
<1> QED
  BY <1>2, <1>3, <1>4, <1>5

\* The end of a request leaves nothing of it behind.
LEMMA ReturnKeeps ==
    ASSUME LearnInv, NEW r \in Reqs, Return(r)
    PROVE  /\ pc' = [pc EXCEPT ![r] = "idle"] /\ route' \in [Reqs -> {None, "cn", "global"}]
           /\ name' \in [Reqs -> Names \union {<<>>}] /\ asked' \in [Reqs -> 0..MaxClock]
           /\ name'[r] = <<>> /\ asked'[r] = 0 /\ route'[r] = None
           /\ \A s \in Reqs \ {r} : pc'[s] = pc[s] /\ name'[s] = name[s]
                                    /\ asked'[s] = asked[s] /\ route'[s] = route[s]
           /\ pc'[r] = "idle" /\ HasName'
<1>1. /\ pc' = [pc EXCEPT ![r] = "idle"] /\ route' \in [Reqs -> {None, "cn", "global"}]
      /\ name' \in [Reqs -> Names \union {<<>>}] /\ asked' \in [Reqs -> 0..MaxClock]
      /\ name'[r] = <<>> /\ asked'[r] = 0 /\ route'[r] = None /\ pc'[r] = "idle"
      /\ \A s \in Reqs \ {r} : pc'[s] = pc[s] /\ name'[s] = name[s]
                               /\ asked'[s] = asked[s] /\ route'[s] = route[s]
  BY ClockAssumption DEF LearnInv, TypeOK, Return, Goto
<1>2. HasName'
  BY <1>1 DEF LearnInv, HasName, None
<1> QED
  BY <1>1, <1>2

LEMMA ReturnOnlyEnds ==
    ASSUME LearnInv, NEW r \in Reqs, Return(r), UNCHANGED <<rules, learning, clock, old, evidence>>,
           \A s \in Reqs \ {r} : lesson'[s] = lesson[s]
    PROVE  LessonHasEvidence' /\ CNRouteHasEvidence' /\ Past'
<1>1. LessonHasEvidence'
  BY ReturnKeeps DEF LearnInv, LessonHasEvidence, Vouched
<1>2. CNRouteHasEvidence'
  BY ReturnKeeps DEF LearnInv, CNRouteHasEvidence, None, Vouched
<1>3. clock >= 0
  BY ClockAssumption DEF LearnInv, TypeOK
<1>4. Past'
  BY <1>3, ReturnKeeps DEF LearnInv, Past
<1> QED
  BY <1>1, <1>2, <1>4

LEMMA EndWithoutAnswerKeeps ==
    ASSUME LearnInv, NEW r \in Reqs, EndWithoutAnswer(r) PROVE LearnInv'
<1> USE DEF LearnInv
<1>1. /\ Return(r) /\ UNCHANGED <<rules, learning, clock, learned, lesson, old, evidence>>
      /\ pc[r] = "resolve"
  BY DEF EndWithoutAnswer
<1>2. TypeOK'
  <2>1. lesson[r] = None /\ old[r] = None
    BY <1>1 DEF TypeOK
  <2>2. /\ pc' = [pc EXCEPT ![r] = "idle"] /\ route' \in [Reqs -> {None, "cn", "global"}]
        /\ name' \in [Reqs -> Names \union {<<>>}] /\ asked' \in [Reqs -> 0..MaxClock]
    BY <1>1, ReturnKeeps
  <2>3. \A s \in Reqs : pc'[s] = pc[s] \/ (s = r /\ pc'[s] = "idle")
    BY <2>2 DEF TypeOK
  <2>4. /\ \A s \in Reqs : \/ pc'[s] # "learn" /\ lesson[s] = None
                           \/ pc'[s] = "learn" /\ lesson[s] \in [ttl : Nat, now : 0..MaxClock]
        /\ \A s \in Reqs : \/ pc'[s] # "forget" /\ old[s] = None
                           \/ pc'[s] = "forget" /\ old[s] \in Nat
    BY <2>1, <2>3 DEF TypeOK
  <2> QED
    BY <1>1, <2>2, <2>4 DEF TypeOK
<1>3. LearnedHasEvidence'
  BY <1>1 DEF LearnedHasEvidence, Vouched
<1>4. LessonHasEvidence' /\ CNRouteHasEvidence' /\ Past'
  BY <1>1, ReturnOnlyEnds
<1> QED
  BY <1>1, <1>2, <1>3, <1>4, ReturnKeeps

\* Floor and cap leave a ttl at most the floored one, and below the cap if there is one.
LEMMA LearnTTLBounds ==
    ASSUME TypeOK, NEW ttl \in TTLs
    PROVE  /\ LearnTTL(ttl) \in Int /\ Floored(ttl) \in Int /\ LearnTTL(ttl) <= Floored(ttl)
           /\ learning.cap > 0 => LearnTTL(ttl) <= learning.cap
<1>1. Floored(ttl) \in Int /\ learning.cap \in Int
  BY TTLAssumption, TypeFacts DEF Floored
<1> QED
  BY <1>1 DEF LearnTTL

\* An answer leaves the evidence typed, in the past, and no weaker than it was.
LEMMA EvidenceGrows ==
    ASSUME LearnInv, NEW r \in Reqs, NEW ttl \in TTLs, UNCHANGED <<learning, clock>>,
           evidence' = [n \in DOMAIN evidence |-> IF n = name[r] THEN Seen(n, ttl) ELSE evidence[n]]
    PROVE  /\ evidence' \in [Askable -> Evidence]
           /\ \A n \in Askable : evidence'[n].at <= clock
           /\ \A n \in Askable : \A i \in Int : Vouched(n, i) => VouchedThen(n, i)
<1>1. /\ DOMAIN evidence = Askable /\ clock \in 0..MaxClock /\ clock \in Int
      /\ \A n \in Askable : /\ evidence[n] \in Evidence
                            /\ evidence[n].at \in Int /\ evidence[n].until \in Int
      /\ learning.cap \in Int
  BY TypeFacts DEF LearnInv
<1>2. ASSUME NEW n \in Askable
      PROVE  /\ Seen(n, ttl) \in Evidence
             /\ Seen(n, ttl).at = clock /\ evidence[n].until <= Seen(n, ttl).until
             /\ evidence[n].at <= clock /\ evidence[n].at \in Int /\ evidence[n].until \in Int
  <2>1. Floored(ttl) \in Int
    BY LearnTTLBounds DEF LearnInv
  <2>2. evidence[n].until \in Int /\ evidence[n].at \in Int
    BY <1>1
  <2>3. /\ Later(evidence[n].until, clock + Floored(ttl)) \in Int
        /\ evidence[n].until <= Later(evidence[n].until, clock + Floored(ttl))
    BY <1>1, <2>1, <2>2 DEF Later
  <2>4. evidence[n].at <= clock
    BY DEF LearnInv, Past
  <2> QED
    BY <1>1, <2>2, <2>3, <2>4 DEF Seen, Evidence
<1>3. \A n \in Askable : evidence'[n] = IF n = name[r] THEN Seen(n, ttl) ELSE evidence[n]
  BY <1>1
<1>4. evidence' \in [Askable -> Evidence]
  BY <1>1, <1>2
<1>5. ASSUME NEW n \in Askable, NEW i \in Int, Vouched(n, i) PROVE VouchedThen(n, i)
  <2>1. /\ evidence[n].at # Never /\ i <= evidence[n].until
        /\ learning.cap > 0 => i <= evidence[n].at + learning.cap
    BY <1>5 DEF Vouched
  <2>2. CASE n = name[r]
    <3>1. evidence'[n].at = clock /\ evidence'[n].until \in Int /\ evidence[n].until <= evidence'[n].until
      <4>1. evidence'[n] = Seen(n, ttl)
        BY <1>3, <2>2
      <4>2. Seen(n, ttl).until \in Int
        BY <1>2 DEF Evidence
      <4> QED
        BY <1>2, <4>1, <4>2
    <3>2. clock # Never
      BY <1>1, ClockAssumption DEF Never
    <3>3. i <= evidence'[n].until
      BY <1>1, <2>1, <3>1
    <3>4. evidence[n].at <= clock
      BY <1>2
    <3>5. learning.cap > 0 => i <= clock + learning.cap
      BY <1>1, <2>1, <3>4
    <3>6. learning' = learning
      OBVIOUS
    <3> QED
      BY <3>1, <3>2, <3>3, <3>5, <3>6 DEF VouchedThen
  <2>3. CASE n # name[r]
    <3>1. evidence'[n] = evidence[n] /\ learning' = learning
      BY <1>3, <2>3
    <3> QED
      BY <2>1, <3>1 DEF VouchedThen
  <2> QED
    BY <2>2, <2>3
<1>6. ASSUME NEW n \in Askable PROVE evidence'[n].at <= clock
  <2>1. clock <= clock
    BY <1>1
  <2> QED
    BY <1>2, <1>3, <2>1
<1> QED
  BY <1>4, <1>5, <1>6

LEMMA EndWithAnswerKeeps ==
    ASSUME LearnInv, NEW r \in Reqs, EndWithAnswer(r) PROVE LearnInv'
<1> USE DEF LearnInv
<1>1. pc[r] = "resolve" /\ UNCHANGED <<rules, learning, clock, learned, old>>
  BY DEF EndWithAnswer
<1>2. PICK a \in Answers, ttl \in TTLs :
        /\ evidence' = IF route[r] = "global" /\ a.success /\ a.records \ {"other"} = {"cn"}
                       THEN [n \in DOMAIN evidence |-> IF n = name[r] THEN Seen(n, ttl) ELSE evidence[n]]
                       ELSE evidence
        /\ IF /\ route[r] = "global" /\ learning.enabled /\ ShouldLearnAllAnswersCN(a)
              /\ name[r] # <<>> /\ LearnTTL(ttl) > 0
           THEN /\ lesson' = [lesson EXCEPT ![r] = [ttl |-> LearnTTL(ttl), now |-> clock]]
                /\ Goto(r, "learn")
                /\ UNCHANGED <<name, asked, route>>
           ELSE Return(r) /\ UNCHANGED lesson
  BY DEF EndWithAnswer
<1>3. /\ evidence' \in [Askable -> Evidence]
      /\ \A n \in Askable : evidence'[n].at <= clock
      /\ \A n \in Askable : \A i \in Int : Vouched(n, i) => VouchedThen(n, i)
  <2>1. CASE evidence' = evidence
    BY <1>1, <2>1 DEF TypeOK, Past, Askable, Vouched, VouchedThen
  <2>2. CASE evidence' = [n \in DOMAIN evidence |-> IF n = name[r] THEN Seen(n, ttl) ELSE evidence[n]]
    BY <1>1, <2>2, EvidenceGrows
  <2> QED
    BY <1>2, <2>1, <2>2
<1>4. LearnedHasEvidence'
  <2>1. ASSUME NEW n \in DOMAIN learned
        PROVE  n \in Askable /\ learned[n] \in Int /\ learning.enabled /\ learned[n] \in Nat
               /\ Vouched(n, learned[n])
    BY DEF LearnedHasEvidence, TypeOK, Askable
  <2> QED
    BY <1>1, <1>3, <2>1 DEF LearnedHasEvidence, Vouched, VouchedThen
<1>5. ASSUME NEW s \in Reqs, route[s] = "cn"
      PROVE  \/ InRules(rules, name[s])
             \/ learning.enabled /\ VouchedThen(name[s], asked[s])
  <2>1. name[s] \in Askable /\ asked[s] \in Int
    BY <1>5, ClockAssumption DEF HasName, TypeOK
  <2> QED
    BY <1>1, <1>3, <1>5, <2>1 DEF CNRouteHasEvidence
<1> DEFINE teaches == /\ route[r] = "global" /\ learning.enabled /\ ShouldLearnAllAnswersCN(a)
                      /\ name[r] # <<>> /\ LearnTTL(ttl) > 0
<1>6. CASE teaches
  <2>1. /\ lesson' = [lesson EXCEPT ![r] = [ttl |-> LearnTTL(ttl), now |-> clock]]
        /\ pc' = [pc EXCEPT ![r] = "learn"] /\ UNCHANGED <<name, asked, route>>
    BY <1>2, <1>6 DEF Goto
  <2>2. name[r] \in Askable /\ evidence'[name[r]] = Seen(name[r], ttl)
    <3>1. a.records \ {"other"} = {"cn"} /\ a.success
      BY <1>6 DEF ShouldLearnAllAnswersCN, Answers
    <3>2. name[r] \in Askable
      BY <1>6 DEF TypeOK, Askable
    <3> QED
      BY <1>2, <1>6, <3>1, <3>2 DEF TypeOK, Askable
  <2>3. LearnTTL(ttl) \in Nat /\ clock \in Nat /\ clock \in 0..MaxClock
    BY <1>6, LearnTTLBounds, ClockAssumption DEF TypeOK
  <2>4. TypeOK'
    <3>1. \A s \in Reqs : \/ pc'[s] # "learn" /\ lesson'[s] = None
                          \/ pc'[s] = "learn" /\ lesson'[s] \in [ttl : Nat, now : 0..MaxClock]
      BY <2>1, <2>3 DEF TypeOK
    <3>2. \A s \in Reqs : \/ pc'[s] # "forget" /\ old'[s] = None
                          \/ pc'[s] = "forget" /\ old'[s] \in Nat
      BY <1>1, <2>1 DEF TypeOK
    <3> QED
      BY <1>1, <1>3, <2>1, <3>1, <3>2 DEF TypeOK, Askable
  <2>5. LessonHasEvidence'
    <3>1. ASSUME NEW s \in Reqs \ {r}, pc'[s] = "learn"
          PROVE  /\ learning'.enabled /\ lesson'[s].now \in Nat /\ lesson'[s].ttl \in Nat
                 /\ Vouched(name[s], lesson[s].now + lesson[s].ttl)'
      <4>1. pc[s] = "learn" /\ name[s] \in Askable /\ UNCHANGED <<lesson[s], name[s]>>
        BY <2>1, <3>1 DEF TypeOK, HasName
      <4>2. /\ learning.enabled /\ lesson[s].now \in Nat /\ lesson[s].ttl \in Nat
            /\ Vouched(name[s], lesson[s].now + lesson[s].ttl)
        BY <4>1 DEF LessonHasEvidence
      <4>3. VouchedThen(name[s], lesson[s].now + lesson[s].ttl)
        BY <1>3, <4>1, <4>2
      <4> QED
        BY <1>1, <4>1, <4>2, <4>3 DEF Vouched, VouchedThen
    <3>2. /\ learning'.enabled /\ lesson'[r].now \in Nat /\ lesson'[r].ttl \in Nat
          /\ Vouched(name[r], lesson[r].now + lesson[r].ttl)'
      <4>1. lesson'[r] = [ttl |-> LearnTTL(ttl), now |-> clock]
        BY <2>1 DEF TypeOK
      <4>2. /\ evidence'[name[r]].at = clock /\ clock # Never
            /\ evidence'[name[r]].until = Later(evidence[name[r]].until, clock + Floored(ttl))
        BY <2>2, <2>3 DEF Seen, Never
      <4>3. evidence[name[r]].until \in Int
        BY <2>2, TypeFacts
      <4>4. clock + LearnTTL(ttl) <= Later(evidence[name[r]].until, clock + Floored(ttl))
        BY <2>3, <4>3, LearnTTLBounds DEF Later
      <4>5. learning.cap > 0 => clock + LearnTTL(ttl) <= clock + learning.cap
        BY <2>3, LearnTTLBounds, TypeFacts
      <4> QED
        BY <1>1, <1>6, <2>1, <2>3, <4>1, <4>2, <4>4, <4>5 DEF Vouched
    <3> QED
      BY <3>1, <3>2 DEF LessonHasEvidence
  <2>6. HasName' /\ Past'
    BY <1>1, <1>3, <2>1, <2>2 DEF HasName, Past, TypeOK
  <2>7. CNRouteHasEvidence'
    BY <1>1, <1>5, <2>1 DEF CNRouteHasEvidence, Vouched, VouchedThen
  <2> QED
    BY <1>4, <2>4, <2>5, <2>6, <2>7
<1>7. CASE ~teaches
  <2>1. Return(r) /\ UNCHANGED lesson
    BY <1>2, <1>7
  <2>2. /\ pc' = [pc EXCEPT ![r] = "idle"] /\ route' \in [Reqs -> {None, "cn", "global"}]
        /\ name' \in [Reqs -> Names \union {<<>>}] /\ asked' \in [Reqs -> 0..MaxClock]
        /\ asked'[r] = 0 /\ \A s \in Reqs \ {r} : asked'[s] = asked[s]
    BY <2>1, ReturnKeeps
  <2>3. \A s \in Reqs : pc'[s] = pc[s] \/ (s = r /\ pc'[s] = "idle")
    BY <2>2 DEF TypeOK
  <2>4. TypeOK'
    <3>1. lesson[r] = None /\ old[r] = None
      BY <1>1 DEF TypeOK
    <3>2. /\ \A s \in Reqs : \/ pc'[s] # "learn" /\ lesson[s] = None
                             \/ pc'[s] = "learn" /\ lesson[s] \in [ttl : Nat, now : 0..MaxClock]
          /\ \A s \in Reqs : \/ pc'[s] # "forget" /\ old[s] = None
                             \/ pc'[s] = "forget" /\ old[s] \in Nat
      BY <3>1, <2>3 DEF TypeOK
    <3> QED
      BY <1>1, <1>3, <2>1, <2>2, <3>2 DEF TypeOK, Askable
  <2>5. Past'
    <3>1. clock >= 0
      BY ClockAssumption DEF TypeOK
    <3> QED
      BY <1>1, <1>3, <2>2, <2>3, <3>1 DEF TypeOK, Past
  <2>6. LessonHasEvidence'
    <3>1. ASSUME NEW s \in Reqs, pc'[s] = "learn"
          PROVE  /\ learning'.enabled /\ lesson'[s].now \in Nat /\ lesson'[s].ttl \in Nat
                 /\ Vouched(name[s], lesson[s].now + lesson[s].ttl)'
      <4>1. pc[s] = "learn" /\ name[s] \in Askable /\ UNCHANGED <<lesson[s], name[s]>>
        BY <2>1, <3>1, ReturnKeeps DEF TypeOK, HasName
      <4>2. /\ learning.enabled /\ lesson[s].now \in Nat /\ lesson[s].ttl \in Nat
            /\ Vouched(name[s], lesson[s].now + lesson[s].ttl)
        BY <4>1 DEF LessonHasEvidence
      <4>3. VouchedThen(name[s], lesson[s].now + lesson[s].ttl)
        BY <1>3, <4>1, <4>2
      <4> QED
        BY <1>1, <4>1, <4>2, <4>3 DEF Vouched, VouchedThen
    <3> QED
      BY <3>1 DEF LessonHasEvidence
  <2>7. CNRouteHasEvidence'
    <3>1. ASSUME NEW s \in Reqs, route'[s] = "cn"
          PROVE  \/ InRules(rules', name'[s])
                 \/ learning'.enabled /\ Vouched(name[s], asked[s])'
      <4>1. route[s] = "cn" /\ UNCHANGED <<name[s], asked[s]>>
        BY <2>1, <3>1, ReturnKeeps DEF TypeOK, None
      <4> QED
        BY <1>1, <1>5, <4>1 DEF Vouched, VouchedThen
    <3> QED
      BY <3>1 DEF CNRouteHasEvidence
  <2> QED
    BY <1>4, <2>1, <2>4, <2>5, <2>6, <2>7, ReturnKeeps
<1> QED
  BY <1>6, <1>7

LEMMA LearnKeeps == ASSUME LearnInv, NEW r \in Reqs, Learn(r) PROVE LearnInv'
<1> USE DEF LearnInv
<1>1. /\ pc[r] = "learn" /\ Return(r) /\ UNCHANGED <<rules, learning, clock, old, evidence>>
      /\ lesson' = [lesson EXCEPT ![r] = None]
      /\ learned' = [m \in DOMAIN learned \union {name[r]} |->
                        IF m = name[r] THEN lesson[r].now + lesson[r].ttl ELSE learned[m]]
  BY DEF Learn
<1>2. /\ name[r] \in Askable /\ lesson[r].now \in Nat /\ lesson[r].ttl \in Nat
      /\ learning.enabled /\ Vouched(name[r], lesson[r].now + lesson[r].ttl)
  BY <1>1 DEF HasName, LessonHasEvidence
<1>3. TypeOK'
  <2>1. DOMAIN learned' \subseteq Names \ {<<>>} /\ \A n \in DOMAIN learned' : learned'[n] \in Nat
    BY <1>1, <1>2 DEF TypeOK, Askable
  <2>2. /\ DOMAIN lesson' = Reqs /\ lesson'[r] = None /\ pc'[r] = "idle"
        /\ \A s \in Reqs \ {r} : lesson'[s] = lesson[s] /\ pc'[s] = pc[s]
    BY <1>1, ReturnKeeps DEF TypeOK
  <2>3. \A s \in Reqs : \/ pc'[s] # "learn" /\ lesson'[s] = None
                        \/ pc'[s] = "learn" /\ lesson'[s] \in [ttl : Nat, now : 0..MaxClock]
    BY <2>2 DEF TypeOK
  <2>4. \A s \in Reqs : \/ pc'[s] # "forget" /\ old'[s] = None
                        \/ pc'[s] = "forget" /\ old'[s] \in Nat
    BY <1>1, <2>2 DEF TypeOK
  <2>5. /\ route' \in [Reqs -> {None, "cn", "global"}] /\ pc' = [pc EXCEPT ![r] = "idle"]
        /\ name' \in [Reqs -> Names \union {<<>>}] /\ asked' \in [Reqs -> 0..MaxClock]
    BY <1>1, ReturnKeeps
  <2> QED
    BY <1>1, <2>1, <2>2, <2>3, <2>4, <2>5 DEF TypeOK
<1>4. LearnedHasEvidence'
  BY <1>1, <1>2 DEF LearnedHasEvidence, Vouched
<1>5. LessonHasEvidence' /\ CNRouteHasEvidence' /\ Past'
  BY <1>1, ReturnOnlyEnds DEF TypeOK
<1> QED
  BY <1>1, <1>3, <1>4, <1>5, ReturnKeeps

LEMMA NextKeeps == ASSUME LearnInv, [Next]_vars PROVE LearnInv'
<1>1. CASE UNCHANGED vars
  BY <1>1 DEF vars, LearnInv, TypeOK, LearnedHasEvidence, LessonHasEvidence, HasName, Past, Vouched,
       CNRouteHasEvidence
<1>2. CASE Next
  BY <1>2, TickKeeps, RestartKeeps, ArriveKeeps, CheckKeeps, ForgetKeeps, EndWithoutAnswerKeeps,
     EndWithAnswerKeeps, LearnKeeps DEF Next
<1> QED
  BY <1>1, <1>2

LEMMA LearnInvHolds == Spec => []LearnInv
  BY InitLearnInv, NextKeeps, PTL DEF Spec

\* Every name takes the Chinese route only by a rule, or by answers for it that were all
\* Chinese: the request asks within the ttl, or the floor, of one of them, and with a
\* positive ttl_cap at most that long after the last.  So it is for any ttls, floor and cap,
\* zero and negative ones included, however many requests learn, look up and forget at the
\* same time (IsCNDomain, LearnCNDomain, handleDoHQuery).
THEOREM CNRouteOnlyOnEvidence == Spec => []CNRouteHasEvidence
<1>1. LearnInv => CNRouteHasEvidence
  BY DEF LearnInv
<1> QED
  BY <1>1, LearnInvHolds, PTL

\* The map and all variables stay well-typed; the root is never learned.
THEOREM TypeCorrect == Spec => []TypeOK
<1>1. LearnInv => TypeOK
  BY DEF LearnInv
<1> QED
  BY <1>1, LearnInvHolds, PTL

\* Nothing takes a name from the map before its time but a restart and the race of
\* isLearned, which needs an expired entry for the same name shortly before.
THEOREM OnlyTheRaceForgets == Spec => ForgottenEarlyOnlyInRace
<1> DEFINE Step ==
      \A n \in DOMAIN learned : n \notin DOMAIN learned' /\ learned[n] >= clock =>
          \/ DOMAIN learned' = {} /\ \A r \in Reqs : pc'[r] = "idle"
          \/ \E r \in Reqs : pc[r] = "forget" /\ name[r] = n /\ old[r] < learned[n]
<1>1. ASSUME LearnInv, [Next]_vars PROVE Step
  <2>1. CASE UNCHANGED vars
    BY <2>1 DEF vars
  <2>2. CASE Tick
    BY <2>2 DEF Tick
  <2>3. ASSUME NEW loaded \in Rules, Restart(loaded) PROVE Step
    BY <2>3 DEF Restart
  <2>4. ASSUME NEW r \in Reqs, Arrive(r) \/ Check(r) \/ EndWithoutAnswer(r) \/ EndWithAnswer(r)
        PROVE  learned' = learned
    BY <2>4 DEF Arrive, Check, EndWithoutAnswer, EndWithAnswer
  <2>5. ASSUME NEW r \in Reqs, Learn(r) PROVE DOMAIN learned \subseteq DOMAIN learned'
    BY <2>5 DEF Learn
  <2>6. ASSUME NEW r \in Reqs, Forget(r), NEW n \in DOMAIN learned,
               n \notin DOMAIN learned', learned[n] >= clock
        PROVE  pc[r] = "forget" /\ name[r] = n /\ old[r] < learned[n]
    <3>1. pc[r] = "forget" /\ learned' = [m \in DOMAIN learned \ {name[r]} |-> learned[m]]
      BY <2>6 DEF Forget
    <3>2. name[r] = n
      BY <2>6, <3>1
    <3>3. old[r] < asked[r] /\ asked[r] <= clock
      BY <1>1, <3>1 DEF LearnInv, Past
    <3>4. old[r] \in Nat /\ asked[r] \in Nat /\ clock \in Nat /\ learned[n] \in Nat
      BY <1>1, <3>1, ClockAssumption DEF LearnInv, TypeOK
    <3> QED
      BY <2>6, <3>1, <3>2, <3>3, <3>4
  <2> QED
    BY <1>1, <2>1, <2>2, <2>3, <2>4, <2>5, <2>6 DEF Next
<1>2. LearnInv /\ [Next]_vars => [Step]_vars
  BY <1>1
<1> QED
  BY <1>2, LearnInvHolds, PTL DEF Spec, ForgottenEarlyOnlyInRace
-----------------------------------------------------------------------------
(* Where the rules come from *)

\* The compact file of a download with the local files as they are.
Built(d) == Build(d, local.include, local.exclude)

\* A script that is at work holds the lock, and its temporary files are what its stage
\* has made of them.
Stages ==
    \A s \in Scripts :
        /\ step[s] # "idle" => lock = s
        /\ step[s] \notin {"idle", "curl"} => srcTmp[s] \in Downloads
        /\ step[s] \in {"source", "sourceCopy", "list", "listCopy"} => outTmp[s] = Built(srcTmp[s])
        /\ step[s] \in {"sourceCopy", "list", "listCopy"} => cutOff
        /\ step[s] \in {"list", "listCopy"} => sourceFile = Whole(srcTmp[s])

UpdateInv ==
    /\ local \in LocalFiles
    /\ DOMAIN step = Scripts /\ DOMAIN srcTmp = Scripts /\ DOMAIN outTmp = Scripts
    /\ Stages
    /\ listFile.whole => \E d \in Downloads : listFile.lines = Built(d)
    /\ up => \E d \in Downloads : rules = Load(Built(d))
    /\ FilesAgree

LEMMA UpdateInitInv == UpdateInit => UpdateInv
<1> SUFFICES ASSUME UpdateInit PROVE UpdateInv
  OBVIOUS
<1> PICK d \in Downloads : sourceFile = Whole(d)
  BY DEF UpdateInit
<1>1. listFile = Whole(Built(d)) /\ rules = Load(Built(d))
  BY DEF UpdateInit, Built, Whole
<1> QED
  BY <1>1 DEF UpdateInit, UpdateInv, Stages, FilesAgree, Built, Whole

LEMMA StartKeeps == ASSUME UpdateInv, NEW s \in Scripts, Start(s) PROVE UpdateInv'
<1> USE DEF UpdateInv, Start, At, files, vars
<1>1. Stages'
  BY ScriptsAssumption DEF Stages, Built
<1> QED
  BY <1>1 DEF FilesAgree, Built

LEMMA CurlKeeps == ASSUME UpdateInv, NEW s \in Scripts, Curl(s) PROVE UpdateInv'
<1> USE DEF UpdateInv, Curl, At, vars
<1>1. Stages'
  BY DEF Stages, Built
<1> QED
  BY <1>1 DEF FilesAgree, Built

LEMMA ChinamaxBuildKeeps == ASSUME UpdateInv, NEW s \in Scripts, ChinamaxBuild(s) PROVE UpdateInv'
<1> USE DEF UpdateInv, ChinamaxBuild, At, vars
<1>1. Stages'
  BY DEF Stages, Built
<1> QED
  BY <1>1 DEF FilesAgree, Built

\* The lock makes the one that installs the only one at work.
LEMMA Alone ==
    ASSUME UpdateInv, NEW s \in Scripts, step[s] # "idle"
    PROVE  \A t \in Scripts \ {s} : step[t] = "idle"
  BY DEF UpdateInv, Stages

LEMMA InstallSourceKeeps == ASSUME UpdateInv, NEW s \in Scripts, InstallSource(s) PROVE UpdateInv'
<1> USE DEF UpdateInv, At, vars
<1>1. step[s] # "idle" /\ UNCHANGED <<rules, local, listFile, srcTmp, outTmp, lock, up>>
  BY DEF InstallSource
<1>2. \A t \in Scripts \ {s} : step[t] = "idle" /\ step'[t] = "idle"
  BY <1>1, Alone DEF InstallSource
<1>3. Stages'
  BY <1>1, <1>2 DEF InstallSource, Stages, Built
<1>4. cutOff'
  BY DEF InstallSource, Stages
<1>5. DOMAIN step' = Scripts
  BY DEF InstallSource
<1> QED
  BY <1>1, <1>3, <1>4, <1>5 DEF FilesAgree, Built

LEMMA InstallListKeeps == ASSUME UpdateInv, NEW s \in Scripts, InstallList(s) PROVE UpdateInv'
<1> USE DEF UpdateInv, At, vars
<1>1. step[s] # "idle" /\ UNCHANGED <<rules, local, sourceFile, srcTmp, outTmp, lock, up>>
  BY DEF InstallList
<1>2. \A t \in Scripts \ {s} : step[t] = "idle" /\ step'[t] = "idle"
  BY <1>1, Alone DEF InstallList
<1>3. Stages'
  BY <1>1, <1>2 DEF InstallList, Stages, Built
<1>4. CASE At(s, "list", "listCopy") /\ listFile' = Cut /\ UNCHANGED cutOff
  BY <1>1, <1>3, <1>4 DEF Stages, FilesAgree, Built, Cut
<1>5. CASE At(s, "listCopy", "restart") /\ listFile' = Whole(outTmp[s]) /\ cutOff' = FALSE
  <2>1. outTmp[s] = Built(srcTmp[s]) /\ srcTmp[s] \in Downloads /\ sourceFile = Whole(srcTmp[s])
    BY <1>5 DEF Stages
  <2> QED
    BY <1>1, <1>3, <1>5, <2>1 DEF FilesAgree, Built, Whole
<1> QED
  BY <1>4, <1>5 DEF InstallList

LEMMA ExitKeepsStages ==
    ASSUME UpdateInv, NEW s \in Scripts, Exit(s), UNCHANGED <<local, sourceFile, cutOff>>
    PROVE  Stages' /\ DOMAIN step' = Scripts /\ DOMAIN srcTmp' = Scripts /\ DOMAIN outTmp' = Scripts
<1>1. \A t \in Scripts \ {s} : step'[t] # "idle" => lock' = t
  BY ScriptsAssumption DEF UpdateInv, Stages, Exit
<1> QED
  BY <1>1 DEF UpdateInv, Stages, Exit, Built

LEMMA EndsKeep ==
    ASSUME UpdateInv, NEW s \in Scripts, RestartService(s) \/ Fail(s) PROVE UpdateInv'
<1>1. Exit(s) /\ UNCHANGED <<local, sourceFile, listFile, cutOff>>
  BY DEF RestartService, Fail
<1>2. ~up' \/ UNCHANGED <<rules, up>>
  BY DEF RestartService, Fail, vars
<1> QED
  BY <1>1, <1>2, ExitKeepsStages DEF UpdateInv, FilesAgree, Built

LEMMA ProcessKeeps == ASSUME UpdateInv, Crash \/ LoadRules \/ Serve PROVE UpdateInv'
<1>1. UNCHANGED updateVars
  BY DEF Crash, LoadRules, Serve
<1>2. Stages' /\ FilesAgree' /\ local' \in LocalFiles
  BY <1>1 DEF UpdateInv, Stages, FilesAgree, Built, updateVars, files
<1>3. up' => \E d \in Downloads : rules' = Load(Built(d))
  <2>1. CASE Crash
    BY <2>1 DEF Crash
  <2>2. CASE LoadRules
    BY <2>2 DEF LoadRules, Restart, UpdateInv
  <2>3. CASE Serve
    <3>1. rules' = rules /\ up' = up
      BY <2>3 DEF Serve, Tick, Arrive, Check, Forget, EndWithoutAnswer, EndWithAnswer, Learn
    <3> QED
      BY <3>1 DEF UpdateInv
  <2> QED
    BY <2>1, <2>2, <2>3
<1> QED
  BY <1>1, <1>2, <1>3 DEF UpdateInv, Built, updateVars, files

LEMMA UpdateNextKeeps == ASSUME UpdateInv, [UpdateNext]_allVars PROVE UpdateInv'
<1>1. CASE UNCHANGED allVars
  BY <1>1 DEF allVars, vars, updateVars, files, UpdateInv, Stages, FilesAgree, Built
<1> QED
  BY <1>1, StartKeeps, CurlKeeps, ChinamaxBuildKeeps, InstallSourceKeeps, InstallListKeeps, EndsKeep,
     ProcessKeeps DEF UpdateNext, ScriptStep

LEMMA UpdateInvHolds == UpdateSpec => []UpdateInv
  BY UpdateInitInv, UpdateNextKeeps, PTL DEF UpdateSpec

\* The installed source is the one the installed list was built from, whenever no script
\* was stopped between its two installs: two scripts never mix theirs (update-rules.sh).
THEOREM FilesAlwaysAgree == UpdateSpec => []FilesAgree
<1>1. UpdateInv => FilesAgree
  BY DEF UpdateInv
<1> QED
  BY <1>1, UpdateInvHolds, PTL

\* What a kind of rule looks like after the build: both ways of saying it agree.
LEMMA BuildMeans ==
    ASSUME NEW d \in Downloads, NEW f \in LocalFiles, NEW kind \in Kinds \ {"cidr"}
    PROVE  {l.name : l \in {x \in Build(d, f.include, f.exclude) : x.kind = kind}} =
               (Meant(d, kind) \union MeantLocally(f.include, kind)) \ MeantLocally(f.exclude, kind)
<1> DEFINE Plain(n) == [kind |-> kind, name |-> n, style |-> "plain"]
<1>1. ASSUME NEW l \in Lines
      PROVE  /\ Normalized(l).kind = l.kind /\ Normalized(l).name = l.name
             /\ l.kind = kind => Normalized(l) = Plain(l.name)
             /\ LocalRule(l).name = l.name
             /\ LocalRule(l).kind = kind <=> l.kind = kind \/ (kind = "suffix" /\ l.kind = "bare")
             /\ LocalRule(l).kind = kind => LocalRule(l) = Plain(l.name)
  BY DEF Lines, Kinds, Normalized, LocalRule
<1>2. kind \in Kinds /\ \A n : Plain(n).kind = kind /\ Plain(n).name = n
  OBVIOUS
<1> DEFINE Src == UNION {consume(l) : l \in d}
           Rule(lines) == {LocalRule(l) : l \in lines}
<1>3. Build(d, f.include, f.exclude) =
           {l \in (Src \union Rule(f.include)) \ Rule(f.exclude) : l.name # <<>>}
  BY DEF Build
<1>4. ASSUME NEW x \in Src PROVE \E l \in d : l.kind \in Kinds /\ x = Normalized(l)
  BY DEF consume
<1>5. ASSUME NEW x \in Rule(f.include) PROVE \E l \in f.include : x = LocalRule(l)
  OBVIOUS
<1> HIDE DEF Plain
<1>6. d \subseteq Lines /\ f.include \subseteq Lines /\ f.exclude \subseteq Lines
  BY DownloadsAssumption, LocalAssumption
<1>7. ASSUME NEW n
      PROVE  Plain(n) \in Src <=> \E l \in d : l.kind = kind /\ l.name = n
  BY <1>1, <1>6, <1>2 DEF consume
<1>8. ASSUME NEW n, NEW lines \in {f.include, f.exclude}
      PROVE  Plain(n) \in Rule(lines) <=>
                 \E l \in lines : l.name = n /\ (l.kind = kind \/ (kind = "suffix" /\ l.kind = "bare"))
  BY <1>1, <1>6, <1>2
<1>9. ASSUME NEW x \in Build(d, f.include, f.exclude), x.kind = kind PROVE x = Plain(x.name)
  <2>1. \/ \E l \in d : l.kind \in Kinds /\ x = Normalized(l)
        \/ \E l \in f.include : x = LocalRule(l)
    <3> HIDE DEF Src, Rule
    <3> QED
      BY <1>9, <1>3, <1>4, <1>5
  <2>2. ASSUME NEW l \in d, x = Normalized(l) PROVE x = Plain(x.name)
    BY <1>1, <1>6, <1>9, <2>2
  <2>3. ASSUME NEW l \in f.include, x = LocalRule(l) PROVE x = Plain(x.name)
    BY <1>1, <1>6, <1>9, <2>3
  <2> QED
    BY <2>1, <2>2, <2>3
<1>10. ASSUME NEW n
      PROVE  n \in {l.name : l \in {x \in Build(d, f.include, f.exclude) : x.kind = kind}} <=>
                 Plain(n) \in Build(d, f.include, f.exclude)
  BY <1>9, <1>2
<1>11. ASSUME NEW n, NEW lines \in {f.include, f.exclude}
      PROVE  n \in MeantLocally(lines, kind) <=> n # <<>> /\ Plain(n) \in Rule(lines)
  BY <1>8 DEF MeantLocally, Meant
<1>12. ASSUME NEW n
      PROVE  n \in Meant(d, kind) <=> n # <<>> /\ Plain(n) \in Src
  BY <1>7 DEF Meant
<1>13. ASSUME NEW n
      PROVE  Plain(n) \in Build(d, f.include, f.exclude) <=>
                 /\ n # <<>> /\ Plain(n) \notin Rule(f.exclude)
                 /\ \/ Plain(n) \in Src
                    \/ Plain(n) \in Rule(f.include)
  <2> HIDE DEF Src, Rule
  <2> QED
    BY <1>2, <1>3
<1>14. ASSUME NEW n
       PROVE  n \in {l.name : l \in {x \in Build(d, f.include, f.exclude) : x.kind = kind}} <=>
                  (n \in Meant(d, kind) \/ n \in MeantLocally(f.include, kind))
                      /\ n \notin MeantLocally(f.exclude, kind)
  <2>1. n \in MeantLocally(f.include, kind) <=>
            n # <<>> /\ Plain(n) \in Rule(f.include)
    BY <1>11
  <2>2. n \in MeantLocally(f.exclude, kind) <=>
            n # <<>> /\ Plain(n) \in Rule(f.exclude)
    BY <1>11
  <2> QED
    BY <1>10, <1>12, <1>13, <2>1, <2>2
<1> QED
  BY <1>14

\* A serving process uses the rules of one whole download with the operator's additions
\* and without what the operator excluded, however each of the files writes a name
\* (chinamax-build, update-rules.sh, chinarules.Load).
THEOREM RulesAlwaysAsWritten == UpdateSpec => []RulesAsWritten
<1>1. ASSUME UpdateInv, up PROVE RulesAsWritten
  <2>1. PICK d \in Downloads : rules = Load(Built(d))
    BY <1>1 DEF UpdateInv
  <2> DEFINE Of(kind) == {l.name : l \in {x \in Built(d) : x.kind = kind}}
             Wanted(kind) == (Meant(d, kind) \union MeantLocally(local.include, kind))
                                 \ MeantLocally(local.exclude, kind)
  <2>2. rules.exacts = Of("exact") /\ rules.suffixes = Of("suffix") /\ rules.keywords = Of("keyword")
    BY <2>1 DEF Load
  <2>3. ASSUME NEW kind \in Kinds \ {"cidr"} PROVE Of(kind) = Wanted(kind)
    BY <1>1, BuildMeans DEF UpdateInv, Built
  <2>4. rules.nets \ Wanted("cidr") \subseteq
            {l.name : l \in {x \in (d \union local.include) \ local.exclude : x.kind = "cidr"}}
    <3>1. ASSUME NEW l \in Lines
          PROVE  /\ Normalized(l).kind = "cidr" => Normalized(l) = l
                 /\ LocalRule(l).kind = "cidr" <=> l.kind = "cidr"
                 /\ l.kind = "cidr" => LocalRule(l) = l
      BY DEF Lines, Kinds, Normalized, LocalRule
    <3>2. d \subseteq Lines /\ local.include \subseteq Lines /\ local.exclude \subseteq Lines
      BY <1>1, DownloadsAssumption, LocalAssumption DEF UpdateInv
    <3>3. ASSUME NEW n \in rules.nets PROVE \E x \in Built(d) : x.kind = "cidr" /\ x.name = n
      BY <2>1 DEF Load
    <3>4. ASSUME NEW x \in Built(d), x.kind = "cidr"
          PROVE  x \in (d \union local.include) \ local.exclude
      <4>1. x \notin {LocalRule(l) : l \in local.exclude}
        BY DEF Built, Build
      <4>2. \/ \E l \in d : x = Normalized(l)
            \/ \E l \in local.include : x = LocalRule(l)
        BY DEF Built, Build, consume
      <4> QED
        BY <3>1, <3>2, <3>4, <4>1, <4>2
    <3> QED
      BY <3>3, <3>4
  <2> QED
    BY <2>2, <2>3, <2>4 DEF RulesAsWritten, Kinds
<1>2. UpdateInv => RulesAsWritten
  BY <1>1 DEF RulesAsWritten
<1> QED
  BY <1>2, UpdateInvHolds, PTL

LEMMA LoadGivesRules == ASSUME NEW list, list \subseteq Lines PROVE Load(list) \in Rules
<1>1. \A l \in list : l.name \in Seq(STRING)
  BY DEF Lines
<1> QED
  BY <1>1 DEF Load, Rules

LEMMA BuildGivesLines ==
    ASSUME NEW d \in Downloads, NEW f \in LocalFiles PROVE Build(d, f.include, f.exclude) \subseteq Lines
<1>1. \A l \in Lines : Normalized(l) \in Lines /\ LocalRule(l) \in Lines
  BY DEF Lines, Kinds, Normalized, LocalRule
<1>2. d \subseteq Lines /\ f.include \subseteq Lines
  BY DownloadsAssumption, LocalAssumption
<1> QED
  BY <1>1, <1>2 DEF Build, consume

\* Updates, crashes and restarts are restarts of CNLearning with some rules: what is shown
\* of the learning holds while the rules are replaced beneath it.
THEOREM UpdatesImplementLearning == UpdateSpec => Spec
<1>1. UpdateSpec => Init
  BY DEF UpdateSpec
<1>2. ASSUME UpdateInv, [UpdateNext]_allVars PROVE [Next]_vars
  <2>1. NoRules \in Rules
    BY LoadGivesRules DEF NoRules
  <2>2. CASE Crash
    BY <2>1, <2>2 DEF Crash, Next
  <2>3. CASE LoadRules
    <3>1. PICK d \in Downloads : listFile.lines = Built(d)
      BY <1>2, <2>3 DEF LoadRules, UpdateInv
    <3>2. Load(listFile.lines) \in Rules
      BY <1>2, <3>1, BuildGivesLines, LoadGivesRules DEF UpdateInv, Built
    <3> QED
      BY <2>3, <3>2 DEF LoadRules, Next
  <2>4. CASE Serve
    BY <2>4 DEF Serve, Next
  <2>5. ASSUME NEW s \in Scripts, Start(s) \/ ScriptStep(s) \/ Fail(s) PROVE [Next]_vars
    <3>1. UNCHANGED vars \/ Restart(NoRules)
      BY <2>5 DEF Start, ScriptStep, Curl, ChinamaxBuild, InstallSource, InstallList, RestartService, Fail
    <3> QED
      BY <2>1, <3>1 DEF Next
  <2>6. CASE UNCHANGED allVars
    BY <2>6 DEF allVars
  <2> QED
    BY <1>2, <2>2, <2>3, <2>4, <2>5, <2>6 DEF UpdateNext
<1> QED
  BY <1>1, <1>2, UpdateInvHolds, PTL DEF UpdateSpec, Spec
=============================================================================
