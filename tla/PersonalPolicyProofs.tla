------------------------ MODULE PersonalPolicyProofs ------------------------
(* Theorems about PersonalPolicy and QueryLog, for any owners, names, lists   *)
(* and requests.                                                              *)
EXTENDS QueryLog, SequenceTheorems, TLAPS

Entries == Sets \X Listed

\* Types the other conjuncts need; TypeOK has the rest.
Typed ==
    /\ TypeOK
    /\ name \in [Reqs -> Seq(STRING)]
    /\ candidate \in [Reqs -> Seq(STRING)]
    /\ failed \in [Reqs -> BOOLEAN]
    /\ standing \in [Reqs -> SUBSET Entries]
    /\ ever \in [Reqs -> SUBSET Entries]

\* What stood all the time stands now, and what stands now stood at some time.
NowIsBetween ==
    \A r \in Reqs : pc[r] # "idle" =>
        /\ standing[r] \subseteq EntriesAgainst(owner[r], name[r])
        /\ EntriesAgainst(owner[r], name[r]) \subseteq ever[r]

\* The loop of knownRuleSetMatch climbs from the name, and what stood all the time is ahead of it.
LoopIsBelow ==
    \A r \in Reqs : pc[r] = "lists" =>
        /\ candidate[r] = <<>> \/ candidate[r] \in WithParents(NormalizeDomain(name[r]))
        /\ \A e \in standing[r] : e[2] \in WithParents(candidate[r])

\* Before a rule or a list has decided, neither is the reason; an idle request has no reason.
ReasonIsLate ==
    \A r \in Reqs :
        /\ pc[r] \in {"idle", "rules", "lists"} => by[r] = None
        /\ pc[r] = "idle" => standing[r] = {}

PolicyInv ==
    Typed /\ NowIsBetween /\ LoopIsBelow /\ ReasonIsLate /\ StandingEntryBlocks /\ BlockedOnlyIfListed
-----------------------------------------------------------------------------
(* Domains *)

\* What normalizeDomain returns is a domain again.
LEMMA NormalizedIsDomain == \A d \in Seq(STRING) : NormalizeDomain(d) \in Seq(STRING)
<1> SUFFICES ASSUME NEW d \in Seq(STRING), d # <<>> PROVE NormalizeDomain(d) \in Seq(STRING)
  BY DEF NormalizeDomain
<1> QED
  BY HeadTailProperties DEF NormalizeDomain

LEMMA ListedAreDomains == Listed \subseteq Seq(STRING)
  BY DomainsAssumption, NormalizedIsDomain DEF Listed

LEMMA EntriesAreTyped ==
    ASSUME NEW o, NEW n PROVE EntriesAgainst(o, n) \subseteq Entries
  BY DEF EntriesAgainst, Entries

\* The root has no parents, and a domain is among its own.
LEMMA RootHasNoParents == WithParents(<<>>) = {}
  BY DEF WithParents

LEMMA OwnParent == \A d \in Seq(STRING) : d # <<>> => d \in WithParents(d)
<1> SUFFICES ASSUME NEW d \in Seq(STRING), d # <<>> PROVE d \in WithParents(d)
  OBVIOUS
<1>1. 1 \in 1..Len(d)
  BY EmptySeq
<1>2. SubSeq(d, 1, Len(d)) = d
  BY SubSeqFull
<1> QED
  BY <1>1, <1>2 DEF WithParents

\* Leaving a domain out, its parents are those of the domain without its first label.
LEMMA ParentsOfParent ==
    \A d \in Seq(STRING) : d # <<>> => WithParents(d) \ {d} \subseteq WithParents(parentDomain(d))
<1> SUFFICES ASSUME NEW d \in Seq(STRING), d # <<>>, NEW i \in 1..Len(d), SubSeq(d, i, Len(d)) # d
             PROVE  SubSeq(d, i, Len(d)) \in WithParents(Tail(d))
  BY DEF WithParents, parentDomain
<1>1. i # 1
  BY SubSeqFull
<1>2. Tail(d) \in Seq(STRING) /\ Len(Tail(d)) = Len(d) - 1
  BY HeadTailProperties
<1>3. i - 1 \in 1..Len(Tail(d))
  BY <1>1, <1>2, LenProperties
<1>4. SubSeq(Tail(d), i - 1, Len(Tail(d))) = SubSeq(d, i, Len(d))
  <2>1. Len(d) \in Nat /\ 2 \in 1..Len(d) /\ Tail(d) = SubSeq(d, 2, Len(d))
    BY <1>1, LenProperties, TailIsSubSeq
  <2>2. SubSeq(SubSeq(d, 2, Len(d)), i - 1, Len(d) - 1) = SubSeq(d, 2 + (i - 1) - 1, 2 + (Len(d) - 1) - 1)
    <3>1. Len(d) \in 1..Len(d) /\ i - 1 \in 1..(Len(d) - 2 + 1) /\ Len(d) - 1 \in 1..(Len(d) - 2 + 1)
      BY <1>1, <2>1
    <3> QED
      BY <2>1, <3>1, SubSeqOfSubSeq
  <2> QED
    BY <1>2, <2>1, <2>2
<1> QED
  BY <1>3, <1>4 DEF WithParents

\* The parent of a parent of d is one of its parents, unless it is the root.
LEMMA ParentIsParent ==
    \A d \in Seq(STRING) : \A c \in WithParents(d) :
        c \in Seq(STRING) /\ (parentDomain(c) = <<>> \/ parentDomain(c) \in WithParents(d))
<1> SUFFICES ASSUME NEW d \in Seq(STRING), NEW i \in 1..Len(d)
             PROVE  /\ SubSeq(d, i, Len(d)) \in Seq(STRING)
                    /\ \/ Tail(SubSeq(d, i, Len(d))) = <<>>
                       \/ Tail(SubSeq(d, i, Len(d))) \in WithParents(d)
  BY DEF WithParents, parentDomain
<1>1. Len(d) \in Nat /\ SubSeq(d, i, Len(d)) \in Seq(STRING)
  BY SubSeqProperties, LenProperties
<1>2. Tail(SubSeq(d, i, Len(d))) = SubSeq(d, i + 1, Len(d))
  BY <1>1, HeadTailOfSubSeq
<1>3. CASE i = Len(d)
  BY <1>1, <1>2, <1>3, SubSeqEmpty
<1>4. CASE i # Len(d)
  <2>1. i + 1 \in 1..Len(d)
    BY <1>1, <1>4
  <2> QED
    BY <1>1, <1>2, <2>1 DEF WithParents
<1> QED
  BY <1>1, <1>3, <1>4
-----------------------------------------------------------------------------
LEMMA InitPolicyInv == Init => PolicyInv
<1> SUFFICES ASSUME Init PROVE PolicyInv
  OBVIOUS
<1> USE DEF Init, None
<1>1. TypeOK
  BY ClockAssumption DEF TypeOK
<1> QED
  BY <1>1 DEF PolicyInv, Typed, NowIsBetween, LoopIsBelow, ReasonIsLate, StandingEntryBlocks,
              BlockedOnlyIfListed

LEMMA TickKeeps == ASSUME PolicyInv, Tick PROVE PolicyInv'
<1> USE DEF Tick, PolicyInv, store, request, history
<1>1. TypeOK'
  BY ClockAssumption DEF Typed, TypeOK
<1>2. \A o, n : EntriesAgainst(o, n)' = EntriesAgainst(o, n)
  BY DEF EntriesAgainst
<1> QED
  BY <1>1, <1>2 DEF Typed, NowIsBetween, LoopIsBelow, ReasonIsLate, StandingEntryBlocks,
                    BlockedOnlyIfListed

LEMMA ArriveKeeps == ASSUME PolicyInv, NEW r \in Reqs, Arrive(r) PROVE PolicyInv'
<1> USE DEF PolicyInv
<1>1. PICK o \in Owners \union {Anonymous}, n \in Names, blockedCountry \in BOOLEAN, lookup \in BOOLEAN :
        /\ owner' = [owner EXCEPT ![r] = o] /\ name' = [name EXCEPT ![r] = n]
        /\ standing' = [standing EXCEPT ![r] = EntriesAgainst(o, n)]
        /\ ever' = [ever EXCEPT ![r] = EntriesAgainst(o, n)]
        /\ \/ /\ o \in Owners /\ pc' = [pc EXCEPT ![r] = "rules"] /\ UNCHANGED <<verdict, by>>
           \/ /\ o = Anonymous /\ pc' = [pc EXCEPT ![r] = "done"] /\ by' = [by EXCEPT ![r] = None]
              /\ verdict' = [verdict EXCEPT ![r] = IF blockedCountry /\ ~lookup THEN "451" ELSE "resolve"]
  BY DEF Arrive, Decide, Goto
<1>2. pc[r] = "idle" /\ UNCHANGED <<clock, rules, prefs, mode, lists, candidate, failed>>
  BY DEF Arrive, store
<1>3. n \in Seq(STRING) /\ EntriesAgainst(o, n) \subseteq Entries
  BY DomainsAssumption, EntriesAreTyped
<1>4. o = Anonymous => EntriesAgainst(o, n) = {}
  BY OwnersAssumption DEF EntriesAgainst
<1>5. \A p, m : EntriesAgainst(p, m)' = EntriesAgainst(p, m)
  BY <1>2 DEF EntriesAgainst
<1> USE <1>1, <1>2, <1>3, <1>4
<1>6. TypeOK'
  BY DEF Typed, TypeOK, None
<1>7. Typed'
  BY <1>6 DEF Typed
<1>8. NowIsBetween'
  BY <1>5 DEF Typed, TypeOK, NowIsBetween
<1>9. LoopIsBelow' /\ ReasonIsLate' /\ BlockedOnlyIfListed'
  BY DEF Typed, TypeOK, LoopIsBelow, ReasonIsLate, BlockedOnlyIfListed, None
<1>10. StandingEntryBlocks'
  BY DEF Typed, TypeOK, StandingEntryBlocks
<1> QED
  BY <1>7, <1>8, <1>9, <1>10

\* A step of a request between its arrival and its end leaves the database alone, and whose
\* query it is.
LEMMA NowStaysBetween ==
    ASSUME PolicyInv, UNCHANGED <<store, owner, name, standing, ever>>,
           \A r \in Reqs : pc'[r] # "idle" => pc[r] # "idle"
    PROVE  NowIsBetween'
<1>1. \A o, n : EntriesAgainst(o, n)' = EntriesAgainst(o, n)
  BY DEF EntriesAgainst, store
<1> QED
  BY <1>1 DEF PolicyInv, NowIsBetween

LEMMA AskRulesKeeps == ASSUME PolicyInv, NEW r \in Reqs, AskRules(r) PROVE PolicyInv'
<1> USE DEF PolicyInv
<1>1. pc[r] = "rules" /\ UNCHANGED <<clock, store, owner, name, standing, ever>>
  BY DEF AskRules
<1>2. failed' \in [Reqs -> BOOLEAN] /\ \A q \in Reqs \ {r} : failed'[q] = failed[q]
  BY DEF AskRules, Works, Fails, Typed
<1>3. name[r] \in Seq(STRING) /\ NormalizeDomain(name[r]) \in Seq(STRING)
  BY NormalizedIsDomain DEF Typed
<1> USE <1>1, <1>2
<1>4. CASE by' = [by EXCEPT ![r] = "rule"] /\ Goto(r, "block") /\ UNCHANGED <<verdict, candidate>>
  <2> USE <1>4 DEF Goto, store
  <2>1. TypeOK'
    BY DEF Typed, TypeOK
  <2>2. NowIsBetween'
    BY NowStaysBetween DEF Typed, TypeOK
  <2>3. Typed' /\ LoopIsBelow' /\ ReasonIsLate' /\ BlockedOnlyIfListed'
    BY <2>1 DEF Typed, TypeOK, LoopIsBelow, ReasonIsLate, BlockedOnlyIfListed, None
  <2>4. StandingEntryBlocks'
    BY DEF Typed, TypeOK, StandingEntryBlocks
  <2> QED
    BY <2>2, <2>3, <2>4
<1>5. CASE Decide(r, "resolve", "rule") /\ UNCHANGED candidate
  <2> USE <1>5 DEF Decide, Goto, store
  <2>1. TypeOK'
    BY DEF Typed, TypeOK
  <2>2. NowIsBetween'
    BY NowStaysBetween DEF Typed, TypeOK
  <2>3. Typed' /\ LoopIsBelow' /\ ReasonIsLate' /\ BlockedOnlyIfListed'
    BY <2>1 DEF Typed, TypeOK, LoopIsBelow, ReasonIsLate, BlockedOnlyIfListed, None
  <2>4. StandingEntryBlocks'
    BY DEF Typed, TypeOK, StandingEntryBlocks
  <2> QED
    BY <2>2, <2>3, <2>4
<1>6. CASE /\ candidate' = [candidate EXCEPT ![r] = NormalizeDomain(name[r])]
           /\ Goto(r, "lists") /\ UNCHANGED <<verdict, by>>
  <2> USE <1>6 DEF Goto, store
  <2>1. TypeOK'
    BY DEF Typed, TypeOK
  <2>2. NowIsBetween'
    BY NowStaysBetween DEF Typed, TypeOK
  <2>3. Typed'
    BY <1>3, <2>1 DEF Typed
  <2>4. ReasonIsLate' /\ BlockedOnlyIfListed'
    BY DEF Typed, TypeOK, ReasonIsLate, BlockedOnlyIfListed, None
  <2>5. StandingEntryBlocks'
    BY DEF Typed, TypeOK, StandingEntryBlocks
  <2>6. \A e \in standing[r] : e[2] \in WithParents(NormalizeDomain(name[r]))
    BY DEF NowIsBetween, EntriesAgainst
  <2>7. NormalizeDomain(name[r]) # <<>> => NormalizeDomain(name[r]) \in WithParents(NormalizeDomain(name[r]))
    BY <1>3, OwnParent
  <2>8. LoopIsBelow'
    BY <2>6, <2>7 DEF Typed, TypeOK, LoopIsBelow
  <2> QED
    BY <2>2, <2>3, <2>4, <2>5, <2>8
<1> QED
  BY <1>4, <1>5, <1>6 DEF AskRules

LEMMA AskListsKeeps == ASSUME PolicyInv, NEW r \in Reqs, AskLists(r) PROVE PolicyInv'
<1> USE DEF PolicyInv
<1> DEFINE c == candidate[r]
<1>1. pc[r] = "lists" /\ UNCHANGED <<clock, store, owner, name, standing, ever>>
  BY DEF AskLists
<1>2. failed' \in [Reqs -> BOOLEAN] /\ \A q \in Reqs \ {r} : failed'[q] = failed[q]
  BY DEF AskLists, Works, Fails, Typed
<1>3. /\ name[r] \in Seq(STRING) /\ NormalizeDomain(name[r]) \in Seq(STRING) /\ c \in Seq(STRING)
      /\ c # <<>> => c \in WithParents(NormalizeDomain(name[r]))
      /\ \A e \in standing[r] : e[2] \in WithParents(c)
  BY <1>1, NormalizedIsDomain DEF Typed, LoopIsBelow
<1>4. /\ owner[r] \in Owners /\ standing[r] \subseteq EntriesAgainst(owner[r], name[r])
      /\ EntriesAgainst(owner[r], name[r]) \subseteq ever[r]
  BY <1>1 DEF Typed, TypeOK, NowIsBetween
<1> USE <1>1, <1>2
<1>5. CASE Decide(r, "resolve", None) /\ UNCHANGED candidate /\ (c = <<>> \/ Fails(r))
  <2> USE <1>5 DEF Decide, Goto, store
  <2>1. TypeOK'
    BY DEF Typed, TypeOK, None
  <2>2. NowIsBetween'
    BY NowStaysBetween DEF Typed, TypeOK
  <2>3. Typed' /\ LoopIsBelow' /\ ReasonIsLate' /\ BlockedOnlyIfListed'
    BY <2>1 DEF Typed, TypeOK, LoopIsBelow, ReasonIsLate, BlockedOnlyIfListed, None
  <2>4. standing[r] = {} \/ failed'[r]
    BY <1>3, RootHasNoParents DEF Fails, Typed
  <2>5. StandingEntryBlocks'
    BY <2>4 DEF Typed, TypeOK, StandingEntryBlocks
  <2> QED
    BY <2>2, <2>3, <2>5
<1>6. CASE /\ c # <<>> /\ Found(owner[r], c)
           /\ by' = [by EXCEPT ![r] = "list"] /\ Goto(r, "block") /\ UNCHANGED <<candidate, verdict>>
  <2> USE <1>6 DEF Goto, store
  <2>1. TypeOK'
    BY DEF Typed, TypeOK
  <2>2. NowIsBetween'
    BY NowStaysBetween DEF Typed, TypeOK
  <2>3. Typed' /\ LoopIsBelow' /\ ReasonIsLate'
    BY <2>1 DEF Typed, TypeOK, LoopIsBelow, ReasonIsLate, None
  <2>4. PICK s \in prefs[owner[r]] : c \in lists[s]
    BY DEF Found
  <2>5. s \in Sets /\ c \in Listed
    BY <1>4, <2>4 DEF Typed, TypeOK
  <2>6. <<s, c>> \in EntriesAgainst(owner[r], name[r])
    BY <1>3, <1>4, <2>4, <2>5 DEF EntriesAgainst
  <2>7. BlockedOnlyIfListed'
    BY <1>4, <2>6 DEF Typed, TypeOK, BlockedOnlyIfListed
  <2>8. StandingEntryBlocks'
    BY DEF Typed, TypeOK, StandingEntryBlocks
  <2> QED
    BY <2>2, <2>3, <2>7, <2>8
<1>7. CASE /\ c # <<>> /\ ~Found(owner[r], c)
           /\ candidate' = [candidate EXCEPT ![r] = parentDomain(c)] /\ UNCHANGED <<pc, verdict, by>>
           /\ Works
  <2> USE <1>7 DEF store, Works
  <2>1. TypeOK'
    BY DEF Typed, TypeOK
  <2>2. NowIsBetween'
    BY NowStaysBetween DEF Typed, TypeOK
  <2>3. parentDomain(c) \in Seq(STRING)
    BY <1>3, HeadTailProperties DEF parentDomain
  <2>4. Typed'
    BY <2>1, <2>3 DEF Typed
  <2>5. ReasonIsLate' /\ BlockedOnlyIfListed' /\ StandingEntryBlocks'
    BY DEF Typed, TypeOK, ReasonIsLate, BlockedOnlyIfListed, StandingEntryBlocks, None
  <2>6. parentDomain(c) = <<>> \/ parentDomain(c) \in WithParents(NormalizeDomain(name[r]))
    BY <1>3, ParentIsParent
  <2>7. \A e \in standing[r] : e[2] \in WithParents(parentDomain(c))
    <3> SUFFICES ASSUME NEW e \in standing[r] PROVE e[2] \in WithParents(parentDomain(c))
      OBVIOUS
    <3>1. e[1] \in prefs[owner[r]] /\ e[2] \in lists[e[1]]
      BY <1>4 DEF EntriesAgainst
    <3>2. e[2] # c
      BY <3>1 DEF Found
    <3> QED
      BY <1>3, <3>2, ParentsOfParent
  <2>8. LoopIsBelow'
    BY <2>6, <2>7 DEF Typed, LoopIsBelow
  <2> QED
    BY <2>2, <2>4, <2>5, <2>8
<1> QED
  BY <1>5, <1>6, <1>7 DEF AskLists

LEMMA BlockKeeps == ASSUME PolicyInv, NEW r \in Reqs, Block(r) PROVE PolicyInv'
<1> USE DEF PolicyInv
<1>1. pc[r] = "block" /\ UNCHANGED <<clock, store, owner, name, candidate, standing, ever>>
  BY DEF Block
<1>2. failed' \in [Reqs -> BOOLEAN] /\ \A q \in Reqs \ {r} : failed'[q] = failed[q]
  BY DEF Block, Works, Fails, Typed
<1>3. PICK v \in {"nxdomain", "block_page"} : Decide(r, v, by[r])
  BY <1>1 DEF Block, Typed, TypeOK
<1> USE <1>1, <1>2, <1>3 DEF Decide, Goto, store
<1>4. TypeOK'
  BY DEF Typed, TypeOK
<1>5. NowIsBetween'
  BY NowStaysBetween DEF Typed, TypeOK
<1>6. Typed' /\ LoopIsBelow' /\ ReasonIsLate' /\ BlockedOnlyIfListed'
  BY <1>4 DEF Typed, TypeOK, LoopIsBelow, ReasonIsLate, BlockedOnlyIfListed
<1>7. StandingEntryBlocks'
  BY DEF Typed, TypeOK, StandingEntryBlocks
<1> QED
  BY <1>5, <1>6, <1>7

LEMMA LeaveKeeps == ASSUME PolicyInv, NEW r \in Reqs, Leave(r) PROVE PolicyInv'
<1> USE DEF PolicyInv, Leave, Goto, store
<1>1. \A o, n : EntriesAgainst(o, n)' = EntriesAgainst(o, n)
  BY DEF EntriesAgainst
<1>2. TypeOK'
  BY DEF Typed, TypeOK, None
<1>3. <<>> \in Seq(STRING)
  OBVIOUS
<1>4. Typed'
  BY <1>2, <1>3 DEF Typed
<1>5. NowIsBetween'
  BY <1>1 DEF Typed, TypeOK, NowIsBetween
<1>6. LoopIsBelow' /\ ReasonIsLate' /\ BlockedOnlyIfListed' /\ StandingEntryBlocks'
  BY DEF Typed, TypeOK, LoopIsBelow, ReasonIsLate, BlockedOnlyIfListed, StandingEntryBlocks, None
<1> QED
  BY <1>4, <1>5, <1>6

\* A change by the console or the refresher: requests do not move, and what stands against
\* them is noted.
LEMMA DisturbKeeps ==
    ASSUME PolicyInv, NEW os, Disturb(os), UNCHANGED request, TypeOK' PROVE PolicyInv'
<1> USE DEF PolicyInv, Disturb, request
<1>1. \A r \in Reqs : EntriesAgainst(owner[r], name[r])' \subseteq Entries
  BY EntriesAreTyped DEF EntriesAgainst, Entries
<1>2. Typed'
  BY <1>1 DEF Typed
<1>3. NowIsBetween'
  BY <1>1 DEF Typed, NowIsBetween
<1>4. LoopIsBelow' /\ ReasonIsLate' /\ BlockedOnlyIfListed' /\ StandingEntryBlocks'
  BY DEF Typed, LoopIsBelow, ReasonIsLate, BlockedOnlyIfListed, StandingEntryBlocks, None
<1> QED
  BY <1>2, <1>3, <1>4

LEMMA ChangeKeeps == ASSUME PolicyInv, NEW o \in Owners, Change(o) PROVE PolicyInv'
<1> USE DEF PolicyInv, Typed, TypeOK, request
<1>1. CASE CreateRule(o)
  <2>1. TypeOK'
    BY <1>1 DEF CreateRule, Rules
  <2> QED
    BY <1>1, <2>1, DisturbKeeps DEF CreateRule
<1>2. CASE DeleteRule(o)
  <2>1. TypeOK'
    BY <1>2 DEF DeleteRule
  <2> QED
    BY <1>2, <2>1, DisturbKeeps DEF DeleteRule
<1>3. CASE SetPreference(o)
  <2>1. TypeOK'
    BY <1>3 DEF SetPreference
  <2> QED
    BY <1>3, <2>1, DisturbKeeps DEF SetPreference
<1>4. CASE UpdateSettings(o)
  <2>1. TypeOK'
    BY <1>4 DEF UpdateSettings
  <2> QED
    BY <1>4, <2>1, DisturbKeeps DEF UpdateSettings
<1> QED
  BY <1>1, <1>2, <1>3, <1>4 DEF Change

LEMMA ReplaceListKeeps == ASSUME PolicyInv, NEW s \in Sets, ReplaceList(s) PROVE PolicyInv'
<1>1. TypeOK'
  BY DEF PolicyInv, Typed, TypeOK, ReplaceList, request
<1> QED
  BY <1>1, DisturbKeeps DEF ReplaceList

LEMMA StutterKeeps == ASSUME PolicyInv, UNCHANGED vars PROVE PolicyInv'
<1> USE DEF vars, store, request, history, PolicyInv
<1>1. \A o, n : EntriesAgainst(o, n)' = EntriesAgainst(o, n)
  BY DEF EntriesAgainst
<1> QED
  BY <1>1 DEF Typed, TypeOK, NowIsBetween, LoopIsBelow, ReasonIsLate, StandingEntryBlocks,
              BlockedOnlyIfListed

LEMMA PolicyInvHolds == Spec => []PolicyInv
<1>1. PolicyInv /\ [Next]_vars => PolicyInv'
  BY TickKeeps, ArriveKeeps, AskRulesKeeps, AskListsKeeps, BlockKeeps, LeaveKeeps, ChangeKeeps,
     ReplaceListKeeps, StutterKeeps DEF Next
<1> QED
  BY <1>1, InitPolicyInv, PTL DEF Spec
-----------------------------------------------------------------------------
\* The variables keep their types, and stored rules have different ids (TypeOK).
THEOREM TypeCorrect == Spec => []TypeOK
  BY PolicyInvHolds, PTL DEF PolicyInv, Typed

\* Whatever owners and the refresher change while knownRuleSetMatch asks for a name and its
\* parents one by one, an entry that stood all the time is not missed.
THEOREM StandingEntryIsFound == Spec => []StandingEntryBlocks
  BY PolicyInvHolds, PTL DEF PolicyInv

\* And a name is not blocked by a list unless an entry stood against it at some time.
THEOREM NothingElseBlocks == Spec => []BlockedOnlyIfListed
  BY PolicyInvHolds, PTL DEF PolicyInv

-----------------------------------------------------------------------------
(* Which decision is made, if nothing that concerns the owner changes meanwhile *)

\* v is a decision that the statements of domainActionFor, knownRuleSetMatch and
\* blockPageResponse lead to on the database as it is.
Decided(r, v) ==
    \/ \E rule \in FirstOf(Matching(r)) : v = IF rule.action = "block" THEN mode[owner[r]] ELSE "resolve"
    \/ /\ Matching(r) = {}
       /\ v = IF EntriesAgainst(owner[r], name[r]) # {} THEN mode[owner[r]] ELSE "resolve"

\* What a stored rule is; TypeOK has the rest.
StoredRules ==
    \A rule \in rules : /\ rule.domain \in Seq(STRING) \ {<<>>}
                        /\ rule.match \in {"exact", "domain_suffix"} /\ rule.action \in {"allow", "block"}

\* In the quiet what stood when the request came is what stands, and the statements that
\* were answered so far are answered the same now.
InTheQuiet(r) ==
    /\ EntriesAgainst(owner[r], name[r]) \subseteq standing[r]
    /\ ~failed[r] => /\ pc[r] = "lists" => Matching(r) = {}
                     /\ pc[r] = "block" => Decided(r, mode[owner[r]])
                     /\ pc[r] = "done" => Decided(r, verdict[r])

IsQuiet(r) == pc[r] # "idle" /\ owner[r] # Anonymous /\ quiet[r]

QuietInv == StoredRules /\ quiet \in [Reqs -> BOOLEAN] /\ \A r \in Reqs : IsQuiet(r) => InTheQuiet(r)

LEMMA NormalizedIsNotRoot == \A d \in Seq(STRING) \ {<<>>} : NormalizeDomain(d) \in Seq(STRING) \ {<<>>}
<1> SUFFICES ASSUME NEW d \in Seq(STRING), Len(d) > 1 PROVE Tail(d) # <<>> /\ Tail(d) \in Seq(STRING)
  BY DEF NormalizeDomain
<1>1. Len(d) \in Nat
  BY LenProperties
<1>2. d # <<>>
  BY EmptySeq
<1>3. Tail(d) \in Seq(STRING) /\ Len(Tail(d)) = Len(d) - 1
  BY <1>2, HeadTailProperties
<1>4. Len(Tail(d)) > 0
  BY <1>1, <1>3
<1>5. \A t \in Seq(STRING) : Len(t) > 0 => t # <<>>
  BY EmptySeq
<1> QED
  BY <1>3, <1>4, <1>5

\* The domains a suffix rule is for are the name and its parents.
LEMMA NameOrParent ==
    ASSUME NEW n \in Seq(STRING), n # <<>>, NEW d
    PROVE  d \in WithParents(n) <=> d = n \/ \E i \in 2..Len(n) : d = SubSeq(n, i, Len(n))
<1>1. Len(n) \in Nat /\ Len(n) >= 1
  BY EmptySeq
<1>2. SubSeq(n, 1, Len(n)) = n
  BY SubSeqFull
<1>3. 1..Len(n) = {1} \union 2..Len(n)
  BY <1>1
<1> QED
  BY <1>2, <1>3 DEF WithParents

\* domainActionMatches on stored rules is what AtOnce says of them.
LEMMA MatchesAreMeant ==
    ASSUME StoredRules, NEW n \in Seq(STRING), NEW rule \in rules
    PROVE  domainActionMatches(rule, n) <=>
             /\ n # <<>>
             /\ \/ NormalizeDomain(rule.domain) = n
                \/ /\ rule.match = "domain_suffix"
                   /\ \E i \in 2..Len(n) : NormalizeDomain(rule.domain) = SubSeq(n, i, Len(n))
<1>1. NormalizeDomain(rule.domain) # <<>>
  BY NormalizedIsNotRoot DEF StoredRules
<1>2. rule.match \in {"exact", "domain_suffix"}
  BY DEF StoredRules
<1>3. n # <<>> => (NormalizeDomain(rule.domain) \in WithParents(n) <=>
        \/ NormalizeDomain(rule.domain) = n
        \/ \E i \in 2..Len(n) : NormalizeDomain(rule.domain) = SubSeq(n, i, Len(n)))
  BY NameOrParent
<1> QED
  BY <1>1, <1>2, <1>3, Zenon DEF domainActionMatches

\* Hence a decision made by the statements is one made at once.
LEMMA DecidedIsAtOnce ==
    ASSUME Typed, StoredRules, NEW r \in Reqs, NEW v, Decided(r, v) PROVE v \in AtOnce(r)
<1> DEFINE asked == NormalizeDomain(name[r])
           matching == {rule \in rules :
                          /\ rule.owner = owner[r] /\ rule.enabled /\ asked # <<>>
                          /\ \/ NormalizeDomain(rule.domain) = asked
                             \/ /\ rule.match = "domain_suffix"
                                /\ \E i \in 2..Len(asked) :
                                      NormalizeDomain(rule.domain) = SubSeq(asked, i, Len(asked))}
           newest == {rule \in matching : ~\E other \in matching : other.at > rule.at}
<1>1. asked \in Seq(STRING)
  BY NormalizedIsDomain DEF Typed
<1>2. matching = Matching(r)
  BY <1>1, MatchesAreMeant, Zenon DEF Matching
<1>3. \A rule \in rules : rule.at \in Int
  <2>1. clock \in Int
    BY ClockAssumption DEF Typed, TypeOK
  <2> QED
    BY <2>1 DEF Typed, TypeOK
<1>4. newest = FirstOf(Matching(r))
  <2> HIDE DEF matching
  <2>1. matching \subseteq rules
    BY DEF matching
  <2> QED
    BY <1>2, <1>3, <2>1 DEF FirstOf
<1>5. AtOnce(r) = IF newest # {}
                  THEN {IF rule.action = "block" THEN mode[owner[r]] ELSE "resolve" : rule \in newest}
                  ELSE {IF EntriesAgainst(owner[r], name[r]) # {} THEN mode[owner[r]] ELSE "resolve"}
  BY DEF AtOnce
<1>6. Matching(r) = {} => newest = {}
  BY <1>4 DEF FirstOf
<1> HIDE DEF newest
<1> QED
  BY <1>4, <1>5, <1>6 DEF Decided

\* Whoever else acts, a request whose owner's rows are as they were is where it was.
LEMMA SameQuiet ==
    ASSUME QuietInv, NEW r \in Reqs,
           {rule \in rules' : rule.owner = owner[r]} = {rule \in rules : rule.owner = owner[r]},
           EntriesAgainst(owner[r], name[r])' = EntriesAgainst(owner[r], name[r]),
           mode'[owner[r]] = mode[owner[r]], owner'[r] = owner[r], name'[r] = name[r],
           pc'[r] = pc[r], verdict'[r] = verdict[r], failed'[r] = failed[r], standing'[r] = standing[r],
           IsQuiet(r)
    PROVE  InTheQuiet(r)'
<1>1. Matching(r)' = Matching(r)
  BY DEF Matching
<1>2. \A v : Decided(r, v)' <=> Decided(r, v)
  BY <1>1, Zenon DEF Decided
<1> QED
  BY <1>1, <1>2 DEF QuietInv, InTheQuiet

\* When a request makes a step, the database and the other requests stay.
LEMMA OthersStayQuiet ==
    ASSUME QuietInv, NEW r \in Reqs, UNCHANGED store,
           \A q \in Reqs \ {r} :
               /\ owner'[q] = owner[q] /\ name'[q] = name[q] /\ pc'[q] = pc[q] /\ verdict'[q] = verdict[q]
               /\ failed'[q] = failed[q] /\ quiet'[q] = quiet[q] /\ standing'[q] = standing[q],
           quiet' \in [Reqs -> BOOLEAN],
           IsQuiet(r)' => InTheQuiet(r)'
    PROVE  QuietInv'
<1>1. \A q \in Reqs \ {r} : IsQuiet(q)' => InTheQuiet(q)'
  <2> SUFFICES ASSUME NEW q \in Reqs \ {r}, IsQuiet(q)' PROVE InTheQuiet(q)'
    OBVIOUS
  <2>1. EntriesAgainst(owner[q], name[q])' = EntriesAgainst(owner[q], name[q])
    BY DEF EntriesAgainst, store
  <2>2. IsQuiet(q)
    BY DEF IsQuiet
  <2> QED
    BY <2>1, <2>2, SameQuiet DEF store
<1> QED
  BY <1>1 DEF QuietInv, StoredRules, store

LEMMA ArriveStaysQuiet == ASSUME PolicyInv, QuietInv, NEW r \in Reqs, Arrive(r) PROVE QuietInv'
<1> USE DEF PolicyInv, Typed, TypeOK
<1>1. PICK o \in Owners \union {Anonymous}, n \in Names, blockedCountry \in BOOLEAN, lookup \in BOOLEAN :
        /\ owner' = [owner EXCEPT ![r] = o] /\ name' = [name EXCEPT ![r] = n]
        /\ quiet' = [quiet EXCEPT ![r] = TRUE]
        /\ standing' = [standing EXCEPT ![r] = EntriesAgainst(o, n)]
        /\ \/ o \in Owners /\ pc' = [pc EXCEPT ![r] = "rules"] /\ UNCHANGED verdict
           \/ /\ o = Anonymous /\ pc' = [pc EXCEPT ![r] = "done"]
              /\ \E v : verdict' = [verdict EXCEPT ![r] = v]
  BY DEF Arrive, Decide, Goto
<1>2. UNCHANGED <<store, failed>>
  BY DEF Arrive
<1>3. EntriesAgainst(owner[r], name[r])' = EntriesAgainst(o, n)
  BY <1>1, <1>2 DEF EntriesAgainst, store
<1>4. quiet' \in [Reqs -> BOOLEAN]
  BY <1>1 DEF QuietInv
<1>5. IsQuiet(r)' => InTheQuiet(r)'
  BY <1>1, <1>3 DEF IsQuiet, InTheQuiet
<1> QED
  BY <1>1, <1>2, <1>4, <1>5, OthersStayQuiet

\* A step of a request between its arrival and its end.
LEMMA StepStaysQuiet ==
    ASSUME PolicyInv, QuietInv, NEW r \in Reqs, pc[r] # "idle",
           UNCHANGED <<store, owner, name, quiet, standing>>,
           \A q \in Reqs \ {r} : pc'[q] = pc[q] /\ verdict'[q] = verdict[q] /\ failed'[q] = failed[q],
           IsQuiet(r) /\ ~failed'[r] =>
               /\ pc'[r] = "lists" => Matching(r) = {}
               /\ pc'[r] = "block" => Decided(r, mode[owner[r]])
               /\ pc'[r] = "done" => Decided(r, verdict'[r])
    PROVE  QuietInv'
<1>1. EntriesAgainst(owner[r], name[r])' = EntriesAgainst(owner[r], name[r])
  BY DEF EntriesAgainst, store
<1>2. Matching(r)' = Matching(r)
  BY DEF Matching, store
<1>3. \A v : Decided(r, v)' <=> Decided(r, v)
  BY <1>1, <1>2, Zenon DEF Decided, store
<1>4. IsQuiet(r)' => IsQuiet(r)
  BY DEF IsQuiet
<1>5. IsQuiet(r)' => InTheQuiet(r)'
  BY <1>1, <1>2, <1>3, <1>4 DEF QuietInv, InTheQuiet, store
<1> QED
  BY <1>5, OthersStayQuiet DEF QuietInv

LEMMA AskRulesStaysQuiet == ASSUME PolicyInv, QuietInv, NEW r \in Reqs, AskRules(r) PROVE QuietInv'
<1> USE DEF PolicyInv, Typed, TypeOK, Goto, Decide
<1>1. pc[r] = "rules" /\ UNCHANGED <<store, owner, name, quiet, standing>>
  BY DEF AskRules
<1>2. CASE \E rule \in FirstOf(Matching(r)) :
             /\ \/ rule.action = "block" /\ Goto(r, "block") /\ UNCHANGED verdict
                \/ rule.action = "allow" /\ Decide(r, "resolve", "rule")
             /\ Works
  <2>1. PICK rule \in FirstOf(Matching(r)) :
             /\ \/ rule.action = "block" /\ Goto(r, "block") /\ UNCHANGED verdict
                \/ rule.action = "allow" /\ Decide(r, "resolve", "rule")
             /\ Works
    BY <1>2
  <2>2. rule.action = "block" => Decided(r, mode[owner[r]])
    BY DEF Decided
  <2>3. rule.action = "allow" => Decided(r, "resolve")
    BY DEF Decided
  <2>4. /\ \A q \in Reqs \ {r} : pc'[q] = pc[q] /\ verdict'[q] = verdict[q] /\ failed'[q] = failed[q]
        /\ pc'[r] = "block" => Decided(r, mode[owner[r]])
        /\ pc'[r] = "done" => Decided(r, verdict'[r])
        /\ pc'[r] # "lists"
    BY <1>1, <2>1, <2>2, <2>3 DEF Works
  <2> QED
    BY <1>1, <2>4, StepStaysQuiet
<1>3. CASE ((Matching(r) = {} /\ Works) \/ Fails(r)) /\ Goto(r, "lists") /\ UNCHANGED verdict
  <2>1. /\ \A q \in Reqs \ {r} : pc'[q] = pc[q] /\ verdict'[q] = verdict[q] /\ failed'[q] = failed[q]
        /\ pc'[r] = "lists" /\ (Matching(r) = {} \/ failed'[r])
    BY <1>3 DEF Works, Fails
  <2> QED
    BY <1>1, <2>1, StepStaysQuiet
<1> QED
  BY <1>2, <1>3 DEF AskRules

LEMMA AskListsStaysQuiet == ASSUME PolicyInv, QuietInv, NEW r \in Reqs, AskLists(r) PROVE QuietInv'
<1> USE DEF PolicyInv, Typed, TypeOK, Goto, Decide
<1> DEFINE c == candidate[r]
           against == EntriesAgainst(owner[r], name[r])
<1>1. pc[r] = "lists" /\ UNCHANGED <<store, owner, name, quiet, standing>>
  BY DEF AskLists
<1>2. IsQuiet(r) => /\ against = standing[r]
                    /\ ~failed[r] => Matching(r) = {}
  BY <1>1 DEF QuietInv, InTheQuiet, NowIsBetween
<1>3. CASE ((c = <<>> /\ Works) \/ Fails(r)) /\ Decide(r, "resolve", None)
  <2>1. /\ \A q \in Reqs \ {r} : pc'[q] = pc[q] /\ verdict'[q] = verdict[q] /\ failed'[q] = failed[q]
        /\ pc'[r] = "done" /\ verdict'[r] = "resolve"
        /\ failed'[r] \/ (failed'[r] = failed[r] /\ c = <<>>)
    BY <1>3 DEF Works, Fails
  <2>2. c = <<>> => standing[r] = {}
    BY <1>1, RootHasNoParents DEF LoopIsBelow
  <2>3. IsQuiet(r) /\ ~failed'[r] => Decided(r, "resolve")
    BY <1>2, <2>1, <2>2 DEF Decided
  <2> QED
    BY <1>1, <2>1, <2>3, StepStaysQuiet
<1>4. CASE c # <<>> /\ Found(owner[r], c) /\ Works /\ Goto(r, "block") /\ UNCHANGED verdict
  <2>1. /\ \A q \in Reqs \ {r} : pc'[q] = pc[q] /\ verdict'[q] = verdict[q] /\ failed'[q] = failed[q]
        /\ pc'[r] = "block" /\ failed'[r] = failed[r]
    BY <1>4 DEF Works
  <2>2. PICK s \in prefs[owner[r]] : c \in lists[s]
    BY <1>4 DEF Found
  <2>3. owner[r] \in Owners
    BY <1>1
  <2>4. s \in Sets /\ c \in Listed
    BY <2>2, <2>3
  <2>5. c \in WithParents(NormalizeDomain(name[r]))
    BY <1>1, <1>4 DEF LoopIsBelow
  <2>6. <<s, c>> \in against
    BY <2>2, <2>3, <2>4, <2>5 DEF EntriesAgainst
  <2>7. IsQuiet(r) /\ ~failed'[r] => Decided(r, mode[owner[r]])
    BY <1>2, <2>1, <2>6 DEF Decided
  <2> QED
    BY <1>1, <2>1, <2>7, StepStaysQuiet
<1>5. CASE Works /\ UNCHANGED <<pc, verdict>>
  <2>1. IsQuiet(r) => IsQuiet(r) /\ InTheQuiet(r)
    BY DEF QuietInv
  <2> QED
    BY <1>1, <1>5, <2>1, StepStaysQuiet DEF Works, InTheQuiet
<1> QED
  BY <1>3, <1>4, <1>5 DEF AskLists

LEMMA BlockStaysQuiet == ASSUME PolicyInv, QuietInv, NEW r \in Reqs, Block(r) PROVE QuietInv'
<1> USE DEF PolicyInv, Typed, TypeOK, Goto, Decide
<1>1. pc[r] = "block" /\ UNCHANGED <<store, owner, name, quiet, standing>>
  BY DEF Block
<1>2. /\ \A q \in Reqs \ {r} : pc'[q] = pc[q] /\ verdict'[q] = verdict[q] /\ failed'[q] = failed[q]
      /\ pc'[r] = "done"
      /\ failed'[r] \/ (failed'[r] = failed[r] /\ verdict'[r] = mode[owner[r]])
  BY DEF Block, Works, Fails
<1>3. IsQuiet(r) /\ ~failed'[r] => Decided(r, verdict'[r])
  BY <1>1, <1>2 DEF QuietInv, InTheQuiet
<1> QED
  BY <1>1, <1>2, <1>3, StepStaysQuiet

LEMMA LeaveStaysQuiet == ASSUME PolicyInv, QuietInv, NEW r \in Reqs, Leave(r) PROVE QuietInv'
<1> USE DEF PolicyInv, Typed, TypeOK, Goto, Leave
<1>1. quiet' \in [Reqs -> BOOLEAN]
  BY DEF QuietInv
<1>2. ~IsQuiet(r)'
  BY DEF IsQuiet
<1>3. \A q \in Reqs \ {r} :
         /\ owner'[q] = owner[q] /\ name'[q] = name[q] /\ pc'[q] = pc[q] /\ verdict'[q] = verdict[q]
         /\ failed'[q] = failed[q] /\ quiet'[q] = quiet[q] /\ standing'[q] = standing[q]
  BY DEF QuietInv
<1> QED
  BY <1>1, <1>2, <1>3, OthersStayQuiet

\* A change that concerns the owners os ends the quiet of their requests; those of others
\* find their rows as they were.
LEMMA DisturbedOrSame ==
    ASSUME PolicyInv, QuietInv, NEW os \in SUBSET Owners, Disturb(os), UNCHANGED request, StoredRules',
           \A o \in Owners \ os :
               /\ {rule \in rules' : rule.owner = o} = {rule \in rules : rule.owner = o}
               /\ prefs'[o] = prefs[o] /\ mode'[o] = mode[o],
           lists' = lists \/ os = Owners
    PROVE  QuietInv'
<1> USE DEF PolicyInv, Typed, TypeOK
<1>1. quiet' \in [Reqs -> BOOLEAN]
  BY DEF Disturb, QuietInv
<1>2. ASSUME NEW r \in Reqs, IsQuiet(r)' PROVE InTheQuiet(r)'
  <2>1. IsQuiet(r) /\ owner[r] \in Owners \ os
    BY <1>2 DEF IsQuiet, Disturb, request
  <2>2. EntriesAgainst(owner[r], name[r])' = EntriesAgainst(owner[r], name[r])
    BY <2>1 DEF EntriesAgainst, request
  <2>3. standing'[r] = standing[r]
    BY <2>1, <2>2 DEF Disturb, IsQuiet, NowIsBetween
  <2> QED
    BY <2>1, <2>2, <2>3, SameQuiet DEF request, Disturb
<1> QED
  BY <1>1, <1>2 DEF QuietInv

LEMMA ChangeStaysQuiet == ASSUME PolicyInv, QuietInv, NEW o \in Owners, Change(o) PROVE QuietInv'
<1> USE DEF PolicyInv, Typed, TypeOK
<1>1. /\ Disturb({o}) /\ UNCHANGED <<request, lists>>
  BY DEF Change, CreateRule, DeleteRule, SetPreference, UpdateSettings
<1>2. \A p \in Owners \ {o} : {rule \in rules' : rule.owner = p} = {rule \in rules : rule.owner = p}
  BY DEF Change, CreateRule, DeleteRule, SetPreference, UpdateSettings, Rules
<1>3. \A p \in Owners \ {o} : prefs'[p] = prefs[p] /\ mode'[p] = mode[p]
  BY DEF Change, CreateRule, DeleteRule, SetPreference, UpdateSettings
<1>4. StoredRules'
  <2>1. CASE CreateRule(o)
    <3>1. PICK rule \in Rules : rules' = rules \union {[rule EXCEPT !.domain = NormalizeDomain(@)]}
      BY <2>1 DEF CreateRule
    <3>2. NormalizeDomain(rule.domain) \in Seq(STRING) \ {<<>>}
      BY <3>1, DomainsAssumption, NormalizedIsDomain DEF Rules
    <3> QED
      BY <3>1, <3>2 DEF QuietInv, StoredRules, Rules
  <2>2. CASE DeleteRule(o) \/ SetPreference(o) \/ UpdateSettings(o)
    BY <2>2 DEF DeleteRule, SetPreference, UpdateSettings, QuietInv, StoredRules
  <2> QED
    BY <2>1, <2>2 DEF Change
<1> QED
  BY <1>1, <1>2, <1>3, <1>4, DisturbedOrSame

LEMMA ReplaceListStaysQuiet == ASSUME PolicyInv, QuietInv, NEW s \in Sets, ReplaceList(s) PROVE QuietInv'
  BY DisturbedOrSame DEF ReplaceList, QuietInv, StoredRules

LEMMA QuietInvHolds == Spec => []QuietInv
<1>1. Init => QuietInv
  BY DEF Init, QuietInv, StoredRules, IsQuiet
<1>2. PolicyInv /\ QuietInv /\ [Next]_vars => QuietInv'
  <2> SUFFICES ASSUME PolicyInv, QuietInv, [Next]_vars PROVE QuietInv'
    OBVIOUS
  <2>1. CASE Tick \/ UNCHANGED vars
    <3>1. UNCHANGED <<store, request, history>>
      BY <2>1 DEF Tick, vars
    <3>2. \A r \in Reqs : IsQuiet(r)' => IsQuiet(r)
      BY <3>1 DEF IsQuiet, request, history
    <3>3. \A r \in Reqs : EntriesAgainst(owner[r], name[r])' = EntriesAgainst(owner[r], name[r])
      BY <3>1 DEF EntriesAgainst, store, request
    <3>4. \A r \in Reqs : IsQuiet(r) => InTheQuiet(r)'
      BY <3>1, <3>3, SameQuiet DEF store, request, history
    <3> QED
      BY <3>1, <3>2, <3>4 DEF QuietInv, StoredRules, store, history
  <2> QED
    BY <2>1, ArriveStaysQuiet, AskRulesStaysQuiet, AskListsStaysQuiet, BlockStaysQuiet, LeaveStaysQuiet,
       ChangeStaysQuiet, ReplaceListStaysQuiet DEF Next
<1> QED
  BY <1>1, <1>2, PolicyInvHolds, PTL DEF Spec

\* The decision of a personal resolver is, while nothing of its owner's changes and no
\* statement fails, the one it would be if made at once, although it is made by several
\* statements over tables other owners write to.
THEOREM QuietVerdictIsRight == Spec => []QuietVerdict
<1>1. PolicyInv /\ QuietInv => QuietVerdict
  BY DecidedIsAtOnce DEF PolicyInv, QuietInv, IsQuiet, InTheQuiet, QuietVerdict
<1> QED
  BY <1>1, PolicyInvHolds, QuietInvHolds, PTL

-----------------------------------------------------------------------------
(* The query log *)

\* A change by one owner leaves the policy of the others as it was.
LEMMA ChangeIsOwn ==
    ASSUME TypeOK, NEW o \in Owners, Change(o), NEW p \in Owners \ {o} PROVE ~ChangesPolicy(p)
<1>1. {rule \in rules' : rule.owner = p} = {rule \in rules : rule.owner = p}
  BY DEF Change, CreateRule, DeleteRule, SetPreference, UpdateSettings, Rules
<1>2. prefs'[p] = prefs[p] /\ mode'[p] = mode[p]
  BY DEF Change, CreateRule, DeleteRule, SetPreference, UpdateSettings, TypeOK
<1> QED
  BY <1>1, <1>2 DEF PolicyOf, ChangesPolicy

TaskTyped ==
    task \in [Consoles -> [at : {"idle", "limit", "delete"}, owner : Owners \union {Anonymous}, now : Int]]

\* Requests are decided, and policies changed, as PersonalPolicy says: the log only adds to it.
THEOREM LoggingKeepsPolicy == LogSpec => Spec
<1>1. [LogNext]_allVars => [Next]_vars
  BY DEF LogNext, RequestStep, ConsoleStep, LogPersonalQuery, InsertRow, LeaveUnlogged, ReadLog,
         AskClear, AllowUserAction, ClearQueryLogs, Next, allVars, vars
<1> QED
  BY <1>1, PTL DEF LogSpec, LogInit, Spec

\* A row of less than a day is lost only to a clear of its owner's.
LEMMA OnlyClearsLoseRows ==
    ASSUME TaskTyped, [LogNext]_allVars, NEW p \in Owners, LosesRow(p)
    PROVE  \E c \in Consoles : task[c].owner = p /\ task[c].at = "delete" /\ task'[c] = Idle
<1>1. ~(\E r \in Reqs : InsertRow(r)) /\ ~(UNCHANGED log)
  BY DEF LosesRow, InsertRow
<1>2. ~Prune
  BY DEF LosesRow, Prune
<1>3. PICK c \in Consoles : ClearQueryLogs(c)
  BY <1>1, <1>2 DEF LogNext, RequestStep, ConsoleStep, LogPersonalQuery, LeaveUnlogged, ReadLog,
                    AskClear, AllowUserAction, logVars, allVars
<1>4. task'[c] = Idle /\ task[c].at = "delete"
  BY <1>3 DEF ClearQueryLogs, TaskTyped
<1>5. task[c].owner = p
  BY <1>3 DEF ClearQueryLogs, LosesRow
<1> QED
  BY <1>4, <1>5

\* A clear is refused only to an owner that was admitted before.
LEMMA OnlyAdmittedAreRefused ==
    ASSUME TaskTyped, [LogNext]_allVars, NEW p \in Owners, IsRefused(p) PROVE actionLast[p] # Never
<1>1. PICK c \in Consoles : task[c].owner = p /\ task[c].at = "limit" /\ task'[c] = Idle
  BY DEF IsRefused
<1>2. task'[c] # task[c]
  BY <1>1 DEF Idle
<1>3. PICK d \in Consoles : ConsoleStep(d)
  BY <1>2 DEF LogNext, RequestStep, LogPersonalQuery, InsertRow, LeaveUnlogged, ReadLog, logVars, allVars
<1>4. AllowUserAction(c)
  BY <1>1, <1>2, <1>3 DEF ConsoleStep, AskClear, AllowUserAction, ClearQueryLogs, TaskTyped, Idle
<1>5. TooSoon(actionLast[p], task[c].now)
  BY <1>1, <1>4 DEF AllowUserAction, TaskTyped, Idle
<1> QED
  BY <1>5 DEF TooSoon

\* What one owner does, in the console or by a query, never reaches the policy, the log or
\* the right to clear it of another (OwnersApart).
THEOREM OwnersAreApart == LogSpec => OwnersApart
<1>1. LogInit => TaskTyped
  BY DEF LogInit, TaskTyped, Idle
<1>2. TypeOK /\ TaskTyped /\ [LogNext]_allVars => TaskTyped'
  <2> SUFFICES ASSUME TypeOK, TaskTyped, LogNext PROVE TaskTyped'
    BY DEF TaskTyped, allVars, logVars
  <2>1. clock \in Int
    BY ClockAssumption DEF TypeOK
  <2>2. CASE \E c \in Consoles : AskClear(c)
    BY <2>1, <2>2 DEF AskClear, TaskTyped
  <2>3. CASE \E c \in Consoles : AllowUserAction(c) \/ ClearQueryLogs(c)
    BY <2>3 DEF AllowUserAction, ClearQueryLogs, TaskTyped, Idle
  <2>4. CASE UNCHANGED task
    BY <2>4 DEF TaskTyped
  <2> QED
    BY <2>2, <2>3, <2>4 DEF LogNext, RequestStep, ConsoleStep, LogPersonalQuery, InsertRow,
                            LeaveUnlogged, ReadLog, logVars
<1>3. TypeOK /\ TaskTyped /\ [LogNext]_allVars =>
        [\A p \in Owners :
           /\ ChangesPolicy(p) => \A o \in Owners \ {p} : ~Change(o)
           /\ LosesRow(p) => \E c \in Consoles : task[c].owner = p /\ task[c].at = "delete"
                                                 /\ task'[c] = Idle
           /\ IsRefused(p) => actionLast[p] # Never]_allVars
  BY ChangeIsOwn, OnlyClearsLoseRows, OnlyAdmittedAreRefused
<1>4. LogSpec => []TypeOK
  BY LoggingKeepsPolicy, TypeCorrect, PTL
<1> QED
  BY <1>1, <1>2, <1>3, <1>4, PTL DEF LogSpec, OwnersApart
=============================================================================
