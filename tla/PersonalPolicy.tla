--------------------------- MODULE PersonalPolicy ---------------------------
(***************************************************************************)
(* What handleDoHQuery (internal/server/server.go) decides before it       *)
(* resolves: the regional policy for anonymous queries, then for a         *)
(* personal resolver the owner's own rules, then the known rule sets the   *)
(* owner has switched on, asked for the name and for each of its parents.  *)
(* Meanwhile owners change rules, preferences and settings through the     *)
(* console, and the refresher replaces lists.                              *)
(*                                                                         *)
(* Every statement sent to the database is one step.  A list here is its   *)
(* rows: knownRuleSetMatch also asks for status 'synced', which is the     *)
(* same as having rows (UsedIffFilled of RuleSetRefresh).                  *)
(*                                                                         *)
(* A domain is a sequence of labels.  A statement that fails is taken for  *)
(* one that found nothing.  Requests refused for their form or for a       *)
(* resolver nobody owns, what a request writes to the query log, and the   *)
(* records of a block page are left out.                                   *)
(***************************************************************************)
EXTENDS Integers, Sequences

CONSTANTS
    Reqs,       \* request goroutines
    Owners,     \* the users that own a resolver
    Anonymous,  \* the owner of the public resolver
    Names,      \* names asked for; <<>> is the root
    Domains,    \* domains as they are entered in rules
    Sets,       \* the known rule sets
    Lines,      \* domains as they are written in lists
    RuleIDs,    \* ids of personal rules
    MaxClock    \* bound on the clock

ASSUME OwnersAssumption == Anonymous \notin Owners
ASSUME ClockAssumption == MaxClock \in Nat

VARIABLES
    clock,
    rules,      \* dns_domain_actions: a set of Rules
    prefs,      \* dns_user_rule_set_preferences: per owner the enabled sets
    mode,       \* dns_block_settings: per owner the block mode
    lists,      \* dquery_known_rule_domains: per set its domains
    pc,         \* per request, where its goroutine is
    owner,      \* per request, whose resolver was asked
    name,       \* per request, its qname
    candidate,  \* per request in the loop of knownRuleSetMatch, the loop variable
    verdict,    \* per request, what becomes of it, or None
    by,         \* per request that was blocked or allowed, by what
    failed,     \* history: a statement of the request failed
    quiet,      \* history: nothing the verdict depends on changed since the request came
    standing,   \* history: the list entries against it that stood all the time since then
    ever        \* history: those that stood at any time since then

store   == <<rules, prefs, mode, lists>>
request == <<pc, owner, name, candidate, verdict, by>>
history == <<failed, quiet, standing, ever>>
vars == <<clock, store, request, history>>

None == "none"

Rules == [id : RuleIDs, owner : Owners, domain : Domains, match : {"exact", "domain_suffix"},
          action : {"allow", "block"}, enabled : BOOLEAN, at : 0..MaxClock]

-----------------------------------------------------------------------------
(* Domains *)

\* normalizeDomain takes a leading "*." off.
NormalizeDomain(d) == IF Len(d) > 1 /\ Head(d) = "*" THEN Tail(d) ELSE d

\* Variant: LastIndexByte for IndexByte.
LastLabel(d) == IF Len(d) <= 1 THEN <<>> ELSE <<d[Len(d)]>>

parentDomain(d) == Tail(d)

\* d and its parents
WithParents(d) == {SubSeq(d, i, Len(d)) : i \in 1..Len(d)}

domainActionMatches(rule, qname) ==
    LET domain == NormalizeDomain(rule.domain)
    IN  /\ domain # <<>> /\ qname # <<>>
        /\ IF rule.match = "exact" THEN qname = domain ELSE domain \in WithParents(qname)

\* A domain that normalizes to "" is refused in a rule.
ASSUME DomainsAssumption ==
    /\ Names \union Domains \union Lines \subseteq Seq(STRING)
    /\ \A d \in Domains : NormalizeDomain(d) # <<>>

\* parseRuleSetDomains skips what has no dot.
Listed == {d \in {NormalizeDomain(d) : d \in Lines} : Len(d) >= 2}

\* The list entries that stand against a name of an owner.
EntriesAgainst(o, n) ==
    {e \in Sets \X Listed :
        o \in Owners /\ e[1] \in prefs[o] /\ e[2] \in lists[e[1]]
        /\ e[2] \in WithParents(NormalizeDomain(n))}

-----------------------------------------------------------------------------
Init ==
    /\ clock = 0
    /\ rules = {}
    /\ prefs = [o \in Owners |-> {}]
    /\ mode = [o \in Owners |-> "nxdomain"]
    /\ lists = [s \in Sets |-> {}]
    /\ pc = [r \in Reqs |-> "idle"]
    /\ owner = [r \in Reqs |-> Anonymous]
    /\ name = [r \in Reqs |-> <<>>]
    /\ candidate = [r \in Reqs |-> <<>>]
    /\ verdict = [r \in Reqs |-> None]
    /\ by = [r \in Reqs |-> None]
    /\ failed = [r \in Reqs |-> FALSE]
    /\ quiet = [r \in Reqs |-> FALSE]
    /\ standing = [r \in Reqs |-> {}]
    /\ ever = [r \in Reqs |-> {}]

Tick ==
    /\ clock < MaxClock
    /\ clock' = clock + 1
    /\ UNCHANGED <<store, request, history>>

Goto(r, place) == pc' = [pc EXCEPT ![r] = place]

-----------------------------------------------------------------------------
(* handleDoHQuery *)

Decide(r, what, why) ==
    /\ verdict' = [verdict EXCEPT ![r] = what]
    /\ by' = [by EXCEPT ![r] = why]
    /\ Goto(r, "done")

\* An anonymous query is refused for its country, unless it comes from the look-up page,
\* or resolved; one to a personal resolver goes to the rules of its owner.
Arrive(r) ==
    /\ pc[r] = "idle"
    /\ \E o \in Owners \union {Anonymous}, n \in Names, blockedCountry, lookup \in BOOLEAN :
        /\ owner' = [owner EXCEPT ![r] = o]
        /\ name' = [name EXCEPT ![r] = n]
        /\ quiet' = [quiet EXCEPT ![r] = TRUE]
        /\ standing' = [standing EXCEPT ![r] = EntriesAgainst(o, n)]
        /\ ever' = [ever EXCEPT ![r] = EntriesAgainst(o, n)]
        /\ \/ o \in Owners /\ Goto(r, "rules") /\ UNCHANGED <<verdict, by>>
           \/ /\ o = Anonymous
              /\ Decide(r, IF blockedCountry /\ ~lookup THEN "451" ELSE "resolve", None)
    /\ UNCHANGED <<clock, store, candidate, failed>>

Matching(r) ==
    {rule \in rules : rule.owner = owner[r] /\ rule.enabled
                      /\ domainActionMatches(rule, NormalizeDomain(name[r]))}

\* Variant: ORDER BY updated_at without DESC.
OldestOf(R) == {rule \in R : \A other \in R : rule.at <= other.at}

\* ORDER BY updated_at DESC: of rules with the same second any may come first.
FirstOf(R) == {rule \in R : \A other \in R : rule.at >= other.at}

\* A statement that fails, or one that does not.
Fails(r) == failed' = [failed EXCEPT ![r] = TRUE]
Works    == UNCHANGED failed

\* domainActionFor; without a rule that matches, or if it fails, the lists are asked.
AskRules(r) ==
    /\ pc[r] = "rules"
    /\ \/ \E rule \in FirstOf(Matching(r)) :
            \/ rule.action = "block" /\ by' = [by EXCEPT ![r] = "rule"] /\ Goto(r, "block")
               /\ UNCHANGED verdict
            \/ rule.action = "allow" /\ Decide(r, "resolve", "rule")
          /\ UNCHANGED candidate /\ Works
       \/ /\ (Matching(r) = {} /\ Works) \/ Fails(r)
          /\ candidate' = [candidate EXCEPT ![r] = NormalizeDomain(name[r])]
          /\ Goto(r, "lists")
          /\ UNCHANGED <<verdict, by>>
    /\ UNCHANGED <<clock, store, owner, name, quiet, standing, ever>>

\* Variant: the join with the preferences is missing.
FoundInAnySet(o, c) == \E s \in Sets : c \in lists[s]

\* The SELECT of knownRuleSetMatch: the domain is in a list the owner has switched on.
Found(o, c) == \E s \in prefs[o] : c \in lists[s]

\* One turn of the loop in knownRuleSetMatch, or its end; a failure ends it.
AskLists(r) ==
    /\ pc[r] = "lists"
    /\ LET c == candidate[r]
           found == Found(owner[r], c)
       IN  \/ /\ (c = <<>> /\ Works) \/ (c # <<>> /\ Fails(r))
              /\ Decide(r, "resolve", None)
              /\ UNCHANGED candidate
           \/ /\ c # <<>> /\ found /\ Works
              /\ by' = [by EXCEPT ![r] = "list"]
              /\ Goto(r, "block")
              /\ UNCHANGED <<candidate, verdict>>
           \/ /\ c # <<>> /\ ~found /\ Works
              /\ candidate' = [candidate EXCEPT ![r] = parentDomain(c)]
              /\ UNCHANGED <<pc, verdict, by>>
    /\ UNCHANGED <<clock, store, owner, name, quiet, standing, ever>>

\* blockPageResponse: the owner's settings are read last; without them the name does not exist.
Block(r) ==
    /\ pc[r] = "block"
    /\ \/ Decide(r, mode[owner[r]], by[r]) /\ Works
       \/ Decide(r, "nxdomain", by[r]) /\ Fails(r)
    /\ UNCHANGED <<clock, store, owner, name, candidate, quiet, standing, ever>>

\* The response is written; the goroutine ends.
Leave(r) ==
    /\ pc[r] = "done"
    /\ Goto(r, "idle")
    /\ owner' = [owner EXCEPT ![r] = Anonymous]
    /\ name' = [name EXCEPT ![r] = <<>>]
    /\ candidate' = [candidate EXCEPT ![r] = <<>>]
    /\ verdict' = [verdict EXCEPT ![r] = None]
    /\ by' = [by EXCEPT ![r] = None]
    /\ failed' = [failed EXCEPT ![r] = FALSE]
    /\ quiet' = [quiet EXCEPT ![r] = FALSE]
    /\ standing' = [standing EXCEPT ![r] = {}]
    /\ ever' = [ever EXCEPT ![r] = {}]
    /\ UNCHANGED <<clock, store>>

-----------------------------------------------------------------------------
(* The console and the refresher.  Disturb is history: a change that concerns  *)
(* the owners os, noted by their requests.                                     *)

Disturb(os) ==
    /\ quiet' = [r \in Reqs |-> quiet[r] /\ owner[r] \notin os]
    /\ standing' = [r \in Reqs |-> standing[r] \cap EntriesAgainst(owner[r], name[r])']
    /\ ever' = [r \in Reqs |-> IF pc[r] = "idle" THEN {}
                               ELSE ever[r] \union EntriesAgainst(owner[r], name[r])']
    /\ UNCHANGED failed

\* handleCreateDomainAction: the time in the row is taken before the row is inserted.
CreateRule(o) ==
    /\ \E rule \in Rules :
        /\ rule.owner = o
        /\ rule.at <= clock
        /\ \A other \in rules : other.id # rule.id
        /\ rules' = rules \union {[rule EXCEPT !.domain = NormalizeDomain(@)]}
    /\ UNCHANGED <<clock, prefs, mode, lists, request>>
    /\ Disturb({o})

\* Variant: WHERE id = ? alone.
DeleteRuleByID(o) ==
    /\ \E id \in RuleIDs : rules' = {rule \in rules : rule.id # id}
    /\ UNCHANGED <<clock, prefs, mode, lists, request>>
    /\ Disturb({o})

\* handleDeleteDomainAction; the id may be that of another owner's rule.
DeleteRule(o) ==
    /\ \E id \in RuleIDs : rules' = {rule \in rules : rule.owner # o \/ rule.id # id}
    /\ UNCHANGED <<clock, prefs, mode, lists, request>>
    /\ Disturb({o})

\* handleUpdateKnownRuleSetPreference
SetPreference(o) ==
    /\ \E s \in Sets, enabled \in BOOLEAN :
        prefs' = [prefs EXCEPT ![o] = IF enabled THEN @ \union {s} ELSE @ \ {s}]
    /\ UNCHANGED <<clock, rules, mode, lists, request>>
    /\ Disturb({o})

\* handleUpdateSettings
UpdateSettings(o) ==
    /\ \E m \in {"nxdomain", "block_page"} : mode' = [mode EXCEPT ![o] = m]
    /\ UNCHANGED <<clock, rules, prefs, lists, request>>
    /\ Disturb({o})

\* replaceKnownRuleDomains, one transaction; a refresh never stores an empty list.
ReplaceList(s) ==
    /\ \E lines \in SUBSET Listed \ {{}} : lists' = [lists EXCEPT ![s] = lines]
    /\ UNCHANGED <<clock, rules, prefs, mode, request>>
    /\ Disturb(Owners)

Change(o) == CreateRule(o) \/ DeleteRule(o) \/ SetPreference(o) \/ UpdateSettings(o)

Next ==
    \/ Tick
    \/ \E r \in Reqs : Arrive(r) \/ AskRules(r) \/ AskLists(r) \/ Block(r) \/ Leave(r)
    \/ \E o \in Owners : Change(o)
    \/ \E s \in Sets : ReplaceList(s)

Spec == Init /\ [][Next]_vars

-----------------------------------------------------------------------------
(* Properties *)

\* Types; the stored rules are normalized and have different ids.
TypeOK ==
    /\ clock \in 0..MaxClock
    /\ \A rule \in rules : /\ rule.owner \in Owners /\ rule.at \in 0..clock
                           /\ \A other \in rules : other.id = rule.id => other = rule
    /\ prefs \in [Owners -> SUBSET Sets]
    /\ mode \in [Owners -> {"nxdomain", "block_page"}]
    /\ lists \in [Sets -> SUBSET Listed]
    /\ pc \in [Reqs -> {"idle", "rules", "lists", "block", "done"}]
    /\ owner \in [Reqs -> Owners \union {Anonymous}]
    /\ \A r \in Reqs : pc[r] \in {"rules", "lists", "block"} => owner[r] \in Owners
    /\ verdict \in [Reqs -> {None, "451", "resolve", "nxdomain", "block_page"}]
    /\ by \in [Reqs -> {None, "rule", "list"}]

\* The decision a request would get if it were made at once: the newest enabled rule that
\* matches wins, an allow also over the lists; without one, any entry of a list that is
\* switched on blocks; the block mode is the owner's.  A rule entered with two "*." is
\* stored with one, and is for what is below that.
AtOnce(r) ==
    LET asked    == NormalizeDomain(name[r])
        matching == {rule \in rules :
                        /\ rule.owner = owner[r] /\ rule.enabled /\ asked # <<>>
                        /\ \/ NormalizeDomain(rule.domain) = asked
                           \/ /\ rule.match = "domain_suffix"
                              /\ \E i \in 2..Len(asked) :
                                    NormalizeDomain(rule.domain) = SubSeq(asked, i, Len(asked))}
        newest   == {rule \in matching : ~\E other \in matching : other.at > rule.at}
    IN  IF newest # {}
        THEN {IF rule.action = "block" THEN mode[owner[r]] ELSE "resolve" : rule \in newest}
        ELSE {IF EntriesAgainst(owner[r], name[r]) # {} THEN mode[owner[r]] ELSE "resolve"}

\* A request during which no statement failed and nothing that concerns its owner changed
\* gets that decision,
\* whatever other owners did meanwhile (domainActionFor, knownRuleSetMatch and
\* blockPageResponse are separate statements over tables all owners share).
QuietVerdict ==
    \A r \in Reqs : pc[r] = "done" /\ owner[r] # Anonymous /\ quiet[r] /\ ~failed[r] =>
        verdict[r] \in AtOnce(r)

\* A list entry that stood against the name all the time blocks it, even if preferences,
\* lists and other entries changed between the statements of knownRuleSetMatch; only a
\* rule of the owner prevails over it, or a statement that fails: a failure is taken for
\* "not listed".
StandingEntryBlocks ==
    \A r \in Reqs : pc[r] = "done" /\ standing[r] # {} /\ by[r] # "rule" /\ ~failed[r] =>
        verdict[r] \in {"nxdomain", "block_page"}

\* A request is blocked by a list only if some entry stood against it while it was looked
\* up: no half-replaced list and no list the owner has not switched on blocks a name.
BlockedOnlyIfListed ==
    \A r \in Reqs : by[r] = "list" => ever[r] # {}

\* What is an owner's own.
PolicyOf(o) == <<{rule \in rules : rule.owner = o}, prefs[o], mode[o]>>
=============================================================================
