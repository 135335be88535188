-------------------------- MODULE MCPersonalPolicy --------------------------
(* Two owners, two rules, two lists and the log would be too much at once; Bounds *)
(* keeps a state within one of six bounds, and behaviours pass between them.     *)
(*   RulesOfOne   two rules of one owner, of the same second or not, over a list; *)
(*                one that is disabled would have allowed the name;             *)
(*   TwoOwners    one rule of either, both with preferences, one with settings;   *)
(*   ListsOfOne   two lists that a name of four labels meets at two parents, for  *)
(*                one owner without rules;                                        *)
(*   Clears       no rules and no request, a row of either owner, two clears;     *)
(*   Writes       no rules, a request that writes its row while one clear runs;   *)
(*   Logged       one rule and the row of a query it blocks, without clears.      *)
EXTENDS QueryLog, FiniteSets, TLC

CONSTANTS o1, o2, s1, s2

AllOwners == {o1, o2}
AllSets   == {s1, s2}
Asked     == {<<"b", "a", "x", "y">>, <<"*", "x", "y">>}
InRules   == {<<"*", "x", "y">>}
InLists   == {<<"a", "x", "y">>, <<"*", "x", "y">>}

MCOwners  == AllOwners
MCSets    == AllSets
MCNames   == Asked
MCDomains == InRules
MCLines   == InLists

NoLog    == log = {} /\ task = [c \in Consoles |-> Idle] /\ actionLast = [o \in Owners |-> Never]
OneLine  == /\ lists[s1] \subseteq {<<"x", "y">>} /\ lists[s2] = {}
            /\ \A o \in Owners : prefs[o] \subseteq {s1}
OneOwner == /\ prefs[o2] = {} /\ \A o \in Owners : mode[o] = "nxdomain"
            /\ \A rule \in rules : rule.owner = o1

RulesOfOne == /\ OneOwner /\ OneLine /\ NoLog /\ clock <= 1 /\ \A r \in Reqs : owner[r] # o2
              /\ \A rule \in rules : ~rule.enabled =>
                     rule.at = 1 /\ rule.action = "allow" /\ rule.match = "domain_suffix"
TwoOwners  == /\ OneLine /\ Cardinality(rules) <= 1 /\ mode[o1] = "nxdomain" /\ NoLog /\ clock = 0
              /\ \A rule \in rules : rule.match = "domain_suffix" /\ rule.enabled
ListsOfOne == OneOwner /\ rules = {} /\ NoLog /\ clock = 0
Quiet      == prefs[o1] = {} /\ OneOwner /\ \A s \in Sets : lists[s] = {}
NoRules    == Quiet /\ rules = {} /\ \A row \in log : row.action = "resolve"
Clears     == NoRules /\ \A r \in Reqs : pc[r] = "idle"
Writes     == /\ NoRules /\ clock <= 1 /\ \E c \in Consoles : task[c] = Idle
              /\ \A r \in Reqs : name[r] \in {<<>>, <<"*", "x", "y">>}
Logged     == Quiet /\ Cardinality(rules) <= 1 /\ clock = 0
              /\ task = [c \in Consoles |-> Idle] /\ actionLast = [o \in Owners |-> Never]

Bounds == RulesOfOne \/ TwoOwners \/ ListsOfOne \/ Clears \/ Writes \/ Logged

MCNext == LogNext /\ Bounds'

MCSpec == LogInit /\ [][MCNext]_allVars

Same == Permutations(RuleIDs) \union Permutations(Consoles)
=============================================================================
