--------------------------- MODULE RuleSetRefresh ---------------------------
(***************************************************************************)
(* RefreshKnownRuleSets (internal/server/server.go) and the two places     *)
(* that call it: main before it serves, and a daily ticker while it        *)
(* serves.  A pass downloads and stores the stale lists one after the      *)
(* other, in the order of their names, under one deadline for the whole    *)
(* pass.  A download has a timeout of its own, 30 seconds; storing a list, *)
(* a transaction of up to 500000 INSERTs, has none, nor does the deadline  *)
(* cut it short, but the time it takes is the pass's time.                 *)
(*                                                                         *)
(* Deadlines count in units of time a cfg chooses, ages in days.  Left     *)
(* out: the look-up of the stale lists, which succeeds here (a pass whose  *)
(* look-up fails does nothing).                                            *)
(***************************************************************************)
EXTENDS Integers, Sequences, FiniteSets

CONSTANTS
    ByName,       \* the known rule sets in the order of their names
    Domains,      \* the domains that may stand in a list
    Good,         \* rule sets whose source always answers, within QuickFetch, and
                  \* whose rows SQLite always takes, in whatever time
    QuickFetch,   \* how long such a download takes at most
    FetchLimit,   \* the timeout of the http.Client: 30 s
    StartLimit,   \* the deadline of the pass main runs: 45 s
    DailyLimit,   \* the deadline of a daily pass: 2 min
    MarkLimit,    \* how long markKnownRuleSetError waits for SQLite: busy_timeout, 5 s
    MaxAge        \* staleKnownRuleSets' maxAge: 7 days

Sets == {ByName[i] : i \in 1..Len(ByName)}

ASSUME SetsAssumption ==
    /\ ByName \in Seq(Sets) /\ IsFiniteSet(Sets) /\ Good \subseteq Sets
    /\ \A i, j \in 1..Len(ByName) : ByName[i] = ByName[j] => i = j
ASSUME LimitsAssumption ==
    /\ {QuickFetch, FetchLimit, StartLimit, DailyLimit, MaxAge} \subseteq Nat \ {0}
    /\ MarkLimit \in Nat
    /\ QuickFetch <= FetchLimit

\* The deadline of a daily pass leaves every list its turn, however long the other
\* downloads take.  Slack is the time that remains for storing.
ASSUME DailyAssumption == FetchLimit * (Cardinality(Sets) - 1) + QuickFetch <= DailyLimit

Slack == DailyLimit - FetchLimit * (Cardinality(Sets) - 1) - QuickFetch

Never == -1

VARIABLES
    phase,   \* "down", "starting" (main's pass), "serving", "refreshing" (a daily pass)
    todo,    \* the stale lists the current pass has not come to
    left,    \* the time before its deadline
    spent,   \* history: how much of the pass's time storing has used up
    status,  \* per rule set "pending", "synced" or "error"
    list,    \* per rule set its rows in dquery_known_rule_domains
    age      \* per rule set the full days since last_sync_at, or Never

pass == <<todo, left, spent>>
rows == <<status, list, age>>
refreshVars == <<phase, pass, rows>>

RefreshInit ==
    /\ phase = "down"
    /\ todo = {} /\ left = 0 /\ spent = 0
    /\ status = [s \in Sets |-> "pending"]
    /\ list = [s \in Sets |-> {}]
    /\ age = [s \in Sets |-> Never]

MustRefresh(a, s) == a[s] = Never \/ list[s] = {} \/ a[s] > MaxAge

\* A list stored some seconds after a pass began is those seconds short of MaxAge when
\* the pass MaxAge days later looks at it.
MayRefresh(a, s) == MustRefresh(a, s) \/ a[s] = MaxAge

\* RefreshKnownRuleSets up to its loop, with the ages a.
BeginPass(limit, a) ==
    /\ left' = limit
    /\ spent' = 0
    /\ todo' \in SUBSET Sets
    /\ \A s \in Sets : (MustRefresh(a, s) => s \in todo') /\ (s \in todo' => MayRefresh(a, s))

StartPass ==
    /\ phase = "down"
    /\ phase' = "starting"
    /\ BeginPass(StartLimit, age)
    /\ UNCHANGED rows

\* A day passes while dqueryd is down, or it serves and its ticker ticks.
Older == [s \in Sets |-> IF age[s] \in {Never, MaxAge + 1} THEN age[s] ELSE age[s] + 1]

Day ==
    /\ \/ phase = "down" /\ UNCHANGED <<phase, pass>>
       \/ phase = "serving" /\ phase' = "refreshing" /\ BeginPass(DailyLimit, Older)
    /\ age' = Older
    /\ UNCHANGED <<status, list>>

\* The process is stopped or dies; a download that is under way is lost.
Stop ==
    /\ phase # "down"
    /\ phase' = "down"
    /\ todo' = {} /\ left' = 0 /\ spent' = 0
    /\ UNCHANGED rows

\* Variant: the client has no timeout, only the pass has a deadline.
FetchTimesOfPass(s) == IF s \in Good THEN 0..QuickFetch ELSE 0..left

\* How long a download of s may take; the pass's deadline cuts it off.
FetchTimes(s) ==
    {d \in 0..left : d <= (IF s \in Good THEN QuickFetch ELSE FetchLimit)}

\* Variant: whatever was downloaded replaces the list.
ReplaceByAnything(s, lines) ==
    /\ status' = [status EXCEPT ![s] = "synced"]
    /\ list' = [list EXCEPT ![s] = lines]
    /\ age' = [age EXCEPT ![s] = 0]

\* replaceKnownRuleDomains, one transaction.
Replace(s, lines) ==
    /\ lines # {}
    /\ status' = [status EXCEPT ![s] = "synced"]
    /\ list' = [list EXCEPT ![s] = lines]
    /\ age' = [age EXCEPT ![s] = 0]

\* Variant: the status tells of the last download.
MarkErrorAlways(s) ==
    /\ status' = [status EXCEPT ![s] = "error"]
    /\ UNCHANGED <<list, age>>

\* markKnownRuleSetError
MarkError(s) ==
    /\ status' = [status EXCEPT ![s] = IF list[s] = {} THEN "error" ELSE @]
    /\ UNCHANGED <<list, age>>

\* The lists are gone through ORDER BY name.
IsNext(s) ==
    s \in todo /\ \E i \in 1..Len(ByName) :
        ByName[i] = s /\ \A j \in 1..(i - 1) : ByName[j] \notin todo

\* A download of s takes d, storing it (or marking the error) st of the pass's time:
\* what it takes beyond the deadline counts no more.
TakeTime(s) ==
    \E d \in FetchTimes(s) : \E st \in 0..(left - d) :
        left' = left - d - st /\ spent' = spent + st

\* A download that breaks off after its header is taken for what has been read of it,
\* so lines is any part of what the source has.
Stores(s) ==
    /\ TakeTime(s)
    /\ \E lines \in SUBSET Domains : Replace(s, lines)

\* The download fails, or replaceKnownRuleDomains does, perhaps after a long time.
Fails(s) ==
    /\ s \notin Good \/ left < QuickFetch
    /\ TakeTime(s)
    /\ MarkError(s)

\* Variant: a failed download ends the pass.
RefreshOrReturn(s) ==
    /\ left > 0
    /\ IsNext(s)
    /\ \/ todo' = todo \ {s} /\ Stores(s)
       \/ todo' = {} /\ Fails(s)
    /\ UNCHANGED phase

\* One turn of the loop.
Refresh(s) ==
    /\ left > 0
    /\ IsNext(s)
    /\ todo' = todo \ {s}
    /\ Stores(s) \/ Fails(s)
    /\ UNCHANGED phase

\* A turn of the loop that ends in an error only after a long time in SQLite.
SlowFailure == spent' > spent + MarkLimit /\ \E s \in Sets : Refresh(s) /\ Fails(s)

EndPass ==
    /\ phase \in {"starting", "refreshing"}
    /\ todo = {} \/ left = 0
    /\ phase' = "serving"
    /\ todo' = {} /\ left' = 0 /\ spent' = 0
    /\ UNCHANGED rows

Pass == EndPass \/ \E s \in Sets : Refresh(s)

RefreshNext == StartPass \/ Day \/ Stop \/ Pass

RefreshSpec == RefreshInit /\ [][RefreshNext]_refreshVars

\* The service manager starts the process, days pass, and a pass goes on: each of its
\* downloads ends at the latest with the pass's deadline.
FairRefreshSpec == RefreshSpec /\ WF_refreshVars(StartPass) /\ WF_refreshVars(Day) /\ WF_refreshVars(Pass)

-----------------------------------------------------------------------------
RefreshTypeOK ==
    /\ phase \in {"down", "starting", "serving", "refreshing"}
    /\ todo \subseteq Sets
    /\ left \in 0..DailyLimit \union 0..StartLimit
    /\ spent \in 0..DailyLimit \union 0..StartLimit
    /\ phase \in {"down", "serving"} => todo = {} /\ left = 0 /\ spent = 0
    /\ status \in [Sets -> {"pending", "synced", "error"}]
    /\ list \in [Sets -> SUBSET Domains]
    /\ age \in [Sets -> {Never} \union 0..(MaxAge + 1)]

\* knownRuleSetMatch reads only lists whose status is "synced": those are exactly the
\* lists that have rows, so a failed download never switches a list off, and a list
\* without rows is never shown to users as synced.
UsedIffFilled ==
    \A s \in Sets : /\ status[s] = "synced" <=> list[s] # {}
                    /\ list[s] # {} => age[s] # Never

\* A list that has rows keeps some, whatever a source answers later.
NoListLost == [][\A s \in Sets : list[s] # {} => list'[s] # {}]_refreshVars

\* A daily pass that runs to its end and whose storing took no more than Slack has
\* come to every list that was due: one whose source answers is then filled and not
\* older than MaxAge days, even if all other downloads hang until they time out.
DailyPassReachesAll ==
    [][phase = "refreshing" /\ phase' = "serving" /\ spent <= Slack =>
         \A s \in Good : list[s] # {} /\ age[s] \in 0..MaxAge]_refreshVars

\* Once dqueryd stays up, every list whose source answers is filled and then used for
\* good, also if every pass at a start ran out of time before it and however long the
\* storing of a list takes; only lists whose storing fails slowly, day after day, may
\* use up the passes before it.
GoodListsGetUsed ==
    <>[][~Stop /\ ~SlowFailure]_refreshVars => \A s \in Good : <>[](status[s] = "synced")
=============================================================================
