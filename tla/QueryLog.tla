------------------------------ MODULE QueryLog ------------------------------
(***************************************************************************)
(* PersonalPolicy with the query log (internal/server/server.go): what the *)
(* requests to a personal resolver write (logPersonalQuery), what owners   *)
(* read and clear in the console (handleQueryLogs, handleQueryLogStats,    *)
(* handleClearQueryLogs) and how often they may clear it                   *)
(* (allowUserAction).  Every write and every reading first deletes what is *)
(* older than a day, of all owners.                                        *)
(*                                                                         *)
(* The errors of the statements are dropped by the code, except that of a  *)
(* clear, which its owner is told.                                         *)
(***************************************************************************)
EXTENDS PersonalPolicy

CONSTANTS
    Consoles,   \* goroutines of the console that clear a log
    RowIDs,     \* ids of rows, fresh for each: bounds the log
    Day,        \* how long rows stay
    Interval    \* of allowUserAction("clear_logs")

ASSUME LogAssumption == Day \in Nat \ {0} /\ Interval \in Nat \ {0}

VARIABLES
    log,        \* dns_query_logs: a set of rows
    stamp,      \* per request that is about to insert its row, its time.Now(), or Never
    actionLast, \* per owner, when a clear was last admitted, or Never
    task        \* per console goroutine: where it is, for whom, and its time.Now()

logVars == <<log, stamp, actionLast, task>>
allVars == <<vars, logVars>>

Never == -1
Idle  == [at |-> "idle", owner |-> Anonymous, now |-> 0]

LogInit ==
    /\ Init
    /\ log = {}
    /\ stamp = [r \in Reqs |-> Never]
    /\ actionLast = [o \in Owners |-> Never]
    /\ task = [c \in Consoles |-> Idle]

\* The DELETE before every writing and reading of the log, which may fail.
Prune == log' \in {log, {row \in log : row.at >= clock - Day}}

-----------------------------------------------------------------------------
(* The requests *)

\* The action a request logs.  An answer is logged as one from the cache, from upstream or
\* as none at all; only a stale answer leaves no row.
ActionsOf(r) ==
    IF verdict[r] = "resolve" THEN {"resolve", "resolve_cache", "error"}
    ELSE IF by[r] = "rule" THEN {"block_domain_rule"} ELSE {"block_ruleset"}

\* logPersonalQuery up to the DELETE of insertQueryLog.
LogPersonalQuery(r) ==
    /\ pc[r] = "done" /\ owner[r] \in Owners /\ stamp[r] = Never
    /\ stamp' = [stamp EXCEPT ![r] = clock]
    /\ Prune
    /\ UNCHANGED <<vars, actionLast, task>>

\* The INSERT, and the response after it.
InsertRow(r) ==
    /\ stamp[r] # Never
    /\ \/ \E id \in RowIDs, a \in ActionsOf(r) :
            /\ \A row \in log : row.id # id
            /\ log' = log \union {[id |-> id, owner |-> owner[r], action |-> a, at |-> stamp[r]]}
       \/ UNCHANGED log
    /\ stamp' = [stamp EXCEPT ![r] = Never]
    /\ Leave(r)
    /\ UNCHANGED <<actionLast, task>>

\* An anonymous request, or a stale answer.
LeaveUnlogged(r) ==
    /\ stamp[r] = Never /\ (owner[r] = Anonymous \/ verdict[r] = "resolve")
    /\ Leave(r)
    /\ UNCHANGED logVars

-----------------------------------------------------------------------------
(* The console *)

\* listQueryLogs and queryLogStats; the rest of them only reads.
ReadLog ==
    /\ log # {}
    /\ Prune
    /\ UNCHANGED <<vars, stamp, actionLast, task>>

\* handleClearQueryLogs: allowUserAction reads the time before it takes the lock.
AskClear(c) ==
    /\ task[c] = Idle
    /\ \E o \in Owners : task' = [task EXCEPT ![c] = [at |-> "limit", owner |-> o, now |-> clock]]
    /\ UNCHANGED <<vars, log, stamp, actionLast>>

TooSoon(last, now) == last # Never /\ now - last < Interval

\* Variant: the action alone is the key.
AllowUserActionOfAll(c) ==
    LET o == task[c].owner
        refused == \E p \in Owners : TooSoon(actionLast[p], task[c].now)
    IN  /\ task[c].at = "limit"
        /\ \/ refused /\ task' = [task EXCEPT ![c] = Idle] /\ UNCHANGED actionLast
           \/ /\ ~refused
              /\ task' = [task EXCEPT ![c].at = "delete"]
              /\ actionLast' = [actionLast EXCEPT ![o] = task[c].now]
        /\ UNCHANGED <<vars, log, stamp>>

\* allowUserAction under its lock; a refusal answers 429.
AllowUserAction(c) ==
    LET o == task[c].owner
        refused == TooSoon(actionLast[o], task[c].now)
    IN  /\ task[c].at = "limit"
        /\ \/ refused /\ task' = [task EXCEPT ![c] = Idle] /\ UNCHANGED actionLast
           \/ /\ ~refused
              /\ task' = [task EXCEPT ![c].at = "delete"]
              /\ actionLast' = [actionLast EXCEPT ![o] = task[c].now]
        /\ UNCHANGED <<vars, log, stamp>>

\* clearQueryLogs; if it fails the owner has to wait for the interval all the same.
ClearQueryLogs(c) ==
    /\ task[c].at = "delete"
    /\ log' \in {log, {row \in log : row.owner # task[c].owner}}
    /\ task' = [task EXCEPT ![c] = Idle]
    /\ UNCHANGED <<vars, stamp, actionLast>>

-----------------------------------------------------------------------------
RequestStep(r) ==
    \/ (Arrive(r) \/ AskRules(r) \/ AskLists(r) \/ Block(r)) /\ UNCHANGED logVars
    \/ LogPersonalQuery(r) \/ InsertRow(r) \/ LeaveUnlogged(r)

ConsoleStep(c) == AskClear(c) \/ AllowUserAction(c) \/ ClearQueryLogs(c)

LogNext ==
    \/ Tick /\ UNCHANGED logVars
    \/ \E r \in Reqs : RequestStep(r)
    \/ \E o \in Owners : Change(o) /\ UNCHANGED logVars
    \/ \E s \in Sets : ReplaceList(s) /\ UNCHANGED logVars
    \/ ReadLog
    \/ \E c \in Consoles : ConsoleStep(c)

LogSpec == LogInit /\ [][LogNext]_allVars

-----------------------------------------------------------------------------
(* Properties *)

\* What one owner does never reaches another, although all rows are in the same tables and
\* every request deletes old ones: not the rules, preferences and settings (the id in a
\* DELETE may belong to somebody else's rule), not the rows of less than a day in the log,
\* and not the right to clear one's own log.
ChangesPolicy(p) == PolicyOf(p)' # PolicyOf(p)
LosesRow(p)      == \E row \in log \ log' : row.owner = p /\ row.at >= clock - Day
IsRefused(p)     == \E c \in Consoles : task[c].owner = p /\ task[c].at = "limit" /\ task'[c] = Idle

OwnersApart ==
    [][\A p \in Owners :
         /\ ChangesPolicy(p) => \A o \in Owners \ {p} : ~Change(o)
         /\ LosesRow(p) => \E c \in Consoles : task[c].owner = p /\ task[c].at = "delete"
                                               /\ task'[c] = Idle
         /\ IsRefused(p) => actionLast[p] # Never]_allVars
=============================================================================
