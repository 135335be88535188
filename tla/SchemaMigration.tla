-------------------------- MODULE SchemaMigration --------------------------
(***************************************************************************)
(* newAccountStore and migrate (internal/server/server.go): how a dqueryd  *)
(* that starts brings the SQLite database to its own schema.  Tables of an *)
(* older schema are dropped one by one and created anew; the version row   *)
(* is written last.  Nothing spans the statements: each one commits by     *)
(* itself, any of them may fail and the process may die between any two,   *)
(* after which it is started again on what is left.  A statement that      *)
(* fails ends the process, except for the look-ups of hasManagedTables: a  *)
(* failing one is taken for a table that is not there.                     *)
(*                                                                         *)
(* Left out: the indexes, and the columns of the tables, of which only the *)
(* schema version matters.                                                 *)
(***************************************************************************)
EXTENDS Integers, Sequences, FiniteSets

CONSTANTS
    Meta,         \* dquery_schema_metadata, which holds the version row
    DropOrder,    \* the tables in the order resetManagedTablesForOldSchema drops them
    CreateOrder,  \* the tables in the order migrate creates them
    Listed,       \* the tables hasManagedTables looks for
    Version,      \* accountSchemaVersion
    OldVersions,  \* versions found in older databases; 0 is an unreadable one
    NewVersions,  \* versions found in databases of a later dqueryd
    BeforeRow     \* what databases from before the version row hold: sets of tables

InOrder(s) == {s[i] : i \in 1..Len(s)}
Managed    == InOrder(CreateOrder)
Data       == Managed \ {Meta}

\* The listed table that is dropped after all others but the version row's.
LastListed == DropOrder[Len(DropOrder) - 1]

\* hasManagedTables asks for some of the tables only: the drop order must leave one of
\* them (dns_profiles) for last, and the version row for after that.
ASSUME OrderAssumption ==
    /\ DropOrder \in Seq(Managed) /\ CreateOrder \in Seq(Managed)
    /\ InOrder(DropOrder) = Managed
    /\ Meta \in Managed \ Listed
    /\ Len(DropOrder) > 1 /\ DropOrder[Len(DropOrder)] = Meta
    /\ DropOrder[Len(DropOrder) - 1] \in Listed
    /\ \A i, j \in 1..Len(DropOrder) : DropOrder[i] = DropOrder[j] => i = j
ASSUME VersionAssumption ==
    /\ Version \in Nat \ {0} /\ OldVersions \subseteq Nat /\ NewVersions \subseteq Nat
    /\ \A v \in OldVersions : v < Version
    /\ \A v \in NewVersions : v > Version

ASSUME BeforeRowAssumption == \A S \in BeforeRow : S \subseteq Data /\ LastListed \in S

Absent == -1

VARIABLES
    pc,       \* "down", "decide", "drop", "create", "presets", "stamp" or "serving"
    pos,      \* the next statement of the current list
    table,    \* per table, the schema version it was created with, or Absent
    row,      \* the version row, or Absent
    presets,  \* ensureKnownRuleSets has run since the last reset began
    filled,   \* tables that hold rows which users stored under this or a later version
    missed    \* history: hasManagedTables found none of the tables, though some are there

vars == <<pc, pos, table, row, presets, filled, missed>>

\* What a dqueryd may find: nothing, the complete database of one version, or some
\* tables (profiles at least) from before there was a version row.
Init ==
    /\ pc = "down"
    /\ pos = 1
    /\ missed = FALSE
    /\ \/ /\ table = [t \in Managed |-> Absent]
          /\ row = Absent /\ presets = FALSE /\ filled = {}
       \/ \E v \in OldVersions \union {Version} \union NewVersions :
          /\ table = [t \in Managed |-> v]
          /\ row = v /\ presets = TRUE
          /\ filled = IF v < Version THEN {} ELSE Data
       \/ \E S \in BeforeRow :
          /\ table = [t \in Managed |-> IF t \in S THEN 0 ELSE Absent]
          /\ row = Absent /\ presets = FALSE /\ filled = {}

Start ==
    /\ pc = "down"
    /\ pc' = "decide"
    /\ UNCHANGED <<pos, table, row, presets, filled, missed>>

\* The process dies, or the next statement, other than a look-up of hasManagedTables,
\* fails and it exits.
Crash ==
    /\ pc # "down"
    /\ pc' = "down"
    /\ pos' = 1
    /\ UNCHANGED <<table, row, presets, filled, missed>>

\* The tables hasManagedTables should find.
Present == {t \in Listed : table[t] # Absent}

\* Variant: only a stored version counts as an old schema.
IsOldWithRow(found) == row # Absent /\ row < Version

\* storedSchemaVersion and hasManagedTables; found are the tables whose look-up gave a row.
IsOld(found) ==
    \/ row # Absent /\ row < Version
    \/ row = Absent /\ found # {}

\* Variant: an unreadable version is read again and again.
DecideReadable ==
    /\ pc = "decide"
    /\ row # 0
    /\ \E found \in SUBSET Present :
        /\ pc' = IF IsOld(found) THEN "drop" ELSE "create"
        /\ missed' = IF row = Absent THEN found = {} /\ Present # {} ELSE missed
    /\ UNCHANGED <<pos, table, row, presets, filled>>

\* resetManagedTablesForOldSchema up to its loop.  Each look-up of hasManagedTables may
\* fail by itself, so found is any part of what is there.
Decide ==
    /\ pc = "decide"
    /\ \E found \in SUBSET Present :
        /\ pc' = IF IsOld(found) THEN "drop" ELSE "create"
        /\ missed' = IF row = Absent THEN found = {} /\ Present # {} ELSE missed
    /\ UNCHANGED <<pos, table, row, presets, filled>>

\* The place after the statement at pos: the next one, or the next list.
Advance(list, next) ==
    IF pos < Len(list)
    THEN pos' = pos + 1 /\ UNCHANGED pc
    ELSE pos' = 1 /\ pc' = next

Drop ==
    /\ pc = "drop"
    /\ LET t == DropOrder[pos]
       IN  /\ table' = [table EXCEPT ![t] = Absent]
           /\ filled' = filled \ {t}
           /\ row' = IF t = Meta THEN Absent ELSE row
    /\ presets' = FALSE
    /\ Advance(DropOrder, "create")
    /\ UNCHANGED missed

\* CREATE TABLE IF NOT EXISTS
Create ==
    /\ pc = "create"
    /\ LET t == CreateOrder[pos]
       IN  table' = [table EXCEPT ![t] = IF @ = Absent THEN Version ELSE @]
    /\ Advance(CreateOrder, "presets")
    /\ UNCHANGED <<row, presets, filled, missed>>

EnsureKnownRuleSets ==
    /\ pc = "presets"
    /\ pc' = "stamp"
    /\ presets' = TRUE
    /\ UNCHANGED <<pos, table, row, filled, missed>>

\* Variant: the row is inserted, but an existing one is not updated, nor missed.
StampNothing ==
    /\ pc = "stamp"
    /\ pc' = "serving"
    /\ UNCHANGED <<pos, table, row, presets, filled, missed>>

Stamp ==
    /\ pc = "stamp"
    /\ pc' = "serving"
    /\ row' = Version
    /\ UNCHANGED <<pos, table, presets, filled, missed>>

\* A user's request stores a row.
Use ==
    /\ pc = "serving"
    /\ \E t \in Data \ filled : filled' = filled \union {t}
    /\ UNCHANGED <<pc, pos, table, row, presets, missed>>

Step == Decide \/ Drop \/ Create \/ EnsureKnownRuleSets \/ Stamp

Next == Start \/ Crash \/ Step \/ Use

Spec == Init /\ [][Next]_vars

\* The service manager starts the process again, and a running one runs.
FairSpec == Spec /\ WF_vars(Start) /\ WF_vars(Step)

-----------------------------------------------------------------------------
TypeOK ==
    /\ pc \in {"down", "decide", "drop", "create", "presets", "stamp", "serving"}
    /\ pos \in Nat
    /\ pc = "drop" => pos \in 1..Len(DropOrder)
    /\ pc = "create" => pos \in 1..Len(CreateOrder)
    /\ pc \notin {"drop", "create"} => pos = 1
    /\ table \in [Managed -> Nat \union {Absent}]
    /\ row \in Nat \union {Absent}
    /\ presets \in BOOLEAN
    /\ filled \subseteq Data
    /\ missed \in BOOLEAN

\* CREATE TABLE IF NOT EXISTS never changes a table that is there, so requests are
\* served only when no table of an older schema is left, whatever crashes
\* interrupted the earlier starts.  The one exception: in the start that wrote the
\* version row the look-ups of hasManagedTables failed for every listed table there was.
ServesNoOldTable ==
    pc = "serving" =>
        presets /\ \A t \in Managed : table[t] # Absent /\ (table[t] >= Version \/ missed)

\* The version row vouches for the whole schema: where it says Version or later,
\* every table is there and none is old (the row is written last and, in a reset,
\* dropped last), except after such failed look-ups.
StampMeansComplete ==
    row >= Version => \A t \in Managed : table[t] # Absent /\ (table[t] >= Version \/ missed)

\* What users stored under this schema survives every restart and crash: a reset
\* only ever drops tables nobody has been served from.
KeepsUserRows == [][filled \subseteq filled']_vars

\* When crashes stop, dqueryd ends up serving, from whatever state they left.
RecoversOnceCrashesStop == <>[][~Crash]_vars => <>(pc = "serving")
=============================================================================
