--------------------------- MODULE StartProofs ---------------------------
(* Theorems about what main does to the database before it serves.              *)
(* SchemaMigration: for every list of tables and every set of versions, an      *)
(* interrupted reset is always resumed until no old table is left, unless every *)
(* look-up of the tables that are left fails.                                   *)
(* RuleSetRefresh: for any number of rule sets and any deadlines that satisfy   *)
(* its DailyAssumption, a daily pass that stores quickly comes to every list.   *)
EXTENDS SchemaMigration, RuleSetRefresh, FiniteSetTheorems, TLAPS

Old(t) == table[t] # Absent /\ table[t] < Version

\* What a crash leaves is recognised at the next start: old tables without a
\* version row are listed, or there is a listed table that goes after them.
NothingOldOverlooked ==
    /\ row >= Version => \A t \in Managed : table[t] # Absent /\ (table[t] >= Version \/ missed)
    /\ row = Absent => ~Old(Meta)
    /\ row = Absent /\ (\E t \in Data \ Listed : Old(t)) => table[LastListed] # Absent

\* How far the two lists have been worked off.
ListsWorkedOff ==
    /\ pc = "drop" => row < Version /\ \A i \in 1..(pos - 1) : table[DropOrder[i]] = Absent
    /\ pc \in {"create", "presets", "stamp", "serving"} => \A t \in Managed : ~Old(t) \/ missed
    /\ pc = "create" => \A i \in 1..(pos - 1) : table[CreateOrder[i]] # Absent
    /\ pc \in {"presets", "stamp", "serving"} => \A t \in Managed : table[t] # Absent
    /\ pc \in {"stamp", "serving"} => presets

\* Users have been served only from a stamped database.
RowsAreStamped ==
    /\ pc = "serving" => row >= Version
    /\ filled # {} => row >= Version

MigrationInv == TypeOK /\ NothingOldOverlooked /\ ListsWorkedOff /\ RowsAreStamped

-----------------------------------------------------------------------------
\* LastListed is a listed table, behind it in DropOrder comes Meta only.
LEMMA LastListedFact ==
    /\ Len(DropOrder) - 1 \in 1..Len(DropOrder)
    /\ LastListed \in Listed /\ LastListed \in Data
    /\ \A i \in 1..Len(DropOrder) : DropOrder[i] \notin Listed \union {Meta} => i < Len(DropOrder) - 1
<1>1. /\ Len(DropOrder) \in Nat /\ Len(DropOrder) > 1
      /\ DropOrder[Len(DropOrder)] = Meta /\ LastListed \in Listed /\ Meta \notin Listed
  BY OrderAssumption DEF LastListed
<1>2. Len(DropOrder) - 1 \in 1..Len(DropOrder)
  BY <1>1
<1>3. LastListed \in Managed
  BY <1>2, OrderAssumption DEF InOrder, LastListed
<1>4. ASSUME NEW i \in 1..Len(DropOrder), DropOrder[i] \notin Listed \union {Meta}
      PROVE  i < Len(DropOrder) - 1
  <2>1. i # Len(DropOrder) /\ i # Len(DropOrder) - 1
    BY <1>1, <1>4 DEF LastListed
  <2> QED
    BY <2>1, <1>1
<1> QED
  BY <1>1, <1>2, <1>3, <1>4 DEF Data

\* The lists contain every managed table, and only those.
LEMMA ListFacts ==
    /\ Version \in Nat \ {0} /\ Meta \in Managed /\ Data \subseteq Managed
    /\ Len(DropOrder) \in Nat \ {0} /\ Len(CreateOrder) \in Nat
    /\ \A i \in 1..Len(DropOrder) : DropOrder[i] \in Managed
    /\ \A i \in 1..Len(CreateOrder) : CreateOrder[i] \in Managed
    /\ \A t \in Managed : \E i \in 1..Len(DropOrder) : DropOrder[i] = t
    /\ \A t \in Managed : \E i \in 1..Len(CreateOrder) : CreateOrder[i] = t
<1>1. DropOrder \in Seq(Managed) /\ CreateOrder \in Seq(Managed) /\ Len(DropOrder) > 1
  BY OrderAssumption
<1>2. /\ Len(DropOrder) \in Nat \ {0} /\ Len(CreateOrder) \in Nat
      /\ \A i \in 1..Len(DropOrder) : DropOrder[i] \in Managed
      /\ \A i \in 1..Len(CreateOrder) : CreateOrder[i] \in Managed
  BY <1>1
<1>3. \A t \in Managed : \E i \in 1..Len(DropOrder) : DropOrder[i] = t
  BY OrderAssumption DEF InOrder
<1>4. \A t \in Managed : \E i \in 1..Len(CreateOrder) : CreateOrder[i] = t
  BY DEF Managed, InOrder
<1> QED
  BY <1>2, <1>3, <1>4, OrderAssumption, VersionAssumption DEF Data

\* Every table is dropped once, the version row's last.
LEMMA DroppedOnce ==
    /\ \A i, j \in 1..Len(DropOrder) : DropOrder[i] = DropOrder[j] => i = j
    /\ \A i \in 1..Len(DropOrder) : DropOrder[i] = Meta <=> i = Len(DropOrder)
<1>1. \A i, j \in 1..Len(DropOrder) : DropOrder[i] = DropOrder[j] => i = j
  BY OrderAssumption
<1>2. DropOrder[Len(DropOrder)] = Meta /\ Len(DropOrder) \in 1..Len(DropOrder)
  BY OrderAssumption, ListFacts
<1> QED
  BY <1>1, <1>2

LEMMA InitMigrationInv == Init => MigrationInv
<1> SUFFICES ASSUME Init PROVE MigrationInv
  OBVIOUS
<1> USE ListFacts DEF Absent
<1>1. pc = "down" /\ pos = 1 /\ missed = FALSE
  BY DEF Init
<1>2. CASE /\ table = [t \in Managed |-> Absent]
           /\ row = Absent /\ presets = FALSE /\ filled = {}
  <2>1. TypeOK
    BY <1>1, <1>2 DEF TypeOK
  <2>2. NothingOldOverlooked /\ ListsWorkedOff /\ RowsAreStamped
    BY <1>1, <1>2 DEF NothingOldOverlooked, ListsWorkedOff, RowsAreStamped, Old
  <2> QED
    BY <2>1, <2>2 DEF MigrationInv
<1>3. ASSUME NEW v \in OldVersions \union {Version} \union NewVersions,
             table = [t \in Managed |-> v], row = v, presets = TRUE,
             filled = IF v < Version THEN {} ELSE Data
      PROVE  MigrationInv
  <2>1. v \in Nat
    BY VersionAssumption
  <2>2. TypeOK
    BY <1>1, <1>3, <2>1 DEF TypeOK
  <2>3. NothingOldOverlooked /\ ListsWorkedOff /\ RowsAreStamped
    BY <1>1, <1>3, <2>1 DEF NothingOldOverlooked, ListsWorkedOff, RowsAreStamped
  <2> QED
    BY <2>2, <2>3 DEF MigrationInv
<1>4. ASSUME NEW S \in BeforeRow,
             table = [t \in Managed |-> IF t \in S THEN 0 ELSE Absent],
             row = Absent, presets = FALSE, filled = {}
      PROVE  MigrationInv
  <2>1. TypeOK /\ ListsWorkedOff /\ RowsAreStamped
    BY <1>1, <1>4 DEF TypeOK, ListsWorkedOff, RowsAreStamped
  <2>2. NothingOldOverlooked
    BY <1>4, LastListedFact, BeforeRowAssumption DEF NothingOldOverlooked, Old, Data
  <2> QED
    BY <2>1, <2>2 DEF MigrationInv
<1> QED
  BY <1>2, <1>3, <1>4 DEF Init

\* A step that leaves the tables and the version row alone leaves their relation alone.
LEMMA TablesUnchanged ==
    ASSUME NothingOldOverlooked, UNCHANGED <<table, row, missed>>
    PROVE  NothingOldOverlooked'
  BY DEF NothingOldOverlooked, Old

LEMMA AdvanceFact ==
    ASSUME NEW order, NEW next, Len(order) \in Nat, pos \in 1..Len(order), Advance(order, next)
    PROVE  \/ pos < Len(order) /\ pos' = pos + 1 /\ pos' \in 1..Len(order) /\ pc' = pc
           \/ pos = Len(order) /\ pos' = 1 /\ pc' = next
  BY DEF Advance

LEMMA DropKeepsInv == ASSUME MigrationInv, Drop PROVE MigrationInv'
<1> DEFINE t == DropOrder[pos]
<1> USE ListFacts DEF Absent
<1>1. /\ pc = "drop" /\ pos \in 1..Len(DropOrder) /\ t \in Managed
      /\ table' = [table EXCEPT ![t] = Absent]
      /\ filled' = filled \ {t} /\ row' = IF t = Meta THEN Absent ELSE row
      /\ presets' = FALSE /\ missed' = missed
  BY DEF MigrationInv, TypeOK, Drop
<1>2. \/ pos < Len(DropOrder) /\ pos' = pos + 1 /\ pos' \in 1..Len(DropOrder) /\ pc' = "drop"
      \/ pos = Len(DropOrder) /\ pos' = 1 /\ pc' = "create"
  BY <1>1, AdvanceFact DEF Drop
<1>3. table \in [Managed -> Nat \union {Absent}] /\ row \in Nat \union {Absent}
  BY DEF MigrationInv, TypeOK
<1>4. /\ row < Version /\ \A i \in 1..(pos - 1) : table[DropOrder[i]] = Absent
  BY <1>1 DEF MigrationInv, ListsWorkedOff
<1>5. \A i \in 1..pos : table'[DropOrder[i]] = Absent
  BY <1>1, <1>3, <1>4
<1>6. /\ \A u \in Managed : table'[u] = table[u] \/ table'[u] = Absent
      /\ row' = row \/ row' = Absent
  BY <1>1, <1>3
<1>7. pos = Len(DropOrder) <=> t = Meta
  BY <1>1, DroppedOnce
<1>8. TypeOK'
  <2>1. /\ table' \in [Managed -> Nat \union {Absent}] /\ row' \in Nat \union {Absent}
        /\ presets' \in BOOLEAN /\ filled' \subseteq Data
        /\ missed' \in BOOLEAN
    BY <1>1, <1>3 DEF MigrationInv, TypeOK
  <2> QED
    BY <1>2, <2>1 DEF TypeOK
<1>9. NothingOldOverlooked'
  <2>1. row' < Version
    BY <1>4, <1>6
  <2>2. row' = Absent => ~Old(Meta)'
    <3>1. CASE row' = row
      BY <3>1, <1>6 DEF MigrationInv, NothingOldOverlooked, Old
    <3>2. CASE t = Meta
      BY <3>2, <1>1, <1>3 DEF Old
    <3> QED
      BY <3>1, <3>2, <1>1
  <2>3. ASSUME row' = Absent, NEW u \in Data \ Listed, Old(u)' PROVE table'[LastListed] # Absent
    <3>1. u \in Managed /\ u # Meta /\ table'[u] # Absent /\ Old(u)
      BY <2>3, <1>6 DEF Old, Data
    <3>2. PICK i \in 1..Len(DropOrder) : DropOrder[i] = u
      BY <3>1
    <3>3. i > pos
      <4>1. i \notin 1..pos
        BY <3>1, <3>2, <1>5
      <4> QED
        BY <4>1, <3>2, <1>1
    <3>4. t # Meta /\ row = Absent
      <4>1. pos # Len(DropOrder)
        BY <3>2, <3>3, <1>1
      <4> QED
        BY <4>1, <2>3, <1>1, <1>7
    <3>5. table[LastListed] # Absent
      BY <3>1, <3>4, <2>3 DEF MigrationInv, NothingOldOverlooked
    <3>6. i < Len(DropOrder) - 1
      BY <2>3, <3>1, <3>2, LastListedFact
    <3>7. t # LastListed
      BY <1>1, <3>3, <3>6, LastListedFact, DroppedOnce DEF LastListed
    <3>8. LastListed \in Managed
      BY LastListedFact
    <3> QED
      BY <3>5, <3>7, <3>8, <1>1, <1>3
  <2> QED
    <3>1. ~(row' >= Version)
      BY <2>1, <1>8 DEF TypeOK
    <3> QED
      BY <3>1, <2>2, <2>3 DEF NothingOldOverlooked, Old, Data
<1>10. (ListsWorkedOff /\ RowsAreStamped)'
  <2>1. filled' = {}
    BY <1>1, <1>4, <1>3 DEF MigrationInv, RowsAreStamped
  <2>2. CASE pc' = "drop" /\ pos' = pos + 1
    BY <2>1, <2>2, <1>1, <1>4, <1>5, <1>6, <1>3 DEF ListsWorkedOff, RowsAreStamped
  <2>3. CASE pos = Len(DropOrder) /\ pos' = 1 /\ pc' = "create"
    <3>1. \A u \in Managed : table'[u] = Absent
      BY <2>3, <1>5
    <3> QED
      BY <2>1, <2>3, <3>1 DEF ListsWorkedOff, RowsAreStamped, Old
  <2> QED
    BY <1>2, <2>2, <2>3
<1> QED
  BY <1>8, <1>9, <1>10 DEF MigrationInv

LEMMA CreateKeepsInv == ASSUME MigrationInv, Create PROVE MigrationInv'
<1> DEFINE t == CreateOrder[pos]
<1> USE ListFacts DEF Absent
<1>1. /\ pc = "create" /\ pos \in 1..Len(CreateOrder) /\ t \in Managed
      /\ table' = [table EXCEPT ![t] = IF @ = Absent THEN Version ELSE @]
      /\ filled' = filled /\ row' = row /\ presets' = presets /\ missed' = missed
  BY DEF MigrationInv, TypeOK, Create
<1>2. \/ pos < Len(CreateOrder) /\ pos' = pos + 1 /\ pos' \in 1..Len(CreateOrder) /\ pc' = "create"
      \/ pos = Len(CreateOrder) /\ pos' = 1 /\ pc' = "presets"
  BY <1>1, AdvanceFact DEF Create
<1>3. table \in [Managed -> Nat \union {Absent}]
  BY DEF MigrationInv, TypeOK
<1>4. /\ \A u \in Managed : table'[u] = table[u] \/ (table[u] = Absent /\ table'[u] = Version)
      /\ \A u \in Managed : table[u] = Absent \/ table[u] >= Version \/ missed
  <2>1. \A u \in Managed : table[u] = Absent \/ table[u] >= Version \/ missed
    <3>1. \A u \in Managed : ~Old(u) \/ missed
      BY <1>1 DEF MigrationInv, ListsWorkedOff
    <3> QED
      BY <1>3, <3>1 DEF Old
  <2>2. ASSUME NEW u \in Managed
        PROVE  table'[u] = table[u] \/ (table[u] = Absent /\ table'[u] = Version)
    <3>1. CASE u = t
      BY <3>1, <1>1, <1>3
    <3>2. CASE u # t
      BY <3>2, <1>1, <1>3
    <3> QED
      BY <3>1, <3>2
  <2> QED
    BY <2>1, <2>2
<1>5. /\ \A u \in Managed : ~Old(u)' \/ missed
      /\ \A u \in Managed : Old(u)' => Old(u)
  <2>1. ASSUME NEW u \in Managed PROVE Old(u)' => Old(u) /\ missed
    <3>1. table[u] \in Nat \union {Absent}
      BY <1>3
    <3> QED
      BY <3>1, <1>4 DEF Old
  <2> QED
    BY <2>1
<1>6. \A i \in 1..pos : table'[CreateOrder[i]] # Absent
  <2>1. \A i \in 1..(pos - 1) : table[CreateOrder[i]] # Absent
    BY <1>1 DEF MigrationInv, ListsWorkedOff
  <2>2. table'[t] # Absent
    BY <1>1, <1>3
  <2>3. \A i \in 1..(pos - 1) : table'[CreateOrder[i]] # Absent
    BY <2>1, <1>1, <1>4
  <2> QED
    BY <2>2, <2>3, <1>1
<1>7. TypeOK'
  <2>1. table' \in [Managed -> Nat \union {Absent}]
    BY <1>1, <1>3
  <2> QED
    BY <1>1, <1>2, <2>1 DEF MigrationInv, TypeOK
<1>8. NothingOldOverlooked'
  <2>1. ASSUME row >= Version, NEW u \in Managed
        PROVE  table'[u] # Absent /\ (table'[u] >= Version \/ missed)
    <3>1. table[u] # Absent /\ (table[u] >= Version \/ missed)
      BY <2>1 DEF MigrationInv, NothingOldOverlooked
    <3> QED
      BY <3>1, <1>4
  <2>2. row = Absent => ~Old(Meta)'
    BY <1>5 DEF MigrationInv, NothingOldOverlooked
  <2>3. ASSUME row = Absent, NEW u \in Data \ Listed, Old(u)' PROVE table'[LastListed] # Absent
    <3>1. table[LastListed] # Absent
      BY <2>3, <1>5 DEF MigrationInv, NothingOldOverlooked, Data
    <3> QED
      BY <3>1, <1>4, LastListedFact DEF Data
  <2> QED
    BY <1>1, <2>1, <2>2, <2>3 DEF NothingOldOverlooked
<1>9. ListsWorkedOff'
  <2>1. CASE pc' = "create" /\ pos' = pos + 1
    BY <2>1, <1>1, <1>5, <1>6 DEF ListsWorkedOff, Old
  <2>2. CASE pos = Len(CreateOrder) /\ pc' = "presets"
    BY <2>2, <1>1, <1>5, <1>6 DEF ListsWorkedOff, Old
  <2> QED
    BY <1>2, <2>1, <2>2
<1>10. RowsAreStamped'
  BY <1>1, <1>2 DEF MigrationInv, RowsAreStamped
<1> QED
  BY <1>7, <1>8, <1>9, <1>10 DEF MigrationInv

LEMMA StepKeepsInv == ASSUME MigrationInv, [Next]_vars PROVE MigrationInv'
<1> USE ListFacts DEF Absent
<1>1. CASE Start
  BY <1>1, TablesUnchanged DEF Start, MigrationInv, TypeOK, ListsWorkedOff, RowsAreStamped
<1>2. CASE Crash
  BY <1>2, TablesUnchanged DEF Crash, MigrationInv, TypeOK, ListsWorkedOff, RowsAreStamped
<1>3. CASE Decide
  <2>1. PICK found \in SUBSET Present :
          /\ pc' = IF IsOld(found) THEN "drop" ELSE "create"
          /\ missed' = IF row = Absent THEN found = {} /\ Present # {} ELSE missed
    BY <1>3 DEF Decide
  <2>2. pc = "decide" /\ UNCHANGED <<pos, table, row, presets, filled>>
    BY <1>3 DEF Decide
  <2>3. TypeOK' /\ RowsAreStamped'
    <3>1. missed' \in BOOLEAN
      BY <2>1 DEF MigrationInv, TypeOK
    <3> QED
      BY <3>1, <2>1, <2>2 DEF MigrationInv, TypeOK, RowsAreStamped
  <2>4. NothingOldOverlooked'
    BY <2>1, <2>2 DEF MigrationInv, NothingOldOverlooked, Old
  <2>5. IsOld(found) => row < Version
    BY DEF IsOld
  <2>6. ASSUME ~IsOld(found), ~missed', NEW u \in Managed PROVE ~Old(u)
    <3>1. row = Absent \/ row >= Version
      BY <2>6 DEF IsOld, MigrationInv, TypeOK
    <3>2. CASE row = Absent
      <4>1. Present = {}
        BY <2>1, <2>6, <3>2 DEF IsOld
      <4>2. \A l \in Listed : table[l] = Absent
        BY <4>1 DEF Present
      <4> QED
        BY <4>2, <3>2, LastListedFact DEF Old, MigrationInv, NothingOldOverlooked, Data
    <3>3. CASE row >= Version
      BY <2>1, <2>6, <3>3 DEF Old, MigrationInv, TypeOK, NothingOldOverlooked
    <3> QED
      BY <3>1, <3>2, <3>3
  <2>7. ListsWorkedOff'
    BY <2>1, <2>2, <2>5, <2>6 DEF ListsWorkedOff, MigrationInv, TypeOK, Old
  <2> QED
    BY <2>3, <2>4, <2>7 DEF MigrationInv
<1>4. CASE Drop
  BY <1>4, DropKeepsInv
<1>5. CASE Create
  BY <1>5, CreateKeepsInv
<1>6. CASE EnsureKnownRuleSets
  BY <1>6, TablesUnchanged
  DEF EnsureKnownRuleSets, MigrationInv, TypeOK, ListsWorkedOff, RowsAreStamped, Old
<1>7. CASE Stamp
  <2>1. /\ pc = "stamp" /\ pc' = "serving" /\ row' = Version
        /\ UNCHANGED <<pos, table, presets, filled, missed>>
    BY <1>7 DEF Stamp
  <2>2. \A u \in Managed : table[u] \in Nat /\ (table[u] >= Version \/ missed)
    BY <2>1 DEF MigrationInv, TypeOK, ListsWorkedOff, Old
  <2> QED
    BY <2>1, <2>2
    DEF MigrationInv, TypeOK, NothingOldOverlooked, ListsWorkedOff, RowsAreStamped, Old
<1>8. CASE Use
  BY <1>8, TablesUnchanged DEF Use, MigrationInv, TypeOK, ListsWorkedOff, RowsAreStamped, Old
<1>9. CASE UNCHANGED vars
  BY <1>9, TablesUnchanged DEF vars, MigrationInv, TypeOK, ListsWorkedOff, RowsAreStamped, Old
<1> QED
  BY <1>1, <1>2, <1>3, <1>4, <1>5, <1>6, <1>7, <1>8, <1>9 DEF Next, Step

LEMMA AlwaysMigrationInv == Spec => []MigrationInv
  BY InitMigrationInv, StepKeepsInv, PTL DEF Spec

-----------------------------------------------------------------------------
\* Whatever statements and crashes precede it, requests are served only from tables
\* of this schema (or of a later one): every interrupted reset is resumed, unless in
\* the start that wrote the version row each look-up of a table that was left failed.
THEOREM NoOldTableServed == Spec => []ServesNoOldTable
<1>1. MigrationInv => ServesNoOldTable
  BY ListFacts DEF MigrationInv, TypeOK, RowsAreStamped, NothingOldOverlooked, ListsWorkedOff, ServesNoOldTable
<1> QED
  BY <1>1, AlwaysMigrationInv, PTL

\* The version row vouches for every table, at every statement of a reset or a start,
\* with the same exception for look-ups that fail.
THEOREM StampIsSound == Spec => []StampMeansComplete
<1>1. MigrationInv => StampMeansComplete
  BY DEF MigrationInv, NothingOldOverlooked, StampMeansComplete
<1> QED
  BY <1>1, AlwaysMigrationInv, PTL

\* No restart and no crash takes away rows that users stored under this schema.
THEOREM UserRowsSurvive == Spec => KeepsUserRows
<1>1. ASSUME MigrationInv, [Next]_vars PROVE [filled \subseteq filled']_vars
  <2>1. CASE Drop
    <3>1. row < Version /\ row \in Nat \union {Absent}
      BY <1>1, <2>1 DEF Drop, MigrationInv, TypeOK, ListsWorkedOff
    <3>2. filled = {}
      BY <1>1, <3>1, ListFacts DEF MigrationInv, RowsAreStamped, Absent
    <3> QED
      BY <3>2
  <2>2. CASE Start \/ Crash \/ Decide \/ Create \/ EnsureKnownRuleSets \/ Stamp \/ Use
    BY <2>2 DEF Start, Crash, Decide, Create, EnsureKnownRuleSets, Stamp, Use
  <2>3. CASE UNCHANGED vars
    BY <2>3
  <2> QED
    BY <1>1, <2>1, <2>2, <2>3 DEF Next, Step
<1> QED
  BY <1>1, AlwaysMigrationInv, PTL DEF Spec, KeepsUserRows

\* The variables keep their types at every step, those of a crash and a failure included.
THEOREM TypeCorrect == Spec => []TypeOK
<1>1. MigrationInv => TypeOK
  BY DEF MigrationInv, TypeOK
<1> QED
  BY <1>1, AlwaysMigrationInv, PTL

-----------------------------------------------------------------------------
(* The lists of the known rule sets, for any rule sets and any deadlines.       *)

Fresh(s) == list[s] # {} /\ age[s] \in 0..MaxAge

RowsOK ==
    /\ status \in [Sets -> {"pending", "synced", "error"}]
    /\ list \in [Sets -> SUBSET Domains]
    /\ age \in [Sets -> {Never} \union 0..(MaxAge + 1)]

PassOK ==
    /\ phase \in {"down", "starting", "serving", "refreshing"}
    /\ todo \subseteq Sets
    /\ left \in Nat /\ spent \in Nat
    /\ left + spent <= DailyLimit \/ left + spent <= StartLimit
    /\ phase \in {"down", "serving"} => todo = {} /\ left = 0 /\ spent = 0

\* What the downloads of the rest of a daily pass may need in the worst case, and the
\* slack that storing has not used up, is still there.
TimeIsEnough ==
    phase = "refreshing" /\ todo # {} =>
        FetchLimit * (Cardinality(todo) - 1) + QuickFetch + Slack <= left + spent

\* As long as storing keeps to the slack, a good list that is not fresh yet is still on
\* the pass's list.
DueIsTodo ==
    phase = "refreshing" /\ spent <= Slack => \A s \in Good : Fresh(s) \/ s \in todo

RefreshInv == RowsOK /\ PassOK /\ UsedIffFilled /\ TimeIsEnough /\ DueIsTodo

-----------------------------------------------------------------------------
LEMMA Limits ==
    /\ QuickFetch \in Nat \ {0} /\ FetchLimit \in Nat \ {0} /\ MaxAge \in Nat \ {0}
           /\ StartLimit \in Nat /\ DailyLimit \in Nat /\ QuickFetch <= FetchLimit
           /\ Good \subseteq Sets /\ IsFiniteSet(Sets)
           /\ Slack \in Nat
           /\ FetchLimit * (Cardinality(Sets) - 1) + QuickFetch + Slack = DailyLimit
<1>1. /\ QuickFetch \in Nat \ {0} /\ FetchLimit \in Nat \ {0} /\ MaxAge \in Nat \ {0}
      /\ StartLimit \in Nat /\ DailyLimit \in Nat /\ QuickFetch <= FetchLimit
      /\ Good \subseteq Sets /\ IsFiniteSet(Sets)
  BY SetsAssumption, LimitsAssumption
<1> DEFINE worst == FetchLimit * (Cardinality(Sets) - 1)
<1>2. worst \in Int
  BY <1>1, FS_CardinalityType
<1>3. Slack = DailyLimit - worst - QuickFetch /\ worst + QuickFetch <= DailyLimit
  BY DailyAssumption DEF Slack
<1> HIDE DEF worst
<1>4. Slack \in Nat /\ worst + QuickFetch + Slack = DailyLimit
  BY <1>1, <1>2, <1>3
<1> QED
  BY <1>1, <1>4 DEF worst

\* The worst case of fewer downloads is no longer than that of more.
LEMMA FewerTakeLess ==
    ASSUME NEW m \in Int, NEW n \in Int, m <= n
    PROVE  FetchLimit * m <= FetchLimit * n
<1>1. FetchLimit \in Nat
  BY Limits
<1> QED
  BY <1>1

LEMMA OneMoreTakes ==
    ASSUME NEW n \in Int
    PROVE  FetchLimit * n = FetchLimit * (n - 1) + FetchLimit
<1>1. FetchLimit \in Nat
  BY Limits
<1> QED
  BY <1>1

LEMMA SubsetsOfSets ==
    ASSUME NEW T, T \subseteq Sets
    PROVE  /\ IsFiniteSet(T) /\ Cardinality(T) \in Nat /\ Cardinality(T) <= Cardinality(Sets)
           /\ Cardinality(Sets) \in Nat
  BY Limits, FS_Subset, FS_CardinalityType

\* Replace and MarkError keep the rows typed, and used exactly when filled; they touch
\* the rows of s only, and Replace makes them fresh.
LEMMA ReplaceKeeps ==
    ASSUME RowsOK, UsedIffFilled,
           NEW s \in Sets, NEW lines \in SUBSET Domains, Replace(s, lines)
    PROVE  /\ RowsOK' /\ UsedIffFilled' /\ Fresh(s)'
           /\ \A t \in Sets \ {s} : list'[t] = list[t] /\ age'[t] = age[t]
<1> USE Limits DEF Replace, RowsOK, Never
<1>1. RowsOK'
  OBVIOUS
<1>2. \A t \in Sets \ {s} : list'[t] = list[t] /\ age'[t] = age[t] /\ status'[t] = status[t]
  OBVIOUS
<1>3. list'[s] # {} /\ age'[s] = 0 /\ status'[s] = "synced"
  OBVIOUS
<1> QED
  BY <1>1, <1>2, <1>3 DEF UsedIffFilled, Fresh

LEMMA MarkErrorKeeps ==
    ASSUME RowsOK, UsedIffFilled, NEW s \in Sets, MarkError(s)
    PROVE  RowsOK' /\ UsedIffFilled' /\ UNCHANGED <<list, age>>
<1>1. \A t \in Sets \ {s} : status'[t] = status[t]
  BY DEF MarkError, RowsOK
<1>2. status'[s] = IF list[s] = {} THEN "error" ELSE status[s]
  BY DEF MarkError, RowsOK
<1>3. RowsOK'
  BY DEF MarkError, RowsOK
<1> QED
  BY <1>1, <1>2, <1>3 DEF MarkError, UsedIffFilled

LEMMA InitRefreshInv == ASSUME RefreshInit PROVE RefreshInv
  BY Limits DEF RefreshInit, RefreshInv, RowsOK, PassOK, UsedIffFilled, TimeIsEnough, DueIsTodo, Never

LEMMA RefreshKeepsInv ==
    ASSUME RefreshInv, NEW s \in Sets, Refresh(s)
    PROVE  RefreshInv'
<1>1. /\ s \in todo /\ left > 0 /\ UNCHANGED phase /\ todo' = todo \ {s}
      /\ TakeTime(s)
      /\ \/ \E lines \in SUBSET Domains : Replace(s, lines)
         \/ (s \notin Good \/ left < QuickFetch) /\ MarkError(s)
  BY DEF Refresh, IsNext, Stores, Fails
<1>2. PICK d \in FetchTimes(s) : \E st \in 0..(left - d) :
             left' = left - d - st /\ spent' = spent + st
  BY <1>1 DEF TakeTime
<1>3. left \in Nat /\ spent \in Nat /\ todo \subseteq Sets
  BY DEF RefreshInv, PassOK
<1>4. d \in 0..left /\ d <= FetchLimit
  BY <1>2, <1>3, Limits DEF FetchTimes
<1>5. /\ left' \in Nat /\ spent' \in Nat /\ spent <= spent'
      /\ left' + spent' = left + spent - d
      /\ left' + spent' <= left + spent
  BY <1>2, <1>3, <1>4
<1>6. PassOK'
  <2>1. /\ left' + spent' <= left + spent /\ todo' \subseteq Sets
        /\ left' \in Nat /\ spent' \in Nat
    <3>1. todo' \subseteq Sets
      BY <1>1, <1>3
    <3> QED
      BY <3>1, <1>5
  <2>2. phase \notin {"down", "serving"}
    BY <1>1 DEF RefreshInv, PassOK
  <2>3. left' + spent' <= DailyLimit \/ left' + spent' <= StartLimit
    <3>1. left + spent <= DailyLimit \/ left + spent <= StartLimit
      BY DEF RefreshInv, PassOK
    <3> QED
      <4> DEFINE before == left + spent
                 after == left' + spent'
      <4>1. before \in Int /\ after \in Int /\ DailyLimit \in Int /\ StartLimit \in Int
        BY <1>3, <1>5, Limits
      <4>2. after <= before
        BY <1>5
      <4>3. before <= DailyLimit \/ before <= StartLimit
        BY <3>1
      <4> HIDE DEF before, after
      <4>4. after <= DailyLimit \/ after <= StartLimit
        BY <4>1, <4>2, <4>3
      <4> QED
        BY <4>4 DEF after
  <2> QED
    BY <2>1, <2>2, <2>3, <1>1 DEF RefreshInv, PassOK
<1>7. /\ RowsOK' /\ UsedIffFilled'
      /\ \A t \in Sets \ {s} : list'[t] = list[t] /\ age'[t] = age[t]
      /\ Fresh(s)' \/ (s \notin Good \/ left < QuickFetch)
  BY <1>1, ReplaceKeeps, MarkErrorKeeps DEF RefreshInv
<1>8. /\ Cardinality(todo) \in Nat \ {0} /\ Cardinality(todo') = Cardinality(todo) - 1
      /\ IsFiniteSet(todo')
  BY <1>1, <1>3, SubsetsOfSets, FS_RemoveElement, FS_EmptySet, FS_CardinalityType
<1>9. CASE phase # "refreshing"
  BY <1>9, <1>1, <1>6, <1>7 DEF RefreshInv, TimeIsEnough, DueIsTodo
<1>10. CASE phase = "refreshing"
  <2>1. FetchLimit * (Cardinality(todo) - 1) + QuickFetch + Slack <= left + spent
    BY <1>10, <1>1 DEF RefreshInv, TimeIsEnough
  <2>2. spent <= Slack => left >= QuickFetch
    <3>1. FetchLimit * 0 <= FetchLimit * (Cardinality(todo) - 1)
      BY <1>8, FewerTakeLess
    <3>2. FetchLimit * (Cardinality(todo) - 1) \in Int
      BY <1>8, Limits
    <3> QED
      BY <2>1, <3>1, <3>2, <1>3, Limits
  <2>3. DueIsTodo'
    <3>1. ASSUME spent' <= Slack, NEW t \in Good PROVE Fresh(t)' \/ t \in todo'
      <4>1. spent <= Slack
        BY <3>1, <1>3, <1>5, Limits
      <4>2. CASE t = s
        BY <4>1, <4>2, <1>7, <2>2, <1>3, Limits
      <4>3. CASE t # s
        BY <4>1, <4>3, <1>1, <1>7, <1>10, Limits DEF RefreshInv, DueIsTodo, Fresh
      <4> QED
        BY <4>2, <4>3
    <3> QED
      BY <3>1 DEF DueIsTodo
  <2>4. TimeIsEnough'
    <3>1. SUFFICES ASSUME todo' # {}
                   PROVE  FetchLimit * (Cardinality(todo') - 1) + QuickFetch + Slack <= left' + spent'
      BY DEF TimeIsEnough, Slack
    <3> DEFINE n == Cardinality(todo) - 1
    <3>2. FetchLimit * n = FetchLimit * (n - 1) + FetchLimit
      BY <1>8, OneMoreTakes
    <3>3. FetchLimit * (n - 1) \in Int /\ FetchLimit * n \in Int
      BY <1>8, Limits
    <3> HIDE DEF n
    <3>4. FetchLimit * (n - 1) + QuickFetch + Slack <= left + spent - d
      <4>1. FetchLimit * n + QuickFetch + Slack <= left + spent
        BY <2>1 DEF n
      <4> QED
        BY <4>1, <3>2, <3>3, <1>3, <1>4, Limits
    <3> QED
      BY <3>4, <1>5, <1>8 DEF n
  <2> QED
    BY <1>6, <1>7, <2>3, <2>4 DEF RefreshInv
<1> QED
  BY <1>9, <1>10

LEMMA StartKeepsInv == ASSUME RefreshInv, StartPass PROVE RefreshInv'
<1>1. /\ phase' = "starting" /\ left' = StartLimit /\ spent' = 0 /\ todo' \in SUBSET Sets
      /\ UNCHANGED <<status, list, age>>
  BY DEF StartPass, BeginPass, rows
<1> QED
  BY <1>1, Limits DEF RefreshInv, RowsOK, PassOK, UsedIffFilled, TimeIsEnough, DueIsTodo

LEMMA DayKeepsInv == ASSUME RefreshInv, Day PROVE RefreshInv'
<1>1. age' = Older /\ UNCHANGED <<status, list>>
  BY DEF Day
<1>2. age \in [Sets -> {Never} \union 0..(MaxAge + 1)]
  BY DEF RefreshInv, RowsOK
<1>3. \A s \in Sets : /\ age'[s] \in {Never} \union 0..(MaxAge + 1)
                      /\ age[s] # Never => age'[s] # Never
  BY <1>1, <1>2, Limits DEF Older, Never
<1>4. RowsOK' /\ UsedIffFilled'
  <2>1. age' \in [Sets -> {Never} \union 0..(MaxAge + 1)]
    BY <1>1, <1>3 DEF Older
  <2> QED
    BY <2>1, <1>1, <1>3 DEF RefreshInv, RowsOK, UsedIffFilled
<1>5. CASE phase = "down" /\ UNCHANGED <<phase, pass>>
  BY <1>4, <1>5 DEF RefreshInv, PassOK, TimeIsEnough, DueIsTodo, pass
<1>6. CASE phase = "serving" /\ phase' = "refreshing" /\ BeginPass(DailyLimit, Older)
  <2>1. /\ left' = DailyLimit /\ spent' = 0 /\ todo' \in SUBSET Sets
        /\ \A s \in Sets : MustRefresh(Older, s) => s \in todo'
    BY <1>6 DEF BeginPass
  <2>2. PassOK'
    BY <1>6, <2>1, Limits DEF PassOK
  <2>3. DueIsTodo'
    <3>1. ASSUME NEW s \in Good, s \notin todo' PROVE Fresh(s)'
      <4>1. s \in Sets /\ ~MustRefresh(Older, s)
        BY <3>1, <2>1, Limits
      <4>2. age'[s] # Never /\ list'[s] # {} /\ ~(age'[s] > MaxAge)
        BY <4>1, <1>1 DEF MustRefresh
      <4> QED
        BY <4>1, <4>2, <1>3, Limits DEF Fresh
    <3> QED
      BY <3>1 DEF DueIsTodo
  <2>4. TimeIsEnough'
    <3>1. SUFFICES ASSUME TRUE
                   PROVE  FetchLimit * (Cardinality(todo') - 1) + QuickFetch + Slack <= left' + spent'
      BY DEF TimeIsEnough, Slack
    <3> DEFINE m == Cardinality(todo') - 1
               n == Cardinality(Sets) - 1
    <3>2. m \in Int /\ n \in Int /\ m <= n
      BY <2>1, SubsetsOfSets
    <3>3. FetchLimit * n + QuickFetch + Slack = DailyLimit
      BY Limits
    <3> HIDE DEF m, n
    <3>4. FetchLimit * m <= FetchLimit * n /\ FetchLimit * m \in Int /\ FetchLimit * n \in Int
      BY <3>2, FewerTakeLess, Limits
    <3> QED
      BY <3>3, <3>4, <2>1, Limits DEF m
  <2> QED
    BY <1>4, <2>2, <2>3, <2>4 DEF RefreshInv
<1> QED
  BY <1>5, <1>6 DEF Day

LEMMA StepKeepsRefreshInv ==
    ASSUME RefreshInv, [RefreshNext]_refreshVars
    PROVE  RefreshInv'
<1>1. CASE StartPass
  BY <1>1, StartKeepsInv
<1>2. CASE Day
  BY <1>2, DayKeepsInv
<1>3. CASE Stop \/ EndPass
  BY <1>3, Limits
     DEF Stop, EndPass, rows, RefreshInv, RowsOK, PassOK, UsedIffFilled, TimeIsEnough, DueIsTodo
<1>4. CASE \E s \in Sets : Refresh(s)
  BY <1>4, RefreshKeepsInv
<1>5. CASE UNCHANGED refreshVars
  BY <1>5 DEF refreshVars, pass, rows, RefreshInv, RowsOK, PassOK, UsedIffFilled,
              TimeIsEnough, DueIsTodo, Fresh
<1> QED
  BY <1>1, <1>2, <1>3, <1>4, <1>5 DEF RefreshNext, Pass

LEMMA AlwaysRefreshInv == RefreshSpec => []RefreshInv
  BY InitRefreshInv, StepKeepsRefreshInv, PTL DEF RefreshSpec

-----------------------------------------------------------------------------
\* What the matching reads is exactly what has rows, whatever downloads failed.
THEOREM UsedWhenFilled == RefreshSpec => []UsedIffFilled
<1>1. RefreshInv => UsedIffFilled
  BY DEF RefreshInv
<1> QED
  BY <1>1, AlwaysRefreshInv, PTL

\* No failed or broken-off download takes a working list away.
THEOREM ListsAreKept == RefreshSpec => NoListLost
<1>1. ASSUME RefreshInv, [RefreshNext]_refreshVars
      PROVE  [\A s \in Sets : list[s] # {} => list'[s] # {}]_refreshVars
  <2>1. CASE StartPass \/ Day \/ Stop \/ EndPass \/ UNCHANGED refreshVars
    BY <2>1 DEF StartPass, Day, Stop, EndPass, refreshVars, rows
  <2>2. ASSUME NEW s \in Sets, Refresh(s), NEW t \in Sets, list[t] # {} PROVE list'[t] # {}
    <3>1. list \in [Sets -> SUBSET Domains]
      BY <1>1 DEF RefreshInv, RowsOK
    <3>2. CASE Stores(s)
      BY <2>2, <3>1, <3>2 DEF Stores, Replace
    <3>3. CASE Fails(s)
      BY <2>2, <3>3 DEF Fails, MarkError
    <3> QED
      BY <2>2, <3>2, <3>3 DEF Refresh
  <2> QED
    BY <1>1, <2>1, <2>2 DEF RefreshNext, Pass
<1> QED
  BY <1>1, AlwaysRefreshInv, PTL DEF RefreshSpec, NoListLost

\* However long the other downloads hang, a daily pass that ends has come to every
\* list that was due, provided that storing took no more than Slack in all.
THEOREM DailyPassIsLongEnough == RefreshSpec => DailyPassReachesAll
<1>1. ASSUME RefreshInv, [RefreshNext]_refreshVars
      PROVE  [phase = "refreshing" /\ phase' = "serving" /\ spent <= Slack =>
                \A s \in Good : list[s] # {} /\ age[s] \in 0..MaxAge]_refreshVars
  <2>1. SUFFICES ASSUME phase = "refreshing", phase' = "serving", spent <= Slack
                 PROVE  \A s \in Good : Fresh(s)
    BY DEF Fresh
  <2>2. EndPass
    BY <1>1, <2>1 DEF RefreshNext, Pass, StartPass, Day, Stop, Refresh, refreshVars
  <2>3. todo = {}
    <3>1. SUFFICES ASSUME todo # {}, left = 0 PROVE FALSE
      BY <2>2 DEF EndPass
    <3>2. /\ FetchLimit * (Cardinality(todo) - 1) + QuickFetch + Slack <= 0 + spent
          /\ todo \subseteq Sets /\ spent \in Nat
      BY <1>1, <2>1, <3>1 DEF RefreshInv, TimeIsEnough, PassOK
    <3>3. Cardinality(todo) \in Nat \ {0}
      BY <3>1, <3>2, SubsetsOfSets, FS_EmptySet
    <3>4. FetchLimit * 0 <= FetchLimit * (Cardinality(todo) - 1)
      BY <3>3, FewerTakeLess
    <3>5. FetchLimit * (Cardinality(todo) - 1) \in Int
      BY <3>3, Limits
    <3> QED
      BY <2>1, <3>2, <3>4, <3>5, Limits
  <2> QED
    BY <1>1, <2>1, <2>3 DEF RefreshInv, DueIsTodo
<1> QED
  BY <1>1, AlwaysRefreshInv, PTL DEF RefreshSpec, DailyPassReachesAll

\* The variables keep their types at every step, those of a crash and a failure included.
THEOREM RefreshTypeCorrect == RefreshSpec => []RefreshTypeOK
<1>1. RefreshInv => RefreshTypeOK
  BY Limits DEF RefreshInv, RefreshTypeOK, RowsOK, PassOK
<1> QED
  BY <1>1, AlwaysRefreshInv, PTL
=============================================================================
