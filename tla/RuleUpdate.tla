----------------------------- MODULE RuleUpdate -----------------------------
(***************************************************************************)
(* Where the rules of CNLearning come from: deploy/update-rules.sh fetches *)
(* a list every day, chinamax-build (cmd/chinamax-build/main.go) makes the *)
(* compact file of it and of the operator's local files, the script        *)
(* installs both and restarts dqueryd, which loads the compact file        *)
(* (chinarules.Load) or exits, to be started again by systemd.             *)
(*                                                                         *)
(* Any command of a script may fail, and a script may be killed, between   *)
(* any two steps.  install(1) removes the old file and then writes the new *)
(* one, so each install is two steps.  The local files do not change.      *)
(***************************************************************************)
EXTENDS CNLearning

CONSTANTS
    Scripts,        \* runs of the script that may be at work at the same time
    Daily,          \* the one the timer starts
    Downloads,      \* what curl may bring: lists of lines, as sets
    LocalFiles,     \* what the operator's two files may hold
    MaxFailures     \* bound on failing commands and kills

ASSUME ScriptsAssumption == Daily \in Scripts /\ None \notin Scripts
ASSUME FailuresAssumption == MaxFailures \in Nat

VARIABLES
    local,      \* local-include.txt and local-exclude.txt
    sourceFile, \* $SRC_DIR/$SRC_FILE, or Cut
    listFile,   \* $OUT_FILE, or Cut
    step,       \* per script, the command it is at
    srcTmp,     \* per script, its temporary files
    outTmp,
    lock,       \* the script that holds the flock, or None
    cutOff,     \* history: the last script that touched the files did not install both
    failures,
    up          \* dqueryd has loaded its rules and serves

files == <<local, sourceFile, listFile, srcTmp, outTmp>>
updateVars == <<files, step, lock, cutOff, failures>>
allVars == <<vars, updateVars, up>>

\* A file, and one of which install has not written everything: absent, empty or a part.
Whole(lines) == [whole |-> TRUE, lines |-> lines]
Cut == [whole |-> FALSE, lines |-> {}]

\* A line says what kind of rule it is, which name, keyword or network it means and how
\* it writes it: "odd" has capitals, blanks or outer dots, "junk" is no network.
\* A line with a value and no kind is "bare".
Kinds == {"exact", "suffix", "keyword", "cidr"}
Lines == [kind : Kinds \union {"bare"}, name : Seq(STRING), style : {"plain", "odd", "junk"}]

ASSUME DownloadsAssumption == Downloads \subseteq SUBSET Lines
ASSUME LocalAssumption == \A f \in LocalFiles : f.include \subseteq Lines /\ f.exclude \subseteq Lines

-----------------------------------------------------------------------------
(* chinamax-build *)

\* normalizeDomain for names, lower case for keywords; a network is kept as written.
Normalized(l) == IF l.kind = "cidr" THEN l ELSE [l EXCEPT !.style = "plain"]

\* Variant: the names of the source as it writes them.
ConsumeAsWritten(l) == IF l.kind \in Kinds THEN {l} ELSE {}

\* A bare line of the source is skipped.
consume(l) == IF l.kind \in Kinds THEN {Normalized(l)} ELSE {}

\* A bare line of a local file is a suffix.
LocalRule(l) == Normalized(IF l.kind = "bare" THEN [l EXCEPT !.kind = "suffix"] ELSE l)

\* The compact file: the source and the included lines without the excluded ones; no
\* empty value gets through put and sortedKeys.
Build(source, include, exclude) ==
    LET taken == (UNION {consume(l) : l \in source}) \union {LocalRule(l) : l \in include}
    IN  {l \in taken \ {LocalRule(x) : x \in exclude} : l.name # <<>>}

\* chinarules.Load: a network that does not parse is left out.
Load(list) ==
    LET Of(kind) == {l.name : l \in {x \in list : x.kind = kind /\ (kind = "cidr" => x.style # "junk")}}
    IN  [exacts |-> Of("exact"), suffixes |-> Of("suffix"), keywords |-> Of("keyword"), nets |-> Of("cidr")]

NoRules == Load({})

-----------------------------------------------------------------------------
(* update-rules.sh *)

UpdateInit ==
    /\ local \in LocalFiles
    /\ sourceFile \in {Whole(d) : d \in Downloads}
    /\ listFile = Whole(Build(sourceFile.lines, local.include, local.exclude))
    /\ rules = Load(listFile.lines)
    /\ up = TRUE
    /\ step = [s \in Scripts |-> "idle"]
    /\ srcTmp = [s \in Scripts |-> {}]
    /\ outTmp = [s \in Scripts |-> {}]
    /\ lock = None
    /\ cutOff = FALSE
    /\ failures = 0

At(s, here, next) == step[s] = here /\ step' = [step EXCEPT ![s] = next]

\* exit: the trap removes the temporary files, the lock goes with the process.
Exit(s) ==
    /\ step' = [step EXCEPT ![s] = "idle"]
    /\ srcTmp' = [srcTmp EXCEPT ![s] = {}]
    /\ outTmp' = [outTmp EXCEPT ![s] = {}]
    /\ lock' = IF lock = s THEN None ELSE lock

\* Variant: without flock.
StartUnlocked(s) ==
    /\ At(s, "idle", "curl")
    /\ UNCHANGED <<vars, files, lock, cutOff, failures, up>>

\* flock -n 9: a second script ends at once.
Start(s) ==
    /\ lock = None
    /\ At(s, "idle", "curl")
    /\ lock' = s
    /\ UNCHANGED <<vars, files, cutOff, failures, up>>

Curl(s) ==
    /\ At(s, "curl", "build")
    /\ \E d \in Downloads : srcTmp' = [srcTmp EXCEPT ![s] = d]
    /\ UNCHANGED <<vars, local, sourceFile, listFile, outTmp, lock, cutOff, failures, up>>

ChinamaxBuild(s) ==
    /\ At(s, "build", "source")
    /\ outTmp' = [outTmp EXCEPT ![s] = Build(srcTmp[s], local.include, local.exclude)]
    /\ UNCHANGED <<vars, local, sourceFile, listFile, srcTmp, lock, cutOff, failures, up>>

InstallSource(s) ==
    /\ \/ At(s, "source", "sourceCopy") /\ sourceFile' = Cut /\ cutOff' = TRUE
       \/ At(s, "sourceCopy", "list") /\ sourceFile' = Whole(srcTmp[s]) /\ UNCHANGED cutOff
    /\ UNCHANGED <<vars, local, listFile, srcTmp, outTmp, lock, failures, up>>

InstallList(s) ==
    /\ \/ At(s, "list", "listCopy") /\ listFile' = Cut /\ UNCHANGED cutOff
       \/ At(s, "listCopy", "restart") /\ listFile' = Whole(outTmp[s]) /\ cutOff' = FALSE
    /\ UNCHANGED <<vars, local, sourceFile, srcTmp, outTmp, lock, failures, up>>

\* Variant: the restart is forgotten.
LeaveRunning(s) ==
    /\ step[s] = "restart"
    /\ Exit(s)
    /\ UNCHANGED <<vars, local, sourceFile, listFile, cutOff, failures, up>>

\* systemctl restart dqueryd: it is stopped, and systemd has started a new process when
\* the command returns; that one has not loaded anything yet.
RestartService(s) ==
    /\ step[s] = "restart"
    /\ Exit(s)
    /\ Restart(NoRules)
    /\ up' = FALSE
    /\ UNCHANGED <<local, sourceFile, listFile, cutOff, failures>>

\* A command fails (set -e), the source does not parse, or the script is killed.
Fail(s) ==
    /\ step[s] # "idle"
    /\ failures < MaxFailures
    /\ failures' = failures + 1
    /\ Exit(s)
    /\ UNCHANGED <<vars, local, sourceFile, listFile, cutOff, up>>

ScriptStep(s) ==
    Curl(s) \/ ChinamaxBuild(s) \/ InstallSource(s) \/ InstallList(s) \/ RestartService(s)

-----------------------------------------------------------------------------
(* dqueryd *)

\* The process dies, of itself or with the machine.
Crash ==
    /\ up
    /\ up' = FALSE
    /\ Restart(NoRules)
    /\ UNCHANGED updateVars

\* main loads the rules; without a whole compact file log.Fatalf ends it, which changes
\* nothing, and systemd tries again two seconds later.
LoadRules ==
    /\ ~up
    /\ listFile.whole
    /\ up' = TRUE
    /\ Restart(Load(listFile.lines))
    /\ UNCHANGED updateVars

\* The actions of CNLearning but its Restart.
Serve ==
    /\ up
    /\ \/ Tick
       \/ \E r \in Reqs : \/ Arrive(r) \/ Check(r) \/ Forget(r)
                          \/ EndWithoutAnswer(r) \/ EndWithAnswer(r) \/ Learn(r)
    /\ UNCHANGED <<updateVars, up>>

UpdateNext ==
    \/ Crash
    \/ LoadRules
    \/ Serve
    \/ \E s \in Scripts : Start(s) \/ ScriptStep(s) \/ Fail(s)

\* The timer starts its script, and a script that nothing stops goes on.  systemd tries to
\* start dqueryd for ever, and an install is over in an instant: a try meets a whole file.
UpdateFairness ==
    /\ SF_allVars(LoadRules)
    /\ WF_allVars(Start(Daily))
    /\ \A s \in Scripts : WF_allVars(ScriptStep(s))

UpdateSpec == UpdateInit /\ Init /\ [][UpdateNext]_allVars

-----------------------------------------------------------------------------
(* Properties *)

\* What the lines of a file mean, by kind.
Meant(lines, kind) == {l.name : l \in {x \in lines : x.kind = kind}} \ {<<>>}

MeantLocally(lines, kind) ==
    Meant(lines, kind) \union IF kind = "suffix" THEN Meant(lines, "bare") ELSE {}

\* The rules a serving process uses are those of one whole download with the operator's
\* additions and without what the operator excluded, whichever way the three write a
\* name: builder and Load normalise alike (consume, put, normalizeDomain, Load, and the
\* installs of the script).  Only networks have to be excluded letter by letter.
RulesAsWritten ==
    up => \E d \in Downloads :
        LET Wanted(kind) == (Meant(d, kind) \union MeantLocally(local.include, kind))
                                \ MeantLocally(local.exclude, kind)
        IN  /\ rules.exacts = Wanted("exact")
            /\ rules.suffixes = Wanted("suffix")
            /\ rules.keywords = Wanted("keyword")
            /\ rules.nets \ Wanted("cidr") \subseteq
                   {l.name : l \in {x \in (d \union local.include) \ local.exclude : x.kind = "cidr"}}

\* The installed source is the one the installed list was built from, unless the last
\* script that wrote them was stopped between its two installs or still is between them.
FilesAgree ==
    ~cutOff => /\ sourceFile.whole
               /\ listFile = Whole(Build(sourceFile.lines, local.include, local.exclude))

\* Whatever scripts fail and processes die, time and again the service serves by the list
\* that is installed: a list that was cut off is mended by a later update, and an update
\* reaches the running process.
ListsTakeEffect == []<>(up /\ listFile.whole /\ rules = Load(listFile.lines))
=============================================================================
