---------------------------- MODULE MCCNLearning ----------------------------
(* Two families of behaviours of RuleUpdate in one run.                        *)
(* Still: the rules stay; two requests ask for a name without a rule, or one   *)
(* of them for a name below a suffix rule or the root, while names are learned *)
(* and forgotten; without a cap on the ttl, not for the name below the rule.   *)
(* Moving: two scripts, downloads and local files that add, exclude and write  *)
(* names differently, crashes, and a request that picks its route.             *)
EXTENDS RuleUpdate

CONSTANTS r1, r2

\* One second, or no cap at all.
MCCaps == {-1, 1}

MCNames == {<<"a", "x">>, <<"b", "cn">>, <<>>}
MCHits  == {<<<<"a", "x">>, <<"a">>>>}

L(k, n, how) == [kind |-> k, name |-> n, style |-> how]

\* A first list, one a day later, and a page that says nothing.
MCDownloads == {
    {L("suffix", <<"cn">>, "plain"), L("bare", <<"x">>, "plain"), L("keyword", <<"k">>, "odd")},
    {L("suffix", <<"cn">>, "odd"), L("exact", <<"a", "x">>, "plain"), L("exact", <<>>, "plain")},
    {}}

Still == [include |-> {L("cidr", <<"net">>, "plain"), L("cidr", <<"not">>, "junk")}, exclude |-> {}]

MCLocalFiles == {
    Still,
    [include |-> {L("keyword", <<"a">>, "odd"), L("bare", <<"x">>, "odd"), L("cidr", <<"net">>, "odd")},
     exclude |-> {L("suffix", <<"cn">>, "plain"), L("cidr", <<"net">>, "plain")}],
    [include |-> {L("suffix", <<"x">>, "plain")}, exclude |-> {L("bare", <<"x">>, "odd")}]}

MCInit ==
    /\ UpdateInit
    /\ Init
    /\ IF local = Still THEN L("bare", <<"x">>, "plain") \in sourceFile.lines ELSE ~learning.enabled
    /\ learning.enabled \/ learning.cap > 0

MCNext ==
    /\ UpdateNext
    /\ learning.cap < 0 => \A r \in Reqs : name'[r] # <<"b", "cn">>
    /\ pc'[r2] # "idle" => name'[r2] = <<"a", "x">>
    /\ IF local = Still THEN UNCHANGED updateVars
       ELSE clock' = clock /\ evidence' = evidence /\ pc'[r2] = "idle"

\* Start(Daily) is enabled for ever in the first family: liveness is judged in the second.
MCSpec == MCInit /\ [][MCNext]_allVars /\ UpdateFairness
=============================================================================
