------------------------------- MODULE Config -------------------------------
(***************************************************************************)
(* What the rest of the service may assume of its settings:                *)
(* internal/config/config.go.  A configuration has numeric sections, each a *)
(* function from fields to numbers in which a field that the file leaves   *)
(* out is 0, the two routes and the upstreams by name.                     *)
(***************************************************************************)
EXTENDS Integers

CONSTANTS
    Defaults   \* per numeric section, the fields with a default and that default

ASSUME DefaultsAssumption ==
    \A s \in DOMAIN Defaults : \A f \in DOMAIN Defaults[s] : Defaults[s][f] \in Int \ {0}

\* Variant: a number below zero counts as left out.
WithDefaultsAbove(section, default) ==
    [f \in DOMAIN section |->
        IF f \in DOMAIN default /\ section[f] <= 0 THEN default[f] ELSE section[f]]

\* Only the zero value is replaced: a negative number stays.
WithDefaults(section, default) ==
    [f \in DOMAIN section |->
        IF f \in DOMAIN default /\ section[f] = 0 THEN default[f] ELSE section[f]]

applyDefaults(raw) ==
    [raw EXCEPT !.sections = [s \in DOMAIN @ |->
        IF s \in DOMAIN Defaults THEN WithDefaults(@[s], Defaults[s]) ELSE @[s]]]

\* Variant: the fallback is not looked up.
ValidatePrimary(c) == \A name \in DOMAIN c.routing : c.routing[name].primary \in DOMAIN c.upstreams

Validate(c) ==
    /\ \A name \in DOMAIN c.routing :
        /\ c.routing[name].primary \in DOMAIN c.upstreams
        /\ c.routing[name].fallback \in DOMAIN c.upstreams \union {""}
        /\ c.routing[name].ecsSource \in {"", "none", "visitor", "client"}
    /\ \A u \in DOMAIN c.upstreams : c.upstreams[u].type \in {"", "doh_wire"}

\* Load: the configurations the service can run with, of those its file may hold.
Loaded(files) == {applyDefaults(raw) : raw \in {f \in files : Validate(applyDefaults(f))}}
=============================================================================
