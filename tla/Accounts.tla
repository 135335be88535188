------------------------------ MODULE Accounts ------------------------------
(***************************************************************************)
(* Accounts of dqueryd (internal/server/server.go): setup, login,          *)
(* sessions, profiles and what belongs to a profile (rules, tokens, rule   *)
(* sets), as concurrent requests over the SQLite store.  Each SQL          *)
(* statement or transaction is a step; ensureDefaultProfile holds s.mu     *)
(* around two of them.  The process may die between any two steps.         *)
(*                                                                         *)
(* Left out: refused requests that change nothing (bad JSON, methods, a    *)
(* short password), requests that only list, last_seen_at, and SQL         *)
(* statements that fail.                                                   *)
(***************************************************************************)
EXTENDS Integers, FiniteSets

CONSTANTS
    Requests,   \* requests, each of which is made at most once
    Emails,     \* the addresses users give; an account is known by its own
    TTL,        \* how long a session lasts: 168 h
    MaxClock,   \* bound of the clock
    Tables,     \* the tables of what belongs to a profile
    RuleSets,   \* the one of them whose rows can be deleted, dns_rule_sets
    None

ASSUME AccountsAssumption ==
    /\ TTL \in Nat \ {0} /\ MaxClock \in Nat
    /\ None \notin Requests \union Emails
    /\ RuleSets \in Tables

VARIABLES
    clock,
    pc,         \* per request: what it does next; "new", ..., "done"
    kind,       \* per request: "setup", "login", "logout", or what it asks of the API
    user,       \* per request: the account it acts for
    reply,      \* per request: the status it was answered with, or None
    target,     \* per request: the profile in its path, once that is its user's
    shown,      \* per request: the profile it was shown as the default resolver, or None
    mu,         \* accountStore.mu: the request that holds it, or None
    users,      \* dquery_users: accounts by their addresses, which are UNIQUE
    passwords,  \* local_passwords: the accounts that have one
    profiles,   \* dns_profiles: rows [owner, by, default, at], at for created_at
    sessions,   \* account_sessions: rows [cookie, owner, expires]
    resources   \* Tables: rows [table, id, profile, owner]

req  == <<pc, kind, user, reply, target, shown>>
db   == <<users, passwords, profiles, sessions, resources>>
vars == <<clock, req, mu, db>>

Profile == [owner : Emails, by : Requests, default : BOOLEAN, at : Nat]
Session == [cookie : Requests, owner : Emails, expires : Nat]
Resource == [table : Tables, id : Requests, profile : Profile, owner : Emails]

ProfilesOf(u) == {p \in profiles : p.owner = u}

\* Variant: ORDER BY created_at DESC, as listTokens has it.
NewestOf(u) == {p \in ProfilesOf(u) : \A q \in ProfilesOf(u) : q.at <= p.at}

\* listProfiles: ORDER BY created_at, a time in seconds; any of those of the first one.
OldestOf(u) == {p \in ProfilesOf(u) : \A q \in ProfilesOf(u) : p.at <= q.at}

Init ==
    /\ clock = 0
    /\ pc = [r \in Requests |-> "new"]
    /\ kind = [r \in Requests |-> None]
    /\ user = [r \in Requests |-> None]
    /\ reply = [r \in Requests |-> None]
    /\ target = [r \in Requests |-> None]
    /\ shown = [r \in Requests |-> None]
    /\ mu = None
    /\ users = {} /\ passwords = {} /\ profiles = {} /\ sessions = {}
    /\ resources = {}

Goto(r, place) == pc' = [pc EXCEPT ![r] = place]

Answer(r, status) == Goto(r, "done") /\ reply' = [reply EXCEPT ![r] = status]

-----------------------------------------------------------------------------
localUserCount == Cardinality(users)

\* handleSetupInit up to createLocalUser: the store is asked for users first.
SetupInit(r, email) ==
    /\ pc[r] = "new"
    /\ kind' = [kind EXCEPT ![r] = "setup"]
    /\ user' = [user EXCEPT ![r] = email]
    /\ IF localUserCount > 0 THEN Answer(r, 409) ELSE Goto(r, "create_user") /\ UNCHANGED reply
    /\ UNCHANGED <<clock, target, shown, mu, db>>

\* Variant: user and password are stored by themselves, and the password may be lost.
CreateUserWithoutPassword(r) ==
    /\ pc[r] = "create_user"
    /\ IF user[r] \in users
       THEN Answer(r, 400) /\ UNCHANGED users
       ELSE Goto(r, "ensure_profile") /\ users' = users \union {user[r]} /\ UNCHANGED reply
    /\ UNCHANGED <<clock, kind, user, target, shown, mu, passwords, profiles, sessions, resources>>

\* createLocalUser: one transaction for both tables, refused when the address is taken.
CreateUser(r) ==
    /\ pc[r] = "create_user"
    /\ IF user[r] \in users
       THEN Answer(r, 400) /\ UNCHANGED <<users, passwords>>
       ELSE /\ Goto(r, "ensure_profile")
            /\ users' = users \union {user[r]}
            /\ passwords' = passwords \union {user[r]}
            /\ UNCHANGED reply
    /\ UNCHANGED <<clock, kind, user, target, shown, mu, profiles, sessions, resources>>

\* authenticateLocalUser, for the right password: the JOIN needs a row in both tables.
authenticateLocalUser(email) == email \in users \intersect passwords

\* handleAccountLogin up to ensureDefaultProfile.
Login(r, email) ==
    /\ pc[r] = "new"
    /\ kind' = [kind EXCEPT ![r] = "login"]
    /\ user' = [user EXCEPT ![r] = email]
    /\ IF authenticateLocalUser(email)
       THEN Goto(r, "ensure_profile") /\ UNCHANGED reply
       ELSE Answer(r, 401)
    /\ UNCHANGED <<clock, target, shown, mu, db>>

\* readSession: a session counts until its expiry has passed.
Live(s) == clock <= s.expires

\* GET /session, POST /profiles, POST below a profile, DELETE of a rule set below it
APIKinds == {"session", "create", "add", "remove"}

\* handleAccountAPI up to ensureDefaultProfile.
Authenticate(r, cookie, k) ==
    /\ pc[r] = "new"
    /\ kind' = [kind EXCEPT ![r] = k]
    /\ \/ \E s \in sessions :
          /\ s.cookie = cookie /\ Live(s)
          /\ user' = [user EXCEPT ![r] = s.owner]
          /\ Goto(r, "ensure_profile")
          /\ UNCHANGED reply
       \/ /\ \A s \in sessions : s.cookie = cookie => ~Live(s)
          /\ Answer(r, 401)
          /\ UNCHANGED user
    /\ UNCHANGED <<clock, target, shown, mu, db>>

\* clearSession
Logout(r, cookie) ==
    /\ pc[r] = "new"
    /\ kind' = [kind EXCEPT ![r] = "logout"]
    /\ sessions' = {s \in sessions : s.cookie # cookie}
    /\ Answer(r, 200)
    /\ UNCHANGED <<clock, user, target, shown, mu, users, passwords, profiles, resources>>

-----------------------------------------------------------------------------
\* What follows ensureDefaultProfile in the handler of each kind.
AfterEnsure(r) ==
    CASE kind[r] \in {"setup", "login"} -> "create_session"
      [] kind[r] = "create" -> "insert_profile"
      [] kind[r] \in {"add", "remove"} -> "find_profile"
      [] OTHER -> "session"

\* Variant: no lock around the count and the insert.
LockNothing(r) ==
    /\ pc[r] = "ensure_profile"
    /\ Goto(r, "count_profiles")
    /\ UNCHANGED <<clock, kind, user, reply, target, shown, mu, db>>

\* ensureDefaultProfile
Lock(r) ==
    /\ pc[r] = "ensure_profile"
    /\ mu = None
    /\ mu' = r
    /\ Goto(r, "count_profiles")
    /\ UNCHANGED <<clock, kind, user, reply, target, shown, db>>

\* Variant: the early return does not unlock.
CountProfilesKeepLock(r) ==
    /\ pc[r] = "count_profiles"
    /\ Goto(r, IF ProfilesOf(user[r]) = {} THEN "insert_default" ELSE AfterEnsure(r))
    /\ UNCHANGED <<clock, kind, user, reply, target, shown, mu, db>>

\* Variant: the profiles of all users are counted.
CountAllProfiles(r) ==
    /\ pc[r] = "count_profiles"
    /\ IF profiles = {}
       THEN Goto(r, "insert_default") /\ UNCHANGED mu
       ELSE Goto(r, AfterEnsure(r)) /\ mu' = None
    /\ UNCHANGED <<clock, kind, user, reply, target, shown, db>>

CountProfiles(r) ==
    /\ pc[r] = "count_profiles"
    /\ IF ProfilesOf(user[r]) = {}
       THEN Goto(r, "insert_default") /\ UNCHANGED mu
       ELSE Goto(r, AfterEnsure(r)) /\ mu' = None
    /\ UNCHANGED <<clock, kind, user, reply, target, shown, db>>

InsertDefault(r) ==
    /\ pc[r] = "insert_default"
    /\ profiles' = profiles \union {[owner |-> user[r], by |-> r, default |-> TRUE,
                                        at |-> clock]}
    /\ mu' = None
    /\ Goto(r, AfterEnsure(r))
    /\ UNCHANGED <<clock, kind, user, reply, target, shown, users, passwords, sessions, resources>>

\* createSession; the cookie is fresh, and known by the request it was given to.
CreateSession(r) ==
    /\ pc[r] = "create_session"
    /\ sessions' = sessions \union {[cookie |-> r, owner |-> user[r], expires |-> clock + TTL]}
    /\ Answer(r, IF kind[r] = "setup" THEN 201 ELSE 200)
    /\ UNCHANGED <<clock, kind, user, target, shown, mu, users, passwords, profiles, resources>>

\* handleCreateProfile
InsertProfile(r) ==
    /\ pc[r] = "insert_profile"
    /\ profiles' = profiles \union {[owner |-> user[r], by |-> r, default |-> FALSE,
                                        at |-> clock]}
    /\ Answer(r, 201)
    /\ UNCHANGED <<clock, kind, user, target, shown, mu, users, passwords, sessions, resources>>

\* handleSession: default_resolver_uuid is the first profile of the list.
ShowSession(r) ==
    /\ pc[r] = "session"
    /\ IF OldestOf(user[r]) = {}
       THEN UNCHANGED shown
       ELSE \E p \in OldestOf(user[r]) : shown' = [shown EXCEPT ![r] = p]
    /\ Answer(r, 200)
    /\ UNCHANGED <<clock, kind, user, target, mu, db>>

-----------------------------------------------------------------------------
(* handleProfileSubresource *)

\* Variant: SELECT COUNT(1) FROM dns_profiles WHERE id = ?.
ProfileExists(u, p) == p \in profiles

userOwnsProfile(u, p) == p \in profiles /\ p.owner = u

\* The path names any profile.
FindProfile(r) ==
    /\ pc[r] = "find_profile"
    /\ \E p \in profiles :
        IF userOwnsProfile(user[r], p)
        THEN /\ target' = [target EXCEPT ![r] = p]
             /\ Goto(r, IF kind[r] = "add" THEN "insert_row" ELSE "delete_row")
             /\ UNCHANGED reply
        ELSE Answer(r, 404) /\ UNCHANGED target
    /\ UNCHANGED <<clock, kind, user, shown, mu, db>>

\* handleCreateRule, handleCreateToken, handleCreateRuleSet: a row with a new id.
InsertRow(r) ==
    /\ pc[r] = "insert_row"
    /\ \E table \in Tables :
        resources' = resources \union
            {[table |-> table, id |-> r, profile |-> target[r], owner |-> user[r]]}
    /\ Answer(r, 201)
    /\ UNCHANGED <<clock, kind, user, target, shown, mu, users, passwords, profiles, sessions>>

\* deleteRuleSet: DELETE ... WHERE owner_user_id = ? AND profile_id = ? AND id = ?
DeleteRow(r) ==
    /\ pc[r] = "delete_row"
    /\ \E id \in Requests :
        resources' = {x \in resources :
            ~(x.table = RuleSets /\ x.owner = user[r] /\ x.profile = target[r] /\ x.id = id)}
    /\ Answer(r, 200)
    /\ UNCHANGED <<clock, kind, user, target, shown, mu, users, passwords, profiles, sessions>>

\* The process dies, with its requests and its lock; the store stays.
Restart ==
    /\ \E r \in Requests : pc[r] \notin {"new", "done"}
    /\ pc' = [r \in Requests |-> IF pc[r] = "new" THEN "new" ELSE "done"]
    /\ mu' = None
    /\ UNCHANGED <<clock, kind, user, reply, target, shown, db>>

Tick ==
    /\ clock < MaxClock
    /\ clock' = clock + 1
    /\ UNCHANGED <<req, mu, db>>

\* A request has arrived and goes on.
Step(r) ==
    \/ CreateUser(r) \/ Lock(r) \/ CountProfiles(r) \/ InsertDefault(r)
    \/ CreateSession(r) \/ InsertProfile(r) \/ ShowSession(r)
    \/ FindProfile(r) \/ InsertRow(r) \/ DeleteRow(r)

Arrive(r) ==
    \/ \E email \in Emails : SetupInit(r, email) \/ Login(r, email)
    \/ \E cookie \in Requests :
        \/ \E k \in APIKinds : Authenticate(r, cookie, k)
        \/ Logout(r, cookie)

Next == Tick \/ Restart \/ \E r \in Requests : Arrive(r) \/ Step(r)

Spec == Init /\ [][Next]_vars

\* Goroutines run, and s.mu goes to every goroutine that waits for it.
FairSpec == Spec /\ \A r \in Requests : WF_vars(Step(r)) /\ SF_vars(Lock(r))

-----------------------------------------------------------------------------
Locked == {"count_profiles", "insert_default"}

TypeOK ==
    /\ clock \in 0..MaxClock
    /\ pc \in [Requests -> {"new", "create_user", "ensure_profile", "create_session",
                            "insert_profile", "session", "find_profile", "insert_row",
                            "delete_row", "done"} \union Locked]
    /\ DOMAIN kind = Requests /\ user \in [Requests -> Emails \union {None}]
    /\ \A r \in Requests : pc[r] \notin {"new", "done"} => user[r] \in Emails
    /\ \A r \in Requests : pc[r] \in Locked <=> mu = r
    /\ users \subseteq Emails /\ passwords \subseteq users
    /\ profiles \subseteq Profile /\ sessions \subseteq Session
    /\ resources \subseteq Resource
    /\ target \in [Requests -> Profile \union {None}]
    /\ shown \in [Requests -> Profile \union {None}]

\* A user gets one default profile, however many logins and API requests arrive at
\* once, at the first login and after a crash alike.
OneDefaultProfile ==
    \A p, q \in profiles : p.default /\ q.default /\ p.owner = q.owner => p = q

\* The console shows a user the profile that ensureDefaultProfile made as the default
\* resolver, whatever else was created before and after; only one that was created in the
\* same second may stand in its place.
DefaultIsShown ==
    \A r \in Requests : shown[r] # None =>
        /\ shown[r].owner = user[r]
        /\ \E p \in ProfilesOf(user[r]) : p.default /\ p.at = shown[r].at

\* What belongs to a profile belongs to the owner of that profile: a request below
\* /profiles/ never adds to somebody else's, though the check and the INSERT are two steps.
RowsHaveOneOwner == \A x \in resources : x.profile \in ProfilesOf(x.owner)

\* Whoever holds a session has a profile, so the console always has a resolver to show;
\* a crash between the steps of a setup or a login leaves no session without one.
SessionHasProfile == \A s \in sessions : ProfilesOf(s.owner) # {}

\* Setup answers "already initialized" for good once there is a user: a user must then
\* be able to log in, also when the process died in the middle of the setup.
NoLockOut == users # {} => \E u \in users : u \in passwords

\* Every request that has arrived is answered, or ends with the process.
EveryRequestEnds == \A r \in Requests : pc[r] # "new" ~> pc[r] = "done"

\* docs/DQUERY_ACCOUNT_SSO_PLAN.md: setup/init is "allowed only when no local users
\* exist" and "creates the first local system_admin".
SetupOnlyWhenEmpty == [][\A r \in Requests : CreateUser(r) /\ users' # users => users = {}]_vars
=============================================================================
