--------------------------- MODULE AccountsProofs ---------------------------
(* Theorems about Accounts, for any number of requests and users.               *)
EXTENDS Accounts, TLAPS

\* s.mu protects what CountProfiles has seen until InsertDefault uses it: another
\* request may add a profile in between, but none adds a default one.
Counted ==
    \A r \in Requests : pc[r] = "insert_default" =>
        \A p \in profiles : p.owner = user[r] => ~p.default

\* Past ensureDefaultProfile a request acts for a user that has a profile.
Ensured ==
    \A r \in Requests : pc[r] \in {"create_session", "insert_profile"} =>
        ProfilesOf(user[r]) # {}

\* What userOwnsProfile has found stays so until InsertRow and DeleteRow use it.
Targeted ==
    \A r \in Requests : pc[r] \in {"insert_row", "delete_row"} => target[r] \in ProfilesOf(user[r])

\* No profile of a user is older than a default one.
DefaultFirst ==
    \A p \in profiles : p.at <= clock /\ \E q \in ProfilesOf(p.owner) : q.default /\ q.at <= p.at

ShownWhenDone == \A r \in Requests : shown[r] # None => pc[r] = "done"

Rows == Targeted /\ RowsHaveOneOwner /\ ShownWhenDone /\ DefaultIsShown

AccountsInv ==
    /\ TypeOK /\ Counted /\ OneDefaultProfile /\ Ensured /\ SessionHasProfile /\ users = passwords
    /\ DefaultFirst /\ Rows

-----------------------------------------------------------------------------
LEMMA InitAccountsInv == Init => AccountsInv
  BY AccountsAssumption
  DEF Init, AccountsInv, TypeOK, Locked, Counted, OneDefaultProfile, Ensured, SessionHasProfile,
      DefaultFirst, Rows, Targeted, RowsHaveOneOwner, ShownWhenDone, DefaultIsShown

\* Profiles are never deleted and a request keeps its user, so that what rests on a profile
\* keeps resting on it.
LEMMA RowsKept ==
    ASSUME TypeOK, Rows, NEW r \in Requests, pc' = [pc EXCEPT ![r] = pc'[r]],
           pc'[r] \notin {"insert_row", "delete_row"}, pc[r] # "done",
           profiles \subseteq profiles', resources' \subseteq resources,
           UNCHANGED <<target, shown>>,
           pc[r] # "new" => user'[r] = user[r],
           \A q \in Requests : q # r => user'[q] = user[q]
    PROVE  Rows'
<1>1. Targeted'
  <2>1. ASSUME NEW q \in Requests, pc'[q] \in {"insert_row", "delete_row"}
        PROVE  target'[q] \in ProfilesOf(user[q])'
    <3>1. q # r /\ pc[q] = pc'[q] /\ user'[q] = user[q]
      BY <2>1 DEF TypeOK
    <3> QED
      BY <3>1, <2>1 DEF Rows, Targeted, ProfilesOf
  <2> QED
    BY <2>1 DEF Targeted, ProfilesOf
<1>2. RowsHaveOneOwner'
  BY DEF Rows, RowsHaveOneOwner, ProfilesOf
<1>3. shown[r] = None
  BY DEF Rows, ShownWhenDone
<1>4. ShownWhenDone'
  BY <1>3 DEF TypeOK, Rows, ShownWhenDone
<1>5. DefaultIsShown'
  BY <1>3 DEF Rows, DefaultIsShown, ProfilesOf
<1> QED
  BY <1>1, <1>2, <1>4, <1>5 DEF Rows

\* A step of r that moves r to place, with the store and the lock unchanged, keeps the
\* invariant when r is entitled to that place.
LEMMA MoveKeepsInv ==
    ASSUME AccountsInv, NEW r \in Requests, NEW place, Goto(r, place),
           place \in {"create_user", "ensure_profile", "done"},
           pc[r] = "new",
           UNCHANGED <<clock, target, shown, mu, db>>,
           DOMAIN kind' = Requests, user' \in [Requests -> Emails \union {None}],
           place # "done" => user'[r] \in Emails,
           \A q \in Requests : q # r => user'[q] = user[q]
    PROVE  AccountsInv'
<1>1. /\ pc'[r] = place /\ \A q \in Requests : q # r => pc'[q] = pc[q]
      /\ pc' = [pc EXCEPT ![r] = place] /\ pc[r] \notin Locked
  BY DEF Goto, AccountsInv, TypeOK, Locked
<1>2. TypeOK'
  BY <1>1 DEF AccountsInv, TypeOK, Locked, db
<1>3. Counted' /\ Ensured'
  BY <1>1 DEF AccountsInv, Counted, Ensured, ProfilesOf, db
<1>4. OneDefaultProfile' /\ SessionHasProfile' /\ users' = passwords'
  BY DEF AccountsInv, OneDefaultProfile, SessionHasProfile, ProfilesOf, db
<1>5. DefaultFirst' /\ Rows'
  BY <1>1, RowsKept DEF AccountsInv, DefaultFirst, ProfilesOf, db
<1> QED
  BY <1>2, <1>3, <1>4, <1>5 DEF AccountsInv

LEMMA ArriveKeepsInv ==
    ASSUME AccountsInv, NEW r \in Requests, Arrive(r)
    PROVE  AccountsInv'
<1> USE DEF Answer
<1>0. pc[r] = "new" /\ pc[r] \notin Locked
  BY DEF Arrive, SetupInit, Login, Authenticate, Logout, Locked
<1>1. ASSUME NEW email \in Emails, SetupInit(r, email) PROVE AccountsInv'
  <2>1. /\ Goto(r, "done") \/ Goto(r, "create_user")
        /\ DOMAIN kind' = Requests /\ user' = [user EXCEPT ![r] = email]
        /\ UNCHANGED <<clock, target, shown, mu, db>>
    BY <1>1 DEF SetupInit, AccountsInv, TypeOK
  <2> QED
    BY <2>1, <1>0, MoveKeepsInv DEF AccountsInv, TypeOK
<1>2. ASSUME NEW email \in Emails, Login(r, email) PROVE AccountsInv'
  <2>1. /\ Goto(r, "done") \/ Goto(r, "ensure_profile")
        /\ DOMAIN kind' = Requests /\ user' = [user EXCEPT ![r] = email]
        /\ UNCHANGED <<clock, target, shown, mu, db>>
    BY <1>2 DEF Login, AccountsInv, TypeOK
  <2> QED
    BY <2>1, <1>0, MoveKeepsInv DEF AccountsInv, TypeOK
<1>3. ASSUME NEW cookie \in Requests, NEW k, Authenticate(r, cookie, k) PROVE AccountsInv'
  <2>1. DOMAIN kind' = Requests /\ UNCHANGED <<clock, target, shown, mu, db>>
    BY <1>3 DEF Authenticate, AccountsInv, TypeOK
  <2>2. CASE Goto(r, "done") /\ UNCHANGED user
    BY <2>1, <2>2, <1>0, MoveKeepsInv DEF AccountsInv, TypeOK
  <2>3. ASSUME NEW s \in sessions, user' = [user EXCEPT ![r] = s.owner], Goto(r, "ensure_profile")
        PROVE  AccountsInv'
    <3>1. s.owner \in Emails
      BY DEF AccountsInv, TypeOK, Session
    <3> QED
      BY <2>1, <2>3, <3>1, <1>0, MoveKeepsInv DEF AccountsInv, TypeOK
  <2> QED
    BY <1>3, <2>2, <2>3 DEF Authenticate
<1>4. ASSUME NEW cookie \in Requests, Logout(r, cookie) PROVE AccountsInv'
  <2>1. /\ pc' = [pc EXCEPT ![r] = "done"] /\ kind' = [kind EXCEPT ![r] = "logout"]
        /\ sessions' \subseteq sessions
        /\ UNCHANGED <<clock, user, target, shown, mu, users, passwords, profiles, resources>>
    BY <1>4 DEF Logout, Goto
  <2>2. TypeOK'
    BY <2>1, <1>0 DEF AccountsInv, TypeOK, Locked
  <2>3. Counted' /\ Ensured'
    BY <2>1 DEF AccountsInv, TypeOK, Counted, Ensured, ProfilesOf
  <2>4. OneDefaultProfile' /\ SessionHasProfile' /\ users' = passwords'
    BY <2>1 DEF AccountsInv, OneDefaultProfile, SessionHasProfile, ProfilesOf
  <2>5. DefaultFirst'
    BY <2>1 DEF AccountsInv, DefaultFirst, ProfilesOf
  <2>6. Rows'
    <3>1. /\ TypeOK /\ Rows /\ pc'[r] = "done" /\ pc' = [pc EXCEPT ![r] = pc'[r]]
          /\ profiles \subseteq profiles' /\ resources' \subseteq resources
      BY <2>1 DEF AccountsInv, TypeOK
    <3> QED
      BY <3>1, <2>1, <1>0, RowsKept
  <2> QED
    BY <2>2, <2>3, <2>4, <2>5, <2>6 DEF AccountsInv
<1> QED
  BY <1>1, <1>2, <1>3, <1>4 DEF Arrive

LEMMA StepKeepsInv ==
    ASSUME AccountsInv, NEW r \in Requests, Step(r)
    PROVE  AccountsInv'
<1> USE DEF Answer, Goto
<1>0. /\ TypeOK /\ Counted /\ OneDefaultProfile /\ Ensured /\ SessionHasProfile
      /\ users = passwords /\ DefaultFirst /\ Rows
      /\ pc \in [Requests -> {"new", "create_user", "ensure_profile", "create_session",
                              "insert_profile", "session", "find_profile", "insert_row",
                              "delete_row", "done"} \union Locked]
  BY DEF AccountsInv, TypeOK
<1>1. CASE CreateUser(r)
  <2>1. /\ pc[r] = "create_user" /\ UNCHANGED <<clock, kind, user, target, shown, mu, profiles, sessions, resources>>
        /\ \/ pc' = [pc EXCEPT ![r] = "done"] /\ UNCHANGED <<users, passwords>>
           \/ /\ pc' = [pc EXCEPT ![r] = "ensure_profile"]
              /\ users' = users \union {user[r]} /\ passwords' = passwords \union {user[r]}
    BY <1>1 DEF CreateUser
  <2>2. user[r] \in Emails
    BY <1>0, <2>1 DEF TypeOK
  <2>3. TypeOK' /\ users' = passwords'
    BY <1>0, <2>1, <2>2 DEF TypeOK, Locked
  <2>4. Counted' /\ Ensured' /\ OneDefaultProfile' /\ SessionHasProfile'
    BY <1>0, <2>1 DEF Counted, Ensured, OneDefaultProfile, SessionHasProfile, ProfilesOf
  <2>5. DefaultFirst' /\ Rows'
    BY <1>0, <2>1, RowsKept DEF DefaultFirst, ProfilesOf
  <2> QED
    BY <2>3, <2>4, <2>5 DEF AccountsInv
<1>2. CASE Lock(r)
  <2>1. /\ pc[r] = "ensure_profile" /\ mu = None /\ mu' = r
        /\ pc' = [pc EXCEPT ![r] = "count_profiles"]
        /\ UNCHANGED <<clock, kind, user, reply, target, shown, users, passwords, profiles, sessions, resources>>
    BY <1>2 DEF Lock, db
  <2>2. None \notin Requests
    BY AccountsAssumption
  <2>3. TypeOK'
    BY <1>0, <2>1, <2>2 DEF TypeOK, Locked
  <2>4. Counted' /\ Ensured' /\ OneDefaultProfile' /\ SessionHasProfile'
    BY <1>0, <2>1 DEF Counted, Ensured, OneDefaultProfile, SessionHasProfile, ProfilesOf
  <2>5. DefaultFirst' /\ Rows'
    BY <1>0, <2>1, RowsKept DEF DefaultFirst, ProfilesOf
  <2> QED
    BY <1>0, <2>1, <2>3, <2>4, <2>5 DEF AccountsInv
<1>3. CASE CountProfiles(r)
  <2>1. /\ pc[r] = "count_profiles" /\ mu = r
        /\ UNCHANGED <<clock, kind, user, reply, target, shown, users, passwords, profiles, sessions, resources>>
    BY <1>0, <1>3 DEF CountProfiles, db, TypeOK, Locked
  <2>2. AfterEnsure(r) \in {"create_session", "insert_profile", "find_profile", "session"}
    BY DEF AfterEnsure
  <2>3. CASE ProfilesOf(user[r]) = {} /\ pc' = [pc EXCEPT ![r] = "insert_default"] /\ mu' = mu
    <3>1. TypeOK'
      BY <1>0, <2>1, <2>3 DEF TypeOK, Locked
    <3>2. Counted' /\ Ensured' /\ OneDefaultProfile' /\ SessionHasProfile'
      BY <1>0, <2>1, <2>3 DEF Counted, Ensured, OneDefaultProfile, SessionHasProfile, ProfilesOf
    <3>3. DefaultFirst'
      BY <1>0, <2>1 DEF DefaultFirst, ProfilesOf
    <3>4. Rows'
      <4>1. /\ pc[r] # "done" /\ pc'[r] = "insert_default" /\ pc' = [pc EXCEPT ![r] = pc'[r]]
        BY <1>0, <2>1, <2>3
      <4> QED
        BY <1>0, <2>1, <4>1, RowsKept
    <3> QED
      BY <1>0, <2>1, <3>1, <3>2, <3>3, <3>4 DEF AccountsInv
  <2>4. CASE ProfilesOf(user[r]) # {} /\ pc' = [pc EXCEPT ![r] = AfterEnsure(r)] /\ mu' = None
    <3>1. TypeOK'
      BY <1>0, <2>1, <2>2, <2>4, AccountsAssumption DEF TypeOK, Locked
    <3>2. Counted' /\ Ensured' /\ OneDefaultProfile' /\ SessionHasProfile'
      BY <1>0, <2>1, <2>2, <2>4 DEF Counted, Ensured, OneDefaultProfile, SessionHasProfile, ProfilesOf
    <3>3. DefaultFirst' /\ Rows'
      BY <1>0, <2>1, <2>2, <2>4, RowsKept DEF DefaultFirst, ProfilesOf
    <3> QED
      BY <1>0, <2>1, <3>1, <3>2, <3>3 DEF AccountsInv
  <2> QED
    BY <1>3, <2>3, <2>4 DEF CountProfiles
<1>4. CASE InsertDefault(r)
  <2> DEFINE new == [owner |-> user[r], by |-> r, default |-> TRUE, at |-> clock]
  <2>1. /\ pc[r] = "insert_default" /\ mu = r /\ mu' = None /\ profiles' = profiles \union {new}
        /\ pc' = [pc EXCEPT ![r] = AfterEnsure(r)] /\ user[r] \in Emails
        /\ UNCHANGED <<clock, kind, user, reply, target, shown, users, passwords, sessions, resources>>
    BY <1>0, <1>4 DEF InsertDefault, TypeOK, Locked
  <2>2. AfterEnsure(r) \in {"create_session", "insert_profile", "find_profile", "session"}
    BY DEF AfterEnsure
  <2>3. new \in Profile /\ new.owner = user[r] /\ new.default
        /\ new.at = clock /\ clock \in Nat
    BY <1>0, <2>1, AccountsAssumption DEF Profile, TypeOK
  <2>4. TypeOK'
    BY <1>0, <2>1, <2>2, <2>3, AccountsAssumption DEF TypeOK, Locked
  <2>5. \A q \in Requests \ {r} : pc'[q] \notin Locked
    BY <1>0, <2>1 DEF TypeOK
  <2>6. Counted'
    BY <2>5, <2>1, <2>2, <1>0 DEF Counted, Locked
  <2>7. OneDefaultProfile'
    <3>1. \A p \in profiles : p.owner = user[r] => ~p.default
      BY <1>0, <2>1 DEF Counted
    <3>2. ASSUME NEW p \in profiles', NEW q \in profiles', p.default, q.default, p.owner = q.owner
          PROVE  p = q
      <4>1. p \in profiles <=> q \in profiles
        BY <2>1, <2>3, <3>1, <3>2
      <4>2. CASE p \in profiles
        BY <1>0, <4>1, <4>2, <3>2 DEF OneDefaultProfile
      <4>3. CASE p \notin profiles
        BY <4>1, <4>3, <2>1
      <4> QED
        BY <4>2, <4>3
    <3> QED
      BY <3>2 DEF OneDefaultProfile
  <2>8. Ensured' /\ SessionHasProfile'
    BY <1>0, <2>1, <2>2, <2>3 DEF Ensured, SessionHasProfile, ProfilesOf
  <2>9. DefaultFirst'
    BY <1>0, <2>1, <2>3 DEF DefaultFirst, ProfilesOf
  <2>10. Rows'
    BY <1>0, <2>1, <2>2, RowsKept
  <2> QED
    BY <1>0, <2>1, <2>4, <2>6, <2>7, <2>8, <2>9, <2>10 DEF AccountsInv
<1>5. CASE CreateSession(r)
  <2> DEFINE new == [cookie |-> r, owner |-> user[r], expires |-> clock + TTL]
  <2>1. /\ pc[r] = "create_session" /\ sessions' = sessions \union {new}
        /\ pc' = [pc EXCEPT ![r] = "done"] /\ user[r] \in Emails
        /\ UNCHANGED <<clock, kind, user, target, shown, mu, users, passwords, profiles, resources>>
    BY <1>0, <1>5 DEF CreateSession, TypeOK
  <2>2. new \in Session /\ new.owner = user[r]
    BY <1>0, <2>1, AccountsAssumption DEF Session, TypeOK
  <2>3. TypeOK'
    BY <1>0, <2>1, <2>2 DEF TypeOK, Locked
  <2>4. ProfilesOf(user[r]) # {}
    BY <1>0, <2>1 DEF Ensured
  <2>5. Counted' /\ OneDefaultProfile' /\ Ensured' /\ SessionHasProfile'
    BY <1>0, <2>1, <2>2, <2>4 DEF Counted, OneDefaultProfile, Ensured, SessionHasProfile, ProfilesOf
  <2>6. DefaultFirst' /\ Rows'
    BY <1>0, <2>1, RowsKept DEF DefaultFirst, ProfilesOf
  <2> QED
    BY <1>0, <2>1, <2>3, <2>5, <2>6 DEF AccountsInv
<1>6. CASE InsertProfile(r)
  <2> DEFINE new == [owner |-> user[r], by |-> r, default |-> FALSE, at |-> clock]
  <2>1. /\ pc[r] = "insert_profile" /\ profiles' = profiles \union {new}
        /\ pc' = [pc EXCEPT ![r] = "done"] /\ user[r] \in Emails
        /\ UNCHANGED <<clock, kind, user, target, shown, mu, users, passwords, sessions, resources>>
    BY <1>0, <1>6 DEF InsertProfile, TypeOK
  <2>2. new \in Profile /\ ~new.default /\ new.owner = user[r] /\ new.at = clock /\ clock \in Nat
    BY <1>0, <2>1, AccountsAssumption DEF Profile, TypeOK
  <2>3. TypeOK'
    BY <1>0, <2>1, <2>2 DEF TypeOK, Locked
  <2>4. Counted' /\ OneDefaultProfile' /\ Ensured' /\ SessionHasProfile'
    BY <1>0, <2>1, <2>2 DEF Counted, OneDefaultProfile, Ensured, SessionHasProfile, ProfilesOf
  <2>5. PICK p \in profiles : p.owner = user[r]
    BY <1>0, <2>1 DEF Ensured, ProfilesOf
  <2>6. PICK q \in ProfilesOf(user[r]) : q.default /\ q.at <= p.at
    BY <1>0, <2>5 DEF DefaultFirst
  <2>7. q.at <= clock
    BY <1>0, <2>6 DEF DefaultFirst, ProfilesOf
  <2>8. DefaultFirst'
    BY <1>0, <2>1, <2>2, <2>6, <2>7 DEF DefaultFirst, ProfilesOf
  <2>9. Rows'
    BY <1>0, <2>1, RowsKept
  <2> QED
    BY <1>0, <2>1, <2>3, <2>4, <2>8, <2>9 DEF AccountsInv
<1>7. CASE ShowSession(r)
  <2>1. /\ pc[r] = "session" /\ pc' = [pc EXCEPT ![r] = "done"]
        /\ UNCHANGED <<clock, kind, user, target, mu, users, passwords, profiles, sessions, resources>>
    BY <1>7 DEF ShowSession, db
  <2>2. \/ UNCHANGED shown
        \/ \E p \in OldestOf(user[r]) : shown' = [shown EXCEPT ![r] = p]
    BY <1>7 DEF ShowSession
  <2>3. TypeOK'
    BY <1>0, <2>1, <2>2 DEF TypeOK, Locked, OldestOf, ProfilesOf
  <2>4. Counted' /\ OneDefaultProfile' /\ Ensured' /\ SessionHasProfile' /\ DefaultFirst'
    BY <1>0, <2>1
    DEF Counted, OneDefaultProfile, Ensured, SessionHasProfile, DefaultFirst, ProfilesOf
  <2>5. CASE UNCHANGED shown
    BY <1>0, <2>1, <2>3, <2>4, <2>5, RowsKept DEF AccountsInv
  <2>6. ASSUME NEW p \in OldestOf(user[r]), shown' = [shown EXCEPT ![r] = p]
        PROVE  AccountsInv'
    <3>1. p \in profiles /\ p.owner = user[r] /\ \A q \in ProfilesOf(user[r]) : p.at <= q.at
      BY DEF OldestOf, ProfilesOf
    <3>2. PICK q \in ProfilesOf(user[r]) : q.default /\ q.at <= p.at
      BY <1>0, <3>1 DEF DefaultFirst
    <3>3. p.at \in Nat /\ q.at \in Nat
      BY <1>0, <3>1, <3>2 DEF TypeOK, Profile, ProfilesOf
    <3>4. q.at = p.at
      BY <3>1, <3>2, <3>3
    <3>5. shown'[r] = p /\ \A z \in Requests : z # r => shown'[z] = shown[z]
      BY <1>0, <2>6 DEF TypeOK
    <3>6. DefaultIsShown'
      BY <1>0, <2>1, <3>1, <3>2, <3>4, <3>5 DEF Rows, DefaultIsShown, ProfilesOf
    <3>7. Targeted' /\ RowsHaveOneOwner' /\ ShownWhenDone'
      BY <1>0, <2>1, <3>5 DEF Rows, Targeted, RowsHaveOneOwner, ShownWhenDone, ProfilesOf
    <3> QED
      BY <1>0, <2>1, <2>3, <2>4, <3>6, <3>7 DEF AccountsInv, Rows
  <2> QED
    BY <2>2, <2>5, <2>6
<1>8. CASE FindProfile(r)
  <2>1. /\ pc[r] = "find_profile"
        /\ UNCHANGED <<clock, kind, user, shown, mu, users, passwords, profiles, sessions, resources>>
    BY <1>8 DEF FindProfile, db
  <2>2. PICK p \in profiles :
            \/ /\ p.owner = user[r] /\ target' = [target EXCEPT ![r] = p]
               /\ \/ pc' = [pc EXCEPT ![r] = "insert_row"]
                  \/ pc' = [pc EXCEPT ![r] = "delete_row"]
            \/ pc' = [pc EXCEPT ![r] = "done"] /\ UNCHANGED target
    BY <1>8 DEF FindProfile, userOwnsProfile
  <2>3. TypeOK'
    BY <1>0, <2>1, <2>2 DEF TypeOK, Locked
  <2>4. Counted' /\ OneDefaultProfile' /\ Ensured' /\ SessionHasProfile' /\ DefaultFirst'
    BY <1>0, <2>1, <2>2
    DEF Counted, OneDefaultProfile, Ensured, SessionHasProfile, DefaultFirst, ProfilesOf
  <2>5. Targeted'
    BY <1>0, <2>1, <2>2 DEF TypeOK, Rows, Targeted, ProfilesOf
  <2>6. RowsHaveOneOwner' /\ ShownWhenDone' /\ DefaultIsShown'
    BY <1>0, <2>1, <2>2 DEF Rows, RowsHaveOneOwner, ShownWhenDone, DefaultIsShown, ProfilesOf
  <2> QED
    BY <1>0, <2>1, <2>3, <2>4, <2>5, <2>6 DEF AccountsInv, Rows
<1>9. CASE InsertRow(r)
  <2>1. /\ pc[r] = "insert_row" /\ pc' = [pc EXCEPT ![r] = "done"]
        /\ UNCHANGED <<clock, kind, user, target, shown, mu, users, passwords, profiles, sessions>>
    BY <1>9 DEF InsertRow
  <2>2. PICK table \in Tables : resources' = resources \union
            {[table |-> table, id |-> r, profile |-> target[r], owner |-> user[r]]}
    BY <1>9 DEF InsertRow
  <2>3. target[r] \in profiles /\ target[r].owner = user[r] /\ user[r] \in Emails
    BY <1>0, <2>1 DEF Rows, Targeted, ProfilesOf, TypeOK
  <2>4. [table |-> table, id |-> r, profile |-> target[r], owner |-> user[r]] \in Resource
    BY <1>0, <2>3 DEF TypeOK, Resource
  <2>5. TypeOK'
    BY <1>0, <2>1, <2>2, <2>4 DEF TypeOK, Locked
  <2>6. Counted' /\ OneDefaultProfile' /\ Ensured' /\ SessionHasProfile' /\ DefaultFirst'
    BY <1>0, <2>1
    DEF Counted, OneDefaultProfile, Ensured, SessionHasProfile, DefaultFirst, ProfilesOf
  <2>7. RowsHaveOneOwner'
    BY <1>0, <2>1, <2>2, <2>3 DEF Rows, RowsHaveOneOwner, ProfilesOf
  <2>8. Targeted' /\ ShownWhenDone' /\ DefaultIsShown'
    BY <1>0, <2>1 DEF Rows, Targeted, ShownWhenDone, DefaultIsShown, ProfilesOf
  <2> QED
    BY <1>0, <2>1, <2>5, <2>6, <2>7, <2>8 DEF AccountsInv, Rows
<1>10. CASE DeleteRow(r)
  <2>1. /\ pc[r] = "delete_row" /\ pc' = [pc EXCEPT ![r] = "done"] /\ resources' \subseteq resources
        /\ UNCHANGED <<clock, kind, user, target, shown, mu, users, passwords, profiles, sessions>>
    BY <1>10 DEF DeleteRow
  <2>2. TypeOK'
    BY <1>0, <2>1 DEF TypeOK, Locked
  <2>3. Counted' /\ OneDefaultProfile' /\ Ensured' /\ SessionHasProfile' /\ DefaultFirst'
    BY <1>0, <2>1
    DEF Counted, OneDefaultProfile, Ensured, SessionHasProfile, DefaultFirst, ProfilesOf
  <2>4. Rows'
    <3>1. /\ pc[r] # "done" /\ pc' = [pc EXCEPT ![r] = "done"] /\ resources' \subseteq resources
          /\ UNCHANGED <<user, target, shown, profiles>>
      BY <2>1
    <3> QED
      BY <3>1, <1>0, RowsKept
  <2> QED
    BY <1>0, <2>1, <2>2, <2>3, <2>4 DEF AccountsInv
<1> QED
  BY <1>1, <1>2, <1>3, <1>4, <1>5, <1>6, <1>7, <1>8, <1>9, <1>10 DEF Step

LEMMA NextKeepsInv == ASSUME AccountsInv, [Next]_vars PROVE AccountsInv'
<1>1. CASE Restart
  <2>1. /\ pc' = [r \in Requests |-> IF pc[r] = "new" THEN "new" ELSE "done"] /\ mu' = None
        /\ UNCHANGED <<clock, kind, user, reply, target, shown, users, passwords, profiles,
                        sessions, resources>>
    BY <1>1 DEF Restart, db
  <2>2. TypeOK'
    BY <2>1, AccountsAssumption DEF AccountsInv, TypeOK, Locked
  <2>3. DefaultFirst' /\ Rows'
    BY <2>1
    DEF AccountsInv, DefaultFirst, Rows, Targeted, RowsHaveOneOwner, ShownWhenDone, DefaultIsShown,
        ProfilesOf
  <2> QED
    BY <2>1, <2>2, <2>3
    DEF AccountsInv, Counted, OneDefaultProfile, Ensured, SessionHasProfile, ProfilesOf
<1>2. CASE Tick
  <2>1. /\ clock \in 0..MaxClock /\ clock' = clock + 1 /\ clock' \in 0..MaxClock
        /\ UNCHANGED <<req, mu, db>>
    BY <1>2, AccountsAssumption DEF Tick, AccountsInv, TypeOK
  <2>2. TypeOK'
    BY <2>1 DEF req, db, AccountsInv, TypeOK
  <2>3. \A p \in profiles : p.at \in Nat
    BY DEF AccountsInv, TypeOK, Profile
  <2>4. DefaultFirst'
    BY <2>1, <2>3 DEF db, AccountsInv, DefaultFirst, ProfilesOf
  <2>5. Counted' /\ OneDefaultProfile' /\ Ensured' /\ SessionHasProfile' /\ users' = passwords'
    BY <2>1
    DEF req, db, AccountsInv, Counted, OneDefaultProfile, Ensured, SessionHasProfile, ProfilesOf
  <2>6. Rows'
    BY <2>1
    DEF req, db, AccountsInv, Rows, Targeted, RowsHaveOneOwner, ShownWhenDone, DefaultIsShown,
        ProfilesOf
  <2> QED
    BY <2>2, <2>4, <2>5, <2>6 DEF AccountsInv
<1>3. CASE UNCHANGED vars
  <2>1. TypeOK' /\ Counted' /\ OneDefaultProfile' /\ Ensured' /\ SessionHasProfile'
    BY <1>3
    DEF vars, req, db, AccountsInv, TypeOK, Counted, OneDefaultProfile, Ensured, SessionHasProfile,
        ProfilesOf
  <2>2. DefaultFirst' /\ Rows' /\ users' = passwords'
    BY <1>3
    DEF vars, req, db, AccountsInv, DefaultFirst, Rows, Targeted, RowsHaveOneOwner, ShownWhenDone,
        DefaultIsShown, ProfilesOf
  <2> QED
    BY <2>1, <2>2 DEF AccountsInv
<1> QED
  BY <1>1, <1>2, <1>3, ArriveKeepsInv, StepKeepsInv DEF Next

LEMMA AlwaysAccountsInv == Spec => []AccountsInv
  BY InitAccountsInv, NextKeepsInv, PTL DEF Spec

-----------------------------------------------------------------------------
\* s.mu makes count and insert of ensureDefaultProfile one: no user gets two default
\* profiles from requests that arrive together.
THEOREM AtMostOneDefault == Spec => []OneDefaultProfile
<1>1. AccountsInv => OneDefaultProfile
  BY DEF AccountsInv
<1> QED
  BY <1>1, AlwaysAccountsInv, PTL

\* A session is created behind ensureDefaultProfile on every path, so that its owner
\* has a profile whatever crashed before.
THEOREM SessionsHaveProfiles == Spec => []SessionHasProfile
<1>1. AccountsInv => SessionHasProfile
  BY DEF AccountsInv
<1> QED
  BY <1>1, AlwaysAccountsInv, PTL

\* What was created below a profile belongs to the profile's owner: profiles are neither
\* deleted nor handed on, so userOwnsProfile is as good at the INSERT as when it was asked.
THEOREM RowsAreTheOwners == Spec => []RowsHaveOneOwner
<1>1. AccountsInv => RowsHaveOneOwner
  BY DEF AccountsInv, Rows
<1> QED
  BY <1>1, AlwaysAccountsInv, PTL

\* The default profile comes first in created_at, as every way to another one leads through
\* ensureDefaultProfile, so that the console shows it.
THEOREM ShowsTheDefault == Spec => []DefaultIsShown
<1>1. AccountsInv => DefaultIsShown
  BY DEF AccountsInv, Rows
<1> QED
  BY <1>1, AlwaysAccountsInv, PTL

\* The transaction of createLocalUser: a setup that dies half-way leaves no user who
\* cannot log in while setup refuses to run again.
THEOREM NobodyLockedOut == Spec => []NoLockOut
<1>1. AccountsInv => NoLockOut
  BY DEF AccountsInv, NoLockOut
<1> QED
  BY <1>1, AlwaysAccountsInv, PTL

\* The variables keep their types at every step, those of a crash and a failure included.
THEOREM TypeCorrect == Spec => []TypeOK
<1>1. AccountsInv => TypeOK
  BY DEF AccountsInv, TypeOK
<1> QED
  BY <1>1, AlwaysAccountsInv, PTL
=============================================================================
