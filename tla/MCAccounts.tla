----------------------------- MODULE MCAccounts -----------------------------
(* Three requests and two addresses: two setups race, or a setup and two logins, *)
(* or API requests with the first one's cookie; a session may expire. Requests  *)
(* differ in their names only, so that they arrive in the order of those.       *)
EXTENDS Accounts

InOrder == \A q, r \in Requests : q < r /\ pc'[r] # "new" => pc'[q] # "new"
=============================================================================
