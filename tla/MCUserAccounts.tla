--------------------------- MODULE MCUserAccounts ---------------------------
(* Two usernames and one OIDC subject, who has an entry in the legacy store *)
(* and the email of one of its two accounts.                                *)
EXTENDS UserAccounts, TLC

CONSTANTS admin, alice, sso, old, new

TwoAccounts == (admin :> [sub |-> None, email |-> sso, password |-> old])
                 @@ (alice :> [sub |-> None, email |-> None, password |-> new])
=============================================================================
