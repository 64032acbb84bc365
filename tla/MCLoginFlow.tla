----------------------------- MODULE MCLoginFlow -----------------------------
(* Two tabs of one browser or of two; one user does not exist yet, and gets *)
(* no role by signing in.                                                   *)
EXTENDS LoginFlow, TLC

CONSTANTS t1, t2, b1, b2, s1, s2, idp

OneOrTwo == {(t1 :> b1) @@ (t2 :> b) : b \in Browsers}
Newcomer == {(s1 :> "gone") @@ (s2 :> "user")}
=============================================================================
