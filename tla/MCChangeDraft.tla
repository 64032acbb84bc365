--------------------------- MODULE MCChangeDraft ---------------------------
(* An author who creates a host and edits an SSH key, and may approve       *)
(* changes of the key; and a reviewer of both.                              *)
EXTENDS ChangeDraft

HandlerSymmetry == Permutations(Handlers)

MCChanges == {[id |-> 1, action |-> "create", name |-> "host"],
              [id |-> 2, action |-> "update", name |-> "key"]}

MCUsers == {"author", "lead"}

MCGrants == [u \in MCUsers |-> IF u = "lead" THEN {"host", "key"} ELSE {"key"}]
============================================================================
