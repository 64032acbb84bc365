---------------------------- MODULE MCParallelRun ----------------------------
(* An instance of ParallelRun for TLC: the run is created before its        *)
(* inventory lists a host, then three hosts are in two overlapping groups,  *)
(* and one of them leaves the group it shared.                              *)
EXTENDS ParallelRun

Host(name, inv) == [key |-> name, name |-> name, inv |-> inv]
A == Host("a", "a")
B == Host("b", "b.example")
C == Host("c", "c.example")

Whole == << <<A, B>>, <<B, C>> >>
Moved == << <<A>>, <<B, C>> >>

Nobody == << <<>> >>

All == {Nobody, Whole, Moved}
Moving == {<<Nobody, Whole>>, <<Whole, Moved>>}

(* Reconciles in flight are interchangeable. *)
WorkerSymmetry == Permutations(Workers)
=============================================================================
