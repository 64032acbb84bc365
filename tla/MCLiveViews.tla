---------------------------- MODULE MCLiveViews ----------------------------
(* Two pages over one object: what a page may not see is passed over by     *)
(* its filter, and objects do not meet.                                     *)
EXTENDS LiveViews, TLC

MCVisible == [p \in Pages |-> Names]

PageSymmetry == Permutations(Pages)
============================================================================
