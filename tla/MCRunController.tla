-------------------------- MODULE MCRunController --------------------------
(* Instances of RunController for TLC; the constants' values are in the     *)
(* configurations MCRunController_*.cfg.                                    *)
EXTENDS RunController, TLC

(* Reconciles in flight are interchangeable. *)
WorkerSymmetry == Permutations(Workers)
=============================================================================
