----------------------------- MODULE MCCronJob -----------------------------
(* Instances of CronJob for TLC; the values are in MCCronJob_*.cfg.         *)
EXTENDS CronJob
=============================================================================
