---------------------------- MODULE MCWorkqueue ----------------------------
(* The work queue over two objects, one of which exists already, and two    *)
(* changes.                                                                 *)
EXTENDS Workqueue
============================================================================
