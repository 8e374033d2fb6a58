----------------------------- MODULE MCCiWatch ------------------------------
(* Two workflows, both of them asked for.                                  *)
EXTENDS CiWatch
=============================================================================
