---------------------------- MODULE MCWebSession ----------------------------
(* Two processes, or two machines, that share the document of one sign-in. *)
EXTENDS WebSession, TLC

MCSymmetry == Permutations(Procs) \union Permutations(Machines)
=============================================================================
