--------------------------- MODULE MCOauthSession ---------------------------
(* Two processes on the sessions of one or two logins.                      *)
EXTENDS OauthSession, TLC

MCSymmetry == Permutations(Procs) \union Permutations(Logins)
=============================================================================
