----------------------------- MODULE MCPrCreate -----------------------------
(* The repositories a-b/c and a/b-c, whose slugs flatten to one path; a    *)
(* handful of ways to run the command.                                     *)
EXTENDS PrCreate, TLC

MCPathOf == "a-b/c" :> "a-b-c" @@ "a/b-c" :> "a-b-c"

Plain == [repo |-> "a-b/c", topic |-> "t", agit |-> FALSE, dry_run |-> FALSE,
          recover |-> FALSE, reviewers |-> FALSE]

MCCommands ==
    {[Plain EXCEPT !.reviewers = TRUE],
     [Plain EXCEPT !.recover = TRUE],
     [Plain EXCEPT !.dry_run = TRUE],
     [Plain EXCEPT !.dry_run = TRUE, !.recover = TRUE, !.agit = TRUE],
     [Plain EXCEPT !.agit = TRUE, !.reviewers = TRUE],
     [Plain EXCEPT !.agit = TRUE, !.recover = TRUE, !.topic = "u"],
     [Plain EXCEPT !.repo = "a/b-c"]}

MCSymmetry == Permutations(Runs)
=============================================================================
