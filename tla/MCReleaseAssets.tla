-------------------------- MODULE MCReleaseAssets ---------------------------
(* Two names, one of which two files have; three invocations of any of     *)
(* nine commands.                                                          *)
EXTENDS ReleaseAssets, TLC

MCNameOf == "dist/a" :> "a" @@ "old/a" :> "a" @@ "b" :> "b" @@ "gone" :> "b"

Plain(kind) == [kind |-> kind, files |-> {}, names |-> {}, clobber |-> FALSE,
                skip |-> FALSE, tag |-> FALSE]

MCCommands ==
    {[Plain("create") EXCEPT !.files = {"dist/a"}, !.tag = TRUE],
     [Plain("upload") EXCEPT !.files = {"dist/a", "b"}, !.clobber = TRUE],
     [Plain("upload") EXCEPT !.files = {"dist/a", "old/a"}],
     [Plain("upload") EXCEPT !.files = {"gone"}],
     [Plain("delete") EXCEPT !.tag = TRUE],
     [Plain("delete_asset") EXCEPT !.names = {"a"}],
     [Plain("download") EXCEPT !.names = {"a"}],
     [Plain("download") EXCEPT !.names = {"a"}, !.clobber = TRUE],
     [Plain("download") EXCEPT !.names = {"a"}, !.skip = TRUE]}

MCSymmetry == Permutations(Procs)
=============================================================================
