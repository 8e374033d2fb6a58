------------------------------ MODULE PrCreate ------------------------------
(***************************************************************************)
(* `gea pr create`: the title and body a person wrote are saved to a file  *)
(* before they are sent, over the API or as an AGit push, and the file is  *)
(* removed once the pull request is there; --recover sends what a failed   *)
(* run left.  Then the pull request is read back and reviews are requested.*)
(*                                                                         *)
(* The hazards: any call may fail, before or after it took effect, the     *)
(* process may die at any point, runs share the file, and the pull request *)
(* a push made may have to be guessed.                                     *)
(***************************************************************************)
EXTENDS Integers, FiniteSets

CONSTANTS Runs,       \* the invocations
          Repos,
          Topics,     \* branches: the heads or topics of pull requests
          Paths,      \* recovery files
          PathOf,     \* recovery_path: the slug, with - for what is not alphanumeric
          Commands,   \* the invocations that may be made
          Overlap,    \* whether two may run at a time
          MaxOthers,  \* bound on the pull requests of others
          Torn, None

Command == [repo : Repos, topic : Topics, agit : BOOLEAN, dry_run : BOOLEAN,
            recover : BOOLEAN, reviewers : BOOLEAN]

ASSUME PrAssumption ==
    /\ PathOf \in [Repos -> Paths] /\ Commands \subseteq Command
    /\ Overlap \in BOOLEAN /\ MaxOthers \in Nat
    /\ Torn # None /\ Torn \notin Runs
    /\ None \notin Runs \union Topics \union Command
    /\ None \notin {"ok", "usage", "error", "died"}

VARIABLES prs,     \* the server's open pull requests
          others,  \* those of others so far
          file,    \* per path: the text saved, Torn, or None
          pc, cmd, \* per run: its step and its command
          mem,     \* per run: what it knows
          outcome, told,   \* per run: how it ended, and whether it named the file
          made,    \* history: per run, what it did on the server
          writer,  \* history: per path, the last run that saved
          before,  \* history: per dry run, what the file held before it saved
          met      \* history: per run, those it overlapped with

server == <<prs, others>>
vars == <<server, file, pc, cmd, mem, outcome, told, made, writer, before, met>>

(* A text is named for the run it was written for.                         *)
Texts == Runs
Active(p) == pc[p] \notin {"idle", "done"}
path(p) == PathOf[cmd[p].repo]

(* number 0: none.  Of somebody else's the topic does not matter.          *)
PullRequest == [number : Nat, repo : Repos, topic : Topics \union {None}, agit : BOOLEAN]

(* draft: the text; saved: whether recovery is Some; reported: the number  *)
(* in the output of the push; pr: the number of what it takes for its own. *)
Memory == [draft : Texts \union {None}, saved : BOOLEAN, reported : Nat, pr : Nat]

(* number: the pull request it made or updated; known: whether the answer  *)
(* said so; asked: the one it requested reviews of; guessed: whether that  *)
(* was not reported.                                                       *)
Effect == [number : Nat, known : BOOLEAN, asked : Nat, guessed : BOOLEAN]

Init ==
    /\ prs = {} /\ others = 0
    /\ file = [f \in Paths |-> None]
    /\ pc = [p \in Runs |-> "idle"] /\ cmd = [p \in Runs |-> None]
    /\ mem = [p \in Runs |-> [draft |-> None, saved |-> FALSE, reported |-> 0, pr |-> 0]]
    /\ outcome = [p \in Runs |-> None] /\ told = [p \in Runs |-> FALSE]
    /\ made = [p \in Runs |-> [number |-> 0, known |-> FALSE, asked |-> 0, guessed |-> FALSE]]
    /\ writer = [f \in Paths |-> None] /\ before = [p \in Runs |-> None]
    /\ met = [p \in Runs |-> {}]

NextNumber == Cardinality(prs) + 1

(* Somebody else opens a pull request by AGit.                             *)
Elsewhere ==
    /\ others < MaxOthers /\ others' = others + 1
    /\ \E r \in Repos : prs' = prs \union
         {[number |-> NextNumber, repo |-> r, topic |-> None, agit |-> TRUE]}
    /\ UNCHANGED <<file, pc, cmd, mem, outcome, told, made, writer, before, met>>

-----------------------------------------------------------------------------
End(p, how, tell) ==
    /\ pc' = [pc EXCEPT ![p] = "done"]
    /\ outcome' = [outcome EXCEPT ![p] = how]
    /\ told' = [told EXCEPT ![p] = tell]
    /\ mem' = [mem EXCEPT ![p] = [@ EXCEPT !.reported = 0, !.pr = 0]]

Goto(p, step, m) ==
    /\ pc' = [pc EXCEPT ![p] = step]
    /\ mem' = [mem EXCEPT ![p] = m]
    /\ UNCHANGED <<outcome, told>>

(* Draft::assemble: what was saved, or a new text.                         *)
Assemble(p) ==
    /\ pc[p] = "idle"
    /\ Overlap \/ \A q \in Runs : ~Active(q)
    /\ \E c \in Commands :
        LET found == file[PathOf[c.repo]]
        IN  /\ cmd' = [cmd EXCEPT ![p] = c]
            /\ IF c.recover /\ found \in {None, Torn}
               THEN End(p, "usage", FALSE)
               ELSE Goto(p, "saving", [mem[p] EXCEPT !.draft = IF c.recover THEN found ELSE p])
    /\ met' = [q \in Runs |-> IF q = p THEN {r \in Runs : Active(r)}
                              ELSE IF Active(q) THEN met[q] \union {p} ELSE met[q]]
    /\ UNCHANGED <<server, file, made, writer, before>>

(* The path is answered although the write failed.                         *)
SaveNothing(p) ==
    /\ pc[p] = "saving"
    /\ Goto(p, "sending", [mem[p] EXCEPT !.saved = TRUE])
    /\ writer' = [writer EXCEPT ![path(p)] = p]
    /\ before' = IF cmd[p].dry_run THEN [before EXCEPT ![p] = file[path(p)]] ELSE before
    /\ UNCHANGED <<server, file, cmd, made, met>>

(* Draft::save, which truncates the file and then fills it.  A failure is  *)
(* not fatal; the file is then as it was, or torn.                         *)
Save(p) ==
    /\ pc[p] = "saving"
    /\ \/ /\ file' = [file EXCEPT ![path(p)] = mem[p].draft]
          /\ Goto(p, "sending", [mem[p] EXCEPT !.saved = TRUE])
       \/ /\ \E text \in {file[path(p)], Torn} : file' = [file EXCEPT ![path(p)] = text]
          /\ Goto(p, "sending", mem[p])
    /\ writer' = [writer EXCEPT ![path(p)] = p]
    /\ before' = IF cmd[p].dry_run THEN [before EXCEPT ![p] = file[path(p)]] ELSE before
    /\ UNCHANGED <<server, cmd, made, met>>

(* What it was told to create is not there, for all it knows: the file is  *)
(* kept and named.                                                         *)
Failed(p) == End(p, "error", mem[p].saved)

(* --dry-run answers an empty pull request.                                *)
DryRun(p) ==
    /\ pc[p] = "sending" /\ cmd[p].dry_run
    /\ Goto(p, "created", mem[p])
    /\ UNCHANGED <<server, file, cmd, made, writer, before, met>>

(* A lookup, the request or the push fails and nothing was made.           *)
NotSent(p) ==
    /\ pc[p] = "sending"
    /\ Failed(p)
    /\ UNCHANGED <<server, file, cmd, made, writer, before, met>>

Opened(p) ==
    [number |-> NextNumber, repo |-> cmd[p].repo, topic |-> cmd[p].topic, agit |-> cmd[p].agit]

Mine(p) ==
    {x \in prs : x.repo = cmd[p].repo /\ x.topic = cmd[p].topic /\ x.agit = cmd[p].agit}

(* classic: the server takes one pull request for a head.                  *)
classic(p) ==
    /\ pc[p] = "sending" /\ ~cmd[p].dry_run /\ ~cmd[p].agit /\ Mine(p) = {}
    /\ prs' = prs \union {Opened(p)}
    /\ \E answered \in BOOLEAN :
        /\ made' = [made EXCEPT ![p] = [@ EXCEPT !.number = NextNumber, !.known = answered]]
        /\ IF answered
           THEN Goto(p, "created", [mem[p] EXCEPT !.pr = NextNumber])
           ELSE Failed(p)
    /\ UNCHANGED <<others, file, cmd, writer, before, met>>

(* agit: a push of the same topic updates the pull request.                *)
agit(p) ==
    /\ pc[p] = "sending" /\ ~cmd[p].dry_run /\ cmd[p].agit
    /\ prs' = IF Mine(p) = {} THEN prs \union {Opened(p)} ELSE prs
    /\ \E x \in prs', answered, says \in BOOLEAN :
        /\ x.number = NextNumber \/ x \in Mine(p)
        /\ made' = [made EXCEPT ![p] = [@ EXCEPT !.number = x.number, !.known = answered]]
        /\ IF answered
           THEN Goto(p, "locating", [mem[p] EXCEPT !.reported = IF says THEN x.number ELSE 0])
           ELSE Failed(p)
    /\ UNCHANGED <<others, file, cmd, writer, before, met>>

(* locate: the number that was reported, or else the newest pull request   *)
(* made by AGit, whose topic the API does not tell.                        *)
Newest(p) ==
    {x \in prs : /\ x.agit /\ x.repo = cmd[p].repo
                /\ \A y \in prs : y.agit /\ y.repo = x.repo => y.number <= x.number}

LocatedNewest(p) == {x.number : x \in Newest(p)}

Located(p) ==
    IF mem[p].reported # 0 THEN {mem[p].reported} ELSE {x.number : x \in Newest(p)}

(* The push was taken, so that whatever this read answers is not an error. *)
LocateStrictly(p) ==
    /\ pc[p] = "locating"
    /\ \/ \E n \in Located(p) : Goto(p, "created", [mem[p] EXCEPT !.pr = n])
       \/ Failed(p)
    /\ UNCHANGED <<server, file, cmd, made, writer, before, met>>

Locate(p) ==
    /\ pc[p] = "locating"
    /\ \E n \in Located(p) \union {0} : Goto(p, "created", [mem[p] EXCEPT !.pr = n])
    /\ UNCHANGED <<server, file, cmd, made, writer, before, met>>

(* The file goes; an error in that is ignored.                             *)
Forget(p) ==
    /\ pc[p] = "created"
    /\ Goto(p, "reviewing", mem[p])
    /\ \/ mem[p].saved /\ file' = [file EXCEPT ![path(p)] = None]
       \/ UNCHANGED file
    /\ UNCHANGED <<server, cmd, made, writer, before, met>>

(* request_reviews, which needs a pull request.  It may fail, before or    *)
(* after the server took it, and so fail the command.                      *)
request_reviews(p) ==
    /\ pc[p] = "reviewing"
    /\ IF ~cmd[p].reviewers \/ cmd[p].dry_run \/ mem[p].pr = 0
       THEN End(p, "ok", FALSE) /\ UNCHANGED made
       ELSE /\ \E how \in {"ok", "error"} : End(p, how, FALSE)
            /\ \/ made' = [made EXCEPT ![p] = [@ EXCEPT !.asked = mem[p].pr,
                                                    !.guessed = mem[p].reported = 0]]
               \/ outcome'[p] = "error" /\ UNCHANGED made
    /\ UNCHANGED <<server, file, cmd, writer, before, met>>

(* The process dies, in the middle of a write as well.                     *)
Crash(p) ==
    /\ Active(p)
    /\ End(p, "died", FALSE)
    /\ UNCHANGED <<server, cmd, made, before, met>>
    /\ \/ UNCHANGED <<file, writer>>
       \/ /\ pc[p] = "saving"
          /\ file' = [file EXCEPT ![path(p)] = Torn]
          /\ writer' = [writer EXCEPT ![path(p)] = p]

-----------------------------------------------------------------------------
Step(p) ==
    \/ Assemble(p) \/ Save(p)
    \/ DryRun(p) \/ NotSent(p) \/ classic(p) \/ agit(p) \/ Locate(p)
    \/ Forget(p) \/ request_reviews(p) \/ Crash(p)

Next == Elsewhere \/ \E p \in Runs : Step(p)

Spec == Init /\ [][Next]_vars

-----------------------------------------------------------------------------
Steps == {"idle", "saving", "sending", "locating", "created", "reviewing", "done"}

TypeOK ==
    /\ prs \subseteq PullRequest /\ others \in Nat
    /\ file \in [Paths -> Texts \union {Torn, None}]
    /\ pc \in [Runs -> Steps] /\ cmd \in [Runs -> Commands \union {None}]
    /\ \A p \in Runs : cmd[p] = None <=> pc[p] = "idle"
    /\ mem \in [Runs -> Memory]
    /\ outcome \in [Runs -> {None, "ok", "usage", "error", "died"}]
    /\ told \in [Runs -> BOOLEAN] /\ made \in [Runs -> Effect]
    /\ writer \in [Paths -> Runs \union {None}]
    /\ before \in [Runs -> Texts \union {Torn, None}]
    /\ met \in [Runs -> SUBSET Runs]

(* No other run on p's file was under way at the same time.                *)
Undisturbed(p) == \A q \in met[p] : path(q) # path(p)

(* What a person wrote is not lost: the text of a run that saved it and    *)
(* failed or died before its pull request was there is in the file until   *)
(* another run begins to save.                                             *)
WorkSurvives ==
    \A p \in Runs :
        /\ outcome[p] \in {"error", "died"} /\ mem[p].saved /\ ~cmd[p].dry_run
        /\ ~made[p].known /\ Undisturbed(p) /\ writer[path(p)] = p
        => file[path(p)] = mem[p].draft

(* --recover is offered when, for all the run can know, there is no pull   *)
(* request, and only then: a failure to read one back or to request        *)
(* reviews never invites a person to make it again.                        *)
AdviceIsRight ==
    \A p \in Runs :
        outcome[p] = "error" /\ mem[p].saved => (told[p] <=> ~made[p].known)

(* Reviews are requested of the pull request that the run made, unless the *)
(* push did not report it and there is another one made by AGit.           *)
ReviewsOnOwn ==
    \A p \in Runs :
        made[p].asked # 0 =>
            \/ made[p].asked = made[p].number
            \/ /\ cmd[p].agit /\ made[p].guessed
               /\ \E x \in prs : x.agit /\ x.repo = cmd[p].repo /\ x.number # made[p].number

(* `gea pr create --dry-run`, "a command that changes nothing": one that   *)
(* has run to its end leaves the text that an earlier run saved, failed    *)
(* and told the person to use --recover for.                               *)
DryRunChangesNothing ==
    \A p, q \in Runs :
        /\ outcome[q] = "error" /\ told[q] /\ ~cmd[q].dry_run
        /\ outcome[p] = "ok" /\ cmd[p].dry_run /\ before[p] = mem[q].draft
        /\ Undisturbed(p) /\ writer[path(p)] = p
        => file[path(p)] = before[p]

-----------------------------------------------------------------------------
(* The inductive invariant, part by part.                                  *)

Begun(p) == pc[p] \notin {"idle", "saving"}

(* What a run has done and knows, by its step.                             *)
Phases ==
    \A p \in Runs :
        /\ pc[p] # "done" => outcome[p] = None
        /\ ~Begun(p) => ~mem[p].saved
        /\ pc[p] \in {"idle", "saving", "sending"} =>
              ~made[p].known /\ mem[p].reported = 0 /\ mem[p].pr = 0
        /\ pc[p] \in {"locating", "created", "reviewing"} => cmd[p].dry_run \/ made[p].known
        /\ pc[p] = "locating" => cmd[p].agit

Overlapping ==
    /\ \A p, q \in Runs : p # q /\ Active(p) /\ Active(q) => q \in met[p]
    /\ \A p \in Runs : \A q \in met[p] : pc[q] # "idle"

(* The last one to save a file is past saving, and a run that is past it   *)
(* as well overlapped with it.                                             *)
Writers ==
    \A f \in Paths : \A p \in Runs :
        writer[f] = p =>
            /\ Begun(p) /\ path(p) = f
            /\ \A q \in Runs \ {p} :
                 Begun(q) /\ Active(q) /\ path(q) = f => q \in met[p]

(* WorkSurvives, of the runs under way as well.                            *)
Written ==
    \A p \in Runs :
        /\ mem[p].saved /\ ~cmd[p].dry_run /\ ~made[p].known
        /\ Undisturbed(p) /\ writer[path(p)] = p
        => file[path(p)] = mem[p].draft

(* Another one that locate may have taken for p's.                         *)
Mistakable(p) ==
    cmd[p].agit /\ \E x \in prs : x.agit /\ x.repo = cmd[p].repo /\ x.number # made[p].number

Targets ==
    \A p \in Runs :
        /\ pc[p] # "done" => made[p].asked = 0
        /\ mem[p].reported \in {0, made[p].number}
        /\ mem[p].pr \in {0, made[p].number} \/ (mem[p].reported = 0 /\ Mistakable(p))
        /\ made[p].asked \in {0, made[p].number} \/ (made[p].guessed /\ Mistakable(p))

IInv ==
    /\ TypeOK /\ IsFiniteSet(prs)
    /\ Phases /\ Overlapping /\ Writers /\ Written /\ AdviceIsRight /\ Targets
=============================================================================
