------------------------------ MODULE CiWatch -------------------------------
(***************************************************************************)
(* `gea ci`: the verdict on one commit.  A command lists the commit's runs *)
(* page by page, keeps the newest of each workflow, and judges those; the  *)
(* watch does so again and again until every one has finished.  Meanwhile  *)
(* the server queues runs, finishes, reruns and deletes them, and the      *)
(* pages of one listing are not one snapshot.                              *)
(*                                                                         *)
(* The hazards: a script merges on exit status 0, so a run that was missed *)
(* (on a later page, not queued yet, of another commit, superseded) must   *)
(* not turn red into green.                                                *)
(***************************************************************************)
EXTENDS Integers, FiniteSets

CONSTANTS Workflows,       \* a workflow file and the event that starts it
          Wanted,          \* those that --workflow leaves
          Commands,        \* the commands that may be given
          Conclusions,     \* how a run may end
          Filtering,       \* whether the server knows the head_sha parameter
          AppearTimeout,   \* --appear-timeout, in intervals
          RUNS_PAGE_SIZE,
          RUNS_SCAN_PAGES,
          MaxRuns,         \* bound on the runs ever queued
          MaxChanges,      \* bound on the reruns and deletions of others
          None

Failing == {"failure", "cancelled", "timed_out"}

(* A run, mine if it is of the commit the command is about; and what a     *)
(* listing tells of one.                                                   *)
Run == [workflow : Workflows, mine : BOOLEAN, end : Conclusions \union {None}, gone : BOOLEAN]
Snapshot == [workflow : Workflows, end : Conclusions \union {None}]

ASSUME CiAssumption ==
    /\ Wanted \subseteq Workflows
    /\ Commands \subseteq {"watch", "status", "status_all", "rerun"}
    /\ Filtering \subseteq BOOLEAN
    /\ AppearTimeout \in Nat
    /\ RUNS_PAGE_SIZE \in Nat \ {0} /\ RUNS_SCAN_PAGES \in Nat \ {0}
    /\ MaxRuns \in Nat /\ MaxChanges \in Nat
    /\ None \notin Conclusions \union Workflows \union Failing \union Run \union Snapshot
    /\ None \notin {"ok", "failed", "pending", "no_runs", "nothing", "reran", "error",
                    "success", "skipped"}

VARIABLES runs,      \* the runs of the repository; ids grow in order of creation
          filtering, \* whether this server knows head_sha
          changes,   \* reruns and deletions so far
          cmd,       \* the command given
          pc,        \* where it is
          page,      \* the page to ask for next
          listed,    \* the rows of this listing so far
          found,     \* the commit's runs in it, as they were when read
          capped,    \* whether the listing was given up at RUNS_SCAN_PAGES
          waited,    \* the intervals slept
          todo,      \* the failed runs yet to be rerun
          outcome,   \* how the command ended
          before,    \* history: the commit's runs when the last listing began
          blind      \* history: whether it met what a listing cannot see past

server == <<runs, filtering, changes>>
client == <<cmd, pc, page, listed, found, capped, waited, todo, outcome>>
vars == <<server, client, before, blind>>

Ids == 1..MaxRuns
Nowhere == [i \in Ids |-> None]

Existing == {i \in Ids : runs[i] # None /\ ~runs[i].gone}
Mine(i) == runs[i].mine

Init ==
    /\ runs = Nowhere /\ filtering \in Filtering
    /\ changes = 0
    /\ cmd \in Commands /\ pc = "scanning"
    /\ page = 1 /\ listed = 0 /\ found = Nowhere /\ capped = FALSE
    /\ waited = 0 /\ todo = {} /\ outcome = None
    /\ before = {} /\ blind = FALSE

-----------------------------------------------------------------------------
(* The server, while the command runs.  Runs that it filters out of the    *)
(* listing need not be there; of the others only their place in it counts. *)

Watched == pc # "done"

Appear ==
    \E i \in Ids, w \in Workflows, mine \in BOOLEAN :
        /\ Watched /\ (filtering => mine)
        /\ runs[i] = None /\ \A j \in Ids : j < i => runs[j] # None
        /\ runs' = [runs EXCEPT ![i] = [workflow |-> w, mine |-> mine, end |-> None, gone |-> FALSE]]
        /\ blind' = (blind \/ ~mine)
        /\ UNCHANGED <<filtering, changes, client, before>>

Finish(i) ==
    /\ Watched /\ i \in Existing /\ Mine(i) /\ runs[i].end = None
    /\ \E c \in Conclusions : runs' = [runs EXCEPT ![i].end = c]
    /\ UNCHANGED <<filtering, changes, client, before, blind>>

(* Somebody reruns a finished run in place: it keeps its id.               *)
Rerun(i) ==
    /\ Watched /\ i \in Existing /\ runs[i].end # None /\ changes < MaxChanges
    /\ runs' = [runs EXCEPT ![i].end = None]
    /\ changes' = changes + 1
    /\ UNCHANGED <<filtering, client, before, blind>>

Delete(i) ==
    /\ Watched /\ i \in Existing /\ (Mine(i) => runs[i].end # None) /\ changes < MaxChanges
    /\ runs' = [runs EXCEPT ![i].gone = TRUE]
    /\ changes' = changes + 1
    /\ blind' = TRUE
    /\ UNCHANGED <<filtering, client, before>>

(* The listing is newest first, and of this commit if the server filters.  *)
Listing == {i \in Existing : filtering => Mine(i)}
Newer(i) == Cardinality({j \in Listing : j > i})
Page(p) ==
    {i \in Listing : (p - 1) * RUNS_PAGE_SIZE <= Newer(i) /\ Newer(i) < p * RUNS_PAGE_SIZE}

-----------------------------------------------------------------------------
(* runs_for_sha.                                                           *)

Found == {i \in Ids : found[i] # None}

(* What the client keeps of a page without looking at the commit itself.   *)
KeptTrusting == Page(page)

(* The result is filtered again, whatever the server did.                  *)
Kept == {i \in Page(page) : Mine(i)}

(* The listing is over: an empty page, the collection's end, or a page     *)
(* without a run of the commit after one with.                             *)
ScanOver(got) ==
    \/ got = 0
    \/ listed + got >= Cardinality(Listing)
    \/ Found # {} /\ Kept = {}

(* What a listing cannot see past: the rows that a deletion moves to a page *)
(* already read, and on a server that lists every commit the runs of       *)
(* another one that push in, or fill a page between two of this one's;     *)
(* and that it was given up, of which the user is told.                    *)
Together ==
    \A i, j \in Listing :
        Mine(i) /\ Mine(j) /\ i < j =>
            \/ \E k \in Listing : Mine(k) /\ i < k /\ k < j
            \/ Cardinality({k \in Listing : i < k /\ k < j}) < RUNS_PAGE_SIZE

(* One request of scan_runs_for_sha.  A run that a shift of the pages      *)
(* hands out twice counts as it was first read.                            *)
ReadPage ==
    /\ pc = "scanning"
    /\ LET got == Cardinality(Page(page)) IN
       /\ found' = [i \in Ids |-> IF found[i] = None /\ i \in Kept
                                  THEN [workflow |-> runs[i].workflow, end |-> runs[i].end]
                                  ELSE found[i]]
       /\ listed' = listed + got
       /\ IF ScanOver(got) \/ page = RUNS_SCAN_PAGES
          THEN pc' = "judging" /\ capped' = ~ScanOver(got) /\ UNCHANGED page
          ELSE page' = page + 1 /\ UNCHANGED <<pc, capped>>
       /\ before' = IF page = 1 THEN {i \in Existing : Mine(i)} ELSE before
       /\ blind' = \/ page # 1 /\ blind
                   \/ pc' = "judging" /\ (capped' \/ ~Together)
    /\ UNCHANGED <<server, cmd, waited, todo, outcome>>

(* Any request may fail, past the retries: the command ends with its error *)
(* and drops what it has read.                                             *)
Fail ==
    /\ pc \in {"scanning", "reporting", "rerunning"}
    /\ pc' = "done" /\ outcome' = "error"
    /\ page' = 1 /\ listed' = 0 /\ found' = Nowhere /\ capped' = FALSE
    /\ waited' = 0 /\ todo' = {}
    /\ UNCHANGED <<server, cmd, before, blind>>

(* latest_per_workflow: the highest id.                                    *)
latest_per_workflow ==
    {i \in Found : \A j \in Found : found[j].workflow = found[i].workflow => j <= i}

(* select.                                                                 *)
Selected == {i \in latest_per_workflow : found[i].workflow \in Wanted}

ci_state(i) ==
    CASE found[i].end = None -> "pending"
      [] found[i].end \in Failing -> "failed"
      [] found[i].end \in {"success", "skipped"} -> "passed"
      [] OTHER -> "other"

In(state) == {i \in Selected : ci_state(i) = state}

-----------------------------------------------------------------------------
(* What each command makes of it.                                          *)

End(o) == pc' = "done" /\ outcome' = o /\ UNCHANGED <<page, listed, found, capped, waited, todo>>

Goto(step) == pc' = step /\ UNCHANGED <<page, listed, found, capped, waited, outcome>>

(* The interval is slept and the listing begins anew.  Of waited only      *)
(* whether AppearTimeout is past matters: it stops there.                  *)
Sleep ==
    /\ waited' = IF waited < AppearTimeout THEN waited + 1 ELSE waited
    /\ pc' = "scanning" /\ page' = 1 /\ listed' = 0 /\ found' = Nowhere /\ capped' = FALSE
    /\ UNCHANGED <<todo, outcome>>

(* All of no runs are finished.                                            *)
JudgeWatchVacuously ==
    \/ In("pending") # {} /\ Sleep
    \/ In("pending") = {} /\ Goto("reporting") /\ UNCHANGED todo

(* The runs are waited for as long as it takes them to appear.             *)
JudgeWatchPatiently ==
    \/ (Selected # {} => In("pending") # {}) /\ Sleep
    \/ Selected # {} /\ In("pending") = {} /\ Goto("reporting") /\ UNCHANGED todo

(* follow: nothing yet, something still running, or all finished.          *)
JudgeWatch ==
    \/ Selected = {} /\ waited >= AppearTimeout /\ End("no_runs")
    \/ (Selected = {} => waited < AppearTimeout) /\ (Selected # {} => In("pending") # {}) /\ Sleep
    \/ Selected # {} /\ In("pending") = {} /\ Goto("reporting") /\ UNCHANGED todo

(* rerun_failed, for the failed ones only.                                 *)
JudgeRerun ==
    \/ In("failed") = {} /\ End("nothing")
    \/ In("failed") # {} /\ Goto("rerunning") /\ todo' = In("failed")

Judge ==
    /\ pc = "judging"
    /\ \/ cmd = "watch" /\ JudgeWatch
       \/ cmd \in {"status", "status_all"} /\ Goto("reporting") /\ UNCHANGED todo
       \/ cmd = "rerun" /\ JudgeRerun
    /\ UNCHANGED <<server, cmd, before, blind>>

(* view::verdict, over the runs that are not superseded.                   *)
verdict ==
    CASE In("failed") # {} -> "failed"
      [] In("failed") = {} /\ In("pending") # {} -> "pending"
      [] OTHER -> "ok"

(* The runs that are shown.                                                *)
Views == IF cmd = "status_all" THEN {i \in Found : found[i].workflow \in Wanted} ELSE Selected

(* report: the jobs of the failed runs are read, and for a person those of *)
(* the pending ones; that fails if the run is not there any more.          *)
Report ==
    /\ pc = "reporting"
    /\ \E human \in BOOLEAN :
        LET shown == IF human THEN {"failed", "pending"} ELSE {"failed"}
            detailed == {i \in Views : ci_state(i) \in shown}
        IN  End(IF detailed \subseteq Existing THEN verdict ELSE "error")
    /\ UNCHANGED <<server, cmd, before, blind>>

(* One request of rerun_failed; the server refuses one that is not finished. *)
RequestRerun ==
    /\ pc = "rerunning"
    /\ \/ /\ todo = {} /\ End("reran") /\ UNCHANGED runs
       \/ \E i \in todo :
            IF i \in Existing /\ runs[i].end # None
            THEN /\ runs' = [runs EXCEPT ![i].end = None]
                 /\ Goto("rerunning") /\ todo' = todo \ {i}
            ELSE End("error") /\ UNCHANGED runs
    /\ UNCHANGED <<filtering, changes, cmd, before, blind>>

Client == ReadPage \/ Judge \/ Report \/ RequestRerun

Next ==
    \/ Appear
    \/ \E i \in Ids : Finish(i) \/ Rerun(i) \/ Delete(i)
    \/ Client \/ Fail

(* The command goes on, and a run that was queued ends: what it waits for  *)
(* is the server's, and without it the watch waits too.                    *)
Spec ==
    /\ Init /\ [][Next]_vars
    /\ WF_vars(Client) /\ \A i \in Ids : WF_vars(Finish(i))

-----------------------------------------------------------------------------
TypeOK ==
    /\ runs \in [Ids -> Run \union {None}] /\ filtering \in BOOLEAN
    /\ changes \in Nat
    /\ cmd \in Commands
    /\ pc \in {"scanning", "judging", "reporting", "rerunning", "done"}
    /\ page \in 1..RUNS_SCAN_PAGES /\ listed \in Nat
    /\ found \in [Ids -> Snapshot \union {None}] /\ capped \in BOOLEAN
    /\ waited \in Nat /\ todo \subseteq Ids
    /\ outcome \in {None, "ok", "failed", "pending", "no_runs", "nothing", "reran", "error"}
    /\ before \subseteq Ids /\ blind \in BOOLEAN

(* The newest run of w the server had when the last listing began.         *)
Newest(w) == {i \in before : /\ runs[i].workflow = w
                             /\ \A j \in before : runs[j].workflow = w => j <= i}

(* What a command says of a commit is true of the newest run of every      *)
(* workflow, as of the last listing or a newer one: green needs them all   *)
(* finished and not failed, red one that failed, and "no runs" none.       *)
VerdictIsCurrent ==
    outcome \notin {None, "error"} /\ ~blind =>
        /\ \A w \in Wanted : \A i \in Newest(w) :
             \E j \in Selected : Mine(j) /\ runs[j].workflow = w /\ j >= i
        /\ outcome = "ok" => \A i \in Selected : found[i].end \notin Failing \union {None}
        /\ outcome = "no_runs" => \A w \in Wanted : Newest(w) = {}
        /\ outcome = "nothing" => \A i \in Selected : found[i].end \notin Failing
        /\ outcome = "failed" => \E i \in Selected : Mine(i) /\ found[i].end \in Failing

(* The watch is the gate: it opens on runs that were there, of this commit *)
(* and of the workflow asked for, all of them finished and none failed.    *)
GateOpensOnRuns ==
    cmd = "watch" /\ outcome = "ok" =>
        /\ \E i \in Found : Mine(i) /\ runs[i].workflow \in Wanted
        /\ \A i \in Selected : found[i].end \notin Failing \union {None}
        /\ \A i \in Found :
             runs[i].workflow \in Wanted /\ found[i].end \in Failing =>
                 \E k \in Found : k > i /\ runs[k].workflow = runs[i].workflow

(* Every command comes to an end, the watch as well.                       *)
Terminates == <>(pc = "done")

-----------------------------------------------------------------------------
(* The inductive invariant behind the gate: what was found is a run of the *)
(* commit, a watch reports on something, and it concludes once.            *)
Truthful ==
    \A i \in Found :
        runs[i] # None /\ Mine(i) /\ runs[i].workflow = found[i].workflow

Concluding ==
    /\ pc # "done" => outcome = None
    /\ pc = "reporting" /\ cmd = "watch" => Selected # {}

IInv == TypeOK /\ Truthful /\ Concluding /\ GateOpensOnRuns

(* And the one behind the verdict, inductive with it.  Ids are given out   *)
(* in order and a run never changes its commit.                            *)
InOrder ==
    /\ \A i, j \in Ids : j < i /\ runs[i] # None => runs[j] # None
    /\ \A i \in before : runs[i] # None /\ Mine(i)

(* The rows of the pages that have been read.                              *)
Scanned == (page - 1) * RUNS_PAGE_SIZE

(* While the listing is read, unless it is blind, rows only move towards   *)
(* its end: what was there from the beginning and stands before the next   *)
(* page has been found.                                                    *)
Reading ==
    pc = "scanning" =>
        /\ listed <= Scanned
        /\ page = 1 => found = Nowhere
        /\ page > 1 /\ ~blind =>
              /\ before \subseteq Listing
              /\ \A i \in before : Newer(i) < Scanned => i \in Found
              /\ Found # {} => \E j \in Listing : Mine(j) /\ Newer(j) < Scanned

(* Once it is over all of what was there has been found.                   *)
AllRead == pc # "scanning" /\ outcome # "error" /\ ~blind => before \subseteq Found

(* The outcome is that of the runs that were found.                        *)
Judged ==
    /\ outcome = "ok" => In("failed") = {} /\ In("pending") = {}
    /\ outcome = "failed" => In("failed") # {}
    /\ outcome = "nothing" => In("failed") = {}
    /\ outcome = "no_runs" => Selected = {}

VerdictInv == InOrder /\ Reading /\ AllRead /\ Judged

=============================================================================
