--------------------------- MODULE ReleaseAssets ----------------------------
(***************************************************************************)
(* `gea release`: one release, the assets attached to it, and the commands *)
(* that create it, attach, replace, delete and download them.  A command   *)
(* is a sequence of requests, each of which may fail before or after it    *)
(* took effect, and it decides on a list it read once.                     *)
(*                                                                         *)
(* The hazards: an asset is deleted to make room for one that never comes; *)
(* two commands that overlap both attach; a broken download is a file like *)
(* any other afterwards.                                                   *)
(***************************************************************************)
EXTENDS Integers, FiniteSets

CONSTANTS Procs,     \* the invocations
          Names,     \* names of assets
          Files,     \* local files that may be given
          NameOf,    \* the name a file is attached under
          Readable,  \* the files that are there
          Commands,  \* the commands that may be given
          None

Kinds == {"create", "upload", "delete_asset", "delete", "download"}

(* files: those to attach; names: those to delete or download; tag: that   *)
(* it must exist (create), or is to be deleted too (delete).               *)
Command == [kind : Kinds, files : SUBSET Files, names : SUBSET Names,
            clobber : BOOLEAN, skip : BOOLEAN, tag : BOOLEAN]

ASSUME ReleaseAssumption ==
    /\ NameOf \in [Files -> Names] /\ Readable \subseteq Files
    /\ Commands \subseteq Command
    /\ None \notin Procs \union Files \union Names \union Command \union Int
    /\ None \notin {"ok", "usage", "error"}

VARIABLES release,  \* the id of the release, 0 when there is none
          tag,      \* whether its git tag exists
          assets,   \* what is attached to it
          issued,   \* ids given out
          disk,     \* the directory of downloads: per name an asset's id,
                    \* Broken, or None
          pc, cmd,  \* per process: its step and its command
          mem,      \* per process: what it knows and has yet to do
          outcome,  \* per process: how the command ended
          had,      \* history: the names that were ever attached
          met       \* history: per process, those it overlapped with

server == <<release, tag, assets, issued, had>>
vars == <<server, disk, pc, cmd, mem, outcome, met>>

Asset == [id : Nat, name : Names]
Attached == {a.name : a \in assets}
Active(p) == pc[p] \notin {"idle", "done"}
Broken == -1

(* release, assets: as they were read; todo: the files yet to attach;      *)
(* cleared: the one whose place has been cleared; fetch: the assets yet to *)
(* download; saving: the one whose file is being filled.                   *)
Memory == [release : Nat, assets : SUBSET Asset, todo : SUBSET Files,
           cleared : Files \union {None}, fetch : SUBSET Asset, saving : Asset \union {None}]

Blank == [release |-> 0, assets |-> {}, todo |-> {}, cleared |-> None,
          fetch |-> {}, saving |-> None]

Init ==
    /\ tag \in BOOLEAN
    /\ release \in {0, 1} /\ issued = 1
    /\ \E names \in SUBSET Names :
         /\ release = 0 => names = {}
         /\ assets = {[id |-> 1, name |-> n] : n \in names}
         /\ had = names
    /\ disk = [n \in Names |-> None]
    /\ pc = [p \in Procs |-> "idle"] /\ cmd = [p \in Procs |-> None]
    /\ mem = [p \in Procs |-> Blank]
    /\ outcome = [p \in Procs |-> None] /\ met = [p \in Procs |-> {}]

-----------------------------------------------------------------------------
End(p, how) ==
    /\ pc' = [pc EXCEPT ![p] = "done"]
    /\ outcome' = [outcome EXCEPT ![p] = how]
    /\ mem' = [mem EXCEPT ![p] = Blank]

Goto(p, step, m) ==
    /\ pc' = [pc EXCEPT ![p] = step]
    /\ mem' = [mem EXCEPT ![p] = m]
    /\ UNCHANGED outcome

(* check_readable looks at every file before anything is sent.  Downloads  *)
(* to one directory are taken one at a time.                               *)
Begin(p) ==
    /\ pc[p] = "idle"
    /\ \E c \in Commands :
        /\ c.kind = "download" => \A q \in Procs : Active(q) => cmd[q].kind # "download"
        /\ cmd' = [cmd EXCEPT ![p] = c]
        /\ IF c.files \subseteq Readable
           THEN Goto(p, IF c.kind = "create" THEN "creating" ELSE "reading", Blank)
           ELSE End(p, "usage")
    /\ met' = [q \in Procs |-> IF q = p THEN {r \in Procs : Active(r)}
                               ELSE IF Active(q) THEN met[q] \union {p} ELSE met[q]]
    /\ UNCHANGED <<server, disk>>

(* A request fails, for the client, and with it the command; or it dies.   *)
Fail(p) ==
    /\ Active(p)
    /\ End(p, "error")
    /\ UNCHANGED <<server, disk, cmd, met>>

(* create: the new release has no assets that a name could clash with.     *)
Create(p) ==
    /\ pc[p] = "creating"
    /\ IF release # 0 \/ (cmd[p].tag /\ ~tag)
       THEN End(p, "error") /\ UNCHANGED server
       ELSE /\ release' = issued + 1 /\ issued' = issued + 1 /\ tag' \in {tag, TRUE}
            /\ \/ Goto(p, "uploading", [Blank EXCEPT !.release = issued + 1, !.todo = cmd[p].files])
               \/ End(p, "error")
            /\ UNCHANGED <<assets, had>>
    /\ UNCHANGED <<disk, cmd, met>>

(* release_by_tag, which answers the assets with the release.              *)
Read(p) ==
    /\ pc[p] = "reading"
    /\ LET seen == [Blank EXCEPT !.release = release, !.assets = assets]
           wanted == {a \in assets : a.name \in cmd[p].names}
       IN  \/ release = 0 /\ End(p, "error")
           \/ /\ release # 0 /\ cmd[p].kind \in {"delete_asset", "download"}
              /\ ~(cmd[p].names \subseteq Attached) /\ End(p, "usage")
           \/ /\ release # 0 /\ cmd[p].kind = "upload"
              /\ Goto(p, "uploading", [seen EXCEPT !.todo = cmd[p].files])
           \/ /\ release # 0 /\ cmd[p].kind = "download" /\ cmd[p].names \subseteq Attached
              /\ Goto(p, "fetching", [seen EXCEPT !.fetch = wanted])
           \/ /\ release # 0 /\ cmd[p].kind \in {"delete", "delete_asset"}
              /\ cmd[p].names \subseteq Attached /\ Goto(p, "deleting", seen)
    /\ UNCHANGED <<server, disk, cmd, met>>

-----------------------------------------------------------------------------
(* upload_one.                                                             *)
OldIgnored(p, f) == {}

(* What f would be confused with, of the assets that were read.            *)
Old(p, f) == {a \in mem[p].assets : a.name = NameOf[f]}

Refuse(p) ==
    /\ pc[p] = "uploading" /\ mem[p].cleared = None /\ ~cmd[p].clobber
    /\ \E f \in mem[p].todo : Old(p, f) # {}
    /\ End(p, "usage")
    /\ UNCHANGED <<server, disk, cmd, met>>

(* The old asset goes first.  The answer may be lost, and one that is not  *)
(* there any more is an error.                                             *)
Clobber(p) ==
    /\ pc[p] = "uploading" /\ mem[p].cleared = None /\ cmd[p].clobber
    /\ \E f \in mem[p].todo : \E old \in Old(p, f) :
        IF release = mem[p].release /\ old \in assets
        THEN /\ assets' = assets \ {old}
             /\ Goto(p, "uploading", [mem[p] EXCEPT !.cleared = f]) \/ End(p, "error")
        ELSE End(p, "error") /\ UNCHANGED assets
    /\ UNCHANGED <<release, tag, issued, had, disk, cmd, met>>

IsNext(p, f) ==
    /\ f \in mem[p].todo
    /\ IF mem[p].cleared = None THEN Old(p, f) = {} ELSE mem[p].cleared = f

Arrive(f) ==
    /\ assets' = assets \union {[id |-> issued + 1, name |-> NameOf[f]]}
    /\ issued' = issued + 1 /\ had' = had \union {NameOf[f]}

GoOn(p, f) == Goto(p, "uploading", [mem[p] EXCEPT !.todo = @ \ {f}, !.cleared = None])

(* The error of an upload does not end the command.                        *)
AttachUnchecked(p) ==
    /\ pc[p] = "uploading"
    /\ \E f \in mem[p].todo :
        /\ IsNext(p, f) /\ GoOn(p, f)
        /\ \/ release = mem[p].release /\ Arrive(f)
           \/ UNCHANGED <<assets, issued, had>>
    /\ UNCHANGED <<release, tag, disk, cmd, met>>

Attach(p) ==
    /\ pc[p] = "uploading"
    /\ \E f \in mem[p].todo :
        /\ IsNext(p, f)
        /\ IF release = mem[p].release
           THEN Arrive(f) /\ (GoOn(p, f) \/ End(p, "error"))
           ELSE End(p, "error") /\ UNCHANGED <<assets, issued, had>>
    /\ UNCHANGED <<release, tag, disk, cmd, met>>

-----------------------------------------------------------------------------
(* delete_asset: one that it read under the name.                          *)
DeleteAsset(p) ==
    /\ pc[p] = "deleting" /\ cmd[p].kind = "delete_asset"
    /\ \E a \in mem[p].assets :
        /\ a.name \in cmd[p].names
        /\ IF release = mem[p].release /\ a \in assets
           THEN assets' = assets \ {a} /\ \E how \in {"ok", "error"} : End(p, how)
           ELSE End(p, "error") /\ UNCHANGED assets
    /\ UNCHANGED <<release, tag, issued, had, disk, cmd, met>>

(* delete, which takes the assets with it, and the tag in a second call.   *)
Delete(p) ==
    /\ pc[p] = "deleting" /\ cmd[p].kind = "delete"
    /\ IF release = mem[p].release
       THEN /\ release' = 0 /\ assets' = {}
            /\ \/ cmd[p].tag /\ Goto(p, "untagging", mem[p])
               \/ ~cmd[p].tag /\ End(p, "ok")
               \/ End(p, "error")
       ELSE End(p, "error") /\ UNCHANGED <<release, assets>>
    /\ UNCHANGED <<tag, issued, had, disk, cmd, met>>

DeleteTag(p) ==
    /\ pc[p] = "untagging"
    /\ tag' = FALSE
    /\ End(p, IF tag THEN "ok" ELSE "error")
    /\ UNCHANGED <<release, assets, issued, had, disk, cmd, met>>

-----------------------------------------------------------------------------
(* download: once the answer is there the file is created, and then filled *)
(* from it.                                                                *)
Fetched(p, a) == [mem[p] EXCEPT !.fetch = @ \ {a}]

Skip(p) ==
    /\ pc[p] = "fetching"
    /\ \E a \in mem[p].fetch :
        /\ disk[a.name] # None /\ ~cmd[p].clobber
        /\ IF cmd[p].skip THEN Goto(p, "fetching", Fetched(p, a)) ELSE End(p, "usage")
    /\ UNCHANGED <<server, disk, cmd, met>>

Open(p) ==
    /\ pc[p] = "fetching"
    /\ \E a \in mem[p].fetch :
        /\ disk[a.name] = None \/ cmd[p].clobber
        /\ IF a \in assets
           THEN /\ Goto(p, "writing", [Fetched(p, a) EXCEPT !.saving = a])
                /\ disk' = [disk EXCEPT ![a.name] = Broken]
           ELSE End(p, "error") /\ UNCHANGED disk
    /\ UNCHANGED <<server, cmd, met>>

WriteWith(p, content) ==
    /\ pc[p] = "writing"
    /\ disk' = [disk EXCEPT ![mem[p].saving.name] = content]
    /\ Goto(p, "fetching", [mem[p] EXCEPT !.saving = None])
    /\ UNCHANGED <<server, cmd, met>>

(* A stream that breaks off is taken for the end of the asset.             *)
WriteUnchecked(p) ==
    /\ pc[p] = "writing"
    /\ \E content \in {mem[p].saving.id, Broken} : WriteWith(p, content)

(* The end of the stream; one that breaks off fails the command, and what  *)
(* was written stays.                                                      *)
Write(p) == WriteWith(p, mem[p].saving.id)

(* Nothing is left to attach or to fetch.                                  *)
Complete(p) ==
    /\ \/ pc[p] = "uploading" /\ mem[p].todo = {}
       \/ pc[p] = "fetching" /\ mem[p].fetch = {}
    /\ End(p, "ok")
    /\ UNCHANGED <<server, disk, cmd, met>>

-----------------------------------------------------------------------------
Upload(p) == Create(p) \/ Refuse(p) \/ Clobber(p) \/ Attach(p)
Download(p) == Skip(p) \/ Open(p) \/ Write(p)
Remove(p) == DeleteAsset(p) \/ Delete(p) \/ DeleteTag(p)

Step(p) == Read(p) \/ Upload(p) \/ Download(p) \/ Remove(p) \/ Complete(p) \/ Fail(p)

Next == \E p \in Procs : Begin(p) \/ Step(p)

Spec == Init /\ [][Next]_vars

-----------------------------------------------------------------------------
Steps == {"idle", "creating", "reading", "uploading", "deleting", "untagging",
          "fetching", "writing", "done"}

TypeOK ==
    /\ release \in Nat /\ tag \in BOOLEAN /\ issued \in Nat
    /\ assets \subseteq Asset /\ had \subseteq Names
    /\ disk \in [Names -> Nat \union {Broken, None}]
    /\ pc \in [Procs -> Steps]
    /\ cmd \in [Procs -> Commands \union {None}]
    /\ \A p \in Procs : cmd[p] = None <=> pc[p] = "idle"
    /\ mem \in [Procs -> Memory]
    /\ outcome \in [Procs -> {None, "ok", "usage", "error"}]
    /\ met \in [Procs -> SUBSET Procs]

Started(p) == pc[p] # "idle"
Given(p) == {NameOf[f] : f \in cmd[p].files}

(* A name that was attached still is, unless it was deleted on purpose, or *)
(* a command that replaces it is under way or has said that it failed: no  *)
(* --clobber that succeeds, whoever it overlaps with, leaves a hole.       *)
LostOnlyByFailure ==
    \A n \in had \ Attached :
        \E p \in Procs :
            /\ Started(p)
            /\ \/ cmd[p].kind = "delete"
               \/ cmd[p].kind = "delete_asset" /\ n \in cmd[p].names
               \/ cmd[p].clobber /\ n \in Given(p) /\ outcome[p] # "ok"

(* Two assets of one name: a command was given two files of that name, or  *)
(* two commands overlapped and neither saw what the other attached.        *)
DuplicatesOnlyByOverlap ==
    \A a, b \in assets :
        a.name = b.name /\ a # b =>
            \/ \E p \in Procs : /\ Started(p)
                                /\ \E f, g \in cmd[p].files :
                                     f # g /\ NameOf[f] = a.name /\ NameOf[g] = a.name
            \/ \E p, q \in Procs : /\ Started(p) /\ Started(q) /\ p \in met[q]
                                   /\ a.name \in Given(p) \intersect Given(q)

(* A download that succeeds leaves every asset it was asked for, whole; or *)
(* it skipped what another one had broken off.                             *)
Downloaded ==
    \A p \in Procs :
        outcome[p] = "ok" /\ cmd[p].kind = "download" =>
            \A n \in cmd[p].names :
                \/ disk[n] \notin {Broken, None}
                \/ \E q \in Procs \ {p} : /\ Started(q) /\ cmd[q].kind = "download"
                                          /\ n \in cmd[q].names /\ outcome[q] # "ok"

-----------------------------------------------------------------------------
(* The inductive invariant, part by part.                                  *)

(* What a process holds, by its step.                                      *)
Phases ==
    \A p \in Procs :
        /\ pc[p] # "done" => outcome[p] = None
        /\ mem[p].cleared # None => pc[p] = "uploading" /\ mem[p].cleared \in mem[p].todo
        /\ pc[p] = "uploading" => mem[p].todo \subseteq cmd[p].files /\ mem[p].release # 0
        /\ pc[p] \in {"creating", "uploading", "untagging"} => cmd[p].kind # "download"
        /\ pc[p] \in {"fetching", "writing"} =>
              /\ cmd[p].kind = "download"
              /\ \A a \in mem[p].fetch : a.name \in cmd[p].names
        /\ pc[p] = "writing" => mem[p].saving \in Asset /\ mem[p].saving.name \in cmd[p].names

(* LostOnlyByFailure, with the moment between the deletion and the upload. *)
Excused(p, n) ==
    /\ Started(p)
    /\ \/ cmd[p].kind = "delete"
       \/ cmd[p].kind = "delete_asset" /\ n \in cmd[p].names
       \/ /\ cmd[p].clobber /\ n \in Given(p)
          /\ outcome[p] = "error" \/ (mem[p].cleared # None /\ NameOf[mem[p].cleared] = n)

HolesExcused == \A n \in had \ Attached : \E p \in Procs : Excused(p, n)

(* Ids are never given out again.                                          *)
IdsIssued ==
    /\ release = 0 => assets = {}
    /\ \A a \in assets : a.id <= issued
    /\ \A p \in Procs : \A a \in mem[p].assets : a.id <= issued

Overlapping ==
    \A p, q \in Procs : p # q /\ Active(p) /\ Active(q) => q \in met[p]

(* A second asset of a name is accounted for.                              *)
TwiceGiven(p, n) ==
    /\ Started(p)
    /\ \E f, g \in cmd[p].files : f # g /\ NameOf[f] = n /\ NameOf[g] = n

BothGiven(p, q, n) ==
    Started(p) /\ Started(q) /\ p \in met[q] /\ n \in Given(p) \intersect Given(q)

Accounted(n) ==
    \/ \E p \in Procs : TwiceGiven(p, n)
    \/ \E p, q \in Procs : BothGiven(p, q, n)

NoTwins(S) == \A a, b \in S : a.name = b.name /\ a # b => Accounted(a.name)

(* What an uploading process did not read it attached itself, or another   *)
(* one did that it overlaps with.                                          *)
NewSince(p, n) ==
    \/ \E q \in Procs : Started(q) /\ q \in met[p] /\ n \in Given(q)
    \/ \E f \in cmd[p].files \ mem[p].todo : NameOf[f] = n

TwinsAccounted ==
    /\ NoTwins(assets)
    /\ \A p \in Procs :
         /\ NoTwins(mem[p].assets)
         /\ pc[p] = "uploading" => \A a \in assets \ mem[p].assets : NewSince(p, a.name)
         /\ mem[p].cleared # None => \E a \in Old(p, mem[p].cleared) : a \notin assets

(* A broken file is that of a download under way or failed.                *)
Breaks(p, n) ==
    /\ Started(p) /\ cmd[p].kind = "download" /\ n \in cmd[p].names
    /\ outcome[p] = "error" \/ (pc[p] = "writing" /\ mem[p].saving.name = n)

FilesExcused ==
    /\ \A n \in Names : disk[n] = Broken => \E p \in Procs : Breaks(p, n)
    /\ \A p \in Procs :
         pc[p] \in {"fetching", "writing"} \/ (outcome[p] = "ok" /\ cmd[p].kind = "download") =>
             \A n \in cmd[p].names :
                 disk[n] # None \/ (Active(p) /\ \E a \in mem[p].fetch : a.name = n)

IInv ==
    /\ TypeOK /\ Phases /\ HolesExcused /\ IdsIssued
    /\ Overlapping /\ TwinsAccounted /\ FilesExcused
=============================================================================
