------------------------ MODULE ReleaseAssetsProofs -------------------------
(***************************************************************************)
(* Proofs about ReleaseAssets, for any number of invocations, names, files *)
(* and kinds of command: that no successful --clobber leaves a hole, that  *)
(* assets share a name only when commands overlap or are given two files   *)
(* of it, and that a successful download leaves whole files.               *)
(***************************************************************************)
EXTENDS ReleaseAssets, TLAPS

USE ReleaseAssumption

-----------------------------------------------------------------------------
(* Types.                                                                  *)

LEMMA BlankType == Blank \in Memory
BY DEF Blank, Memory

LEMMA EndType ==
    ASSUME TypeOK, NEW p \in Procs, NEW how \in {"ok", "usage", "error"}, End(p, how)
    PROVE  /\ pc' \in [Procs -> Steps] /\ mem' \in [Procs -> Memory]
           /\ outcome' \in [Procs -> {None, "ok", "usage", "error"}]
           /\ pc' = [pc EXCEPT ![p] = "done"]
BY BlankType DEF TypeOK, End, Steps

LEMMA GotoType ==
    ASSUME TypeOK, NEW p \in Procs, NEW step \in Steps, NEW m \in Memory, Goto(p, step, m)
    PROVE  /\ pc' \in [Procs -> Steps] /\ mem' \in [Procs -> Memory]
           /\ outcome' \in [Procs -> {None, "ok", "usage", "error"}]
           /\ pc' = [pc EXCEPT ![p] = step]
BY DEF TypeOK, Goto

LEMMA TypeInit == Init => TypeOK
<1> SUFFICES ASSUME Init PROVE TypeOK
  OBVIOUS
<1>1. assets \subseteq Asset /\ had \subseteq Names
  BY DEF Init, Asset
<1> QED
  BY <1>1, BlankType DEF Init, TypeOK, Steps

LEMMA BeginType == ASSUME TypeOK, NEW p \in Procs, Begin(p) PROVE TypeOK'
<1>1. PICK c \in Commands :
        /\ cmd' = [cmd EXCEPT ![p] = c]
        /\ IF c.files \subseteq Readable
           THEN Goto(p, IF c.kind = "create" THEN "creating" ELSE "reading", Blank)
           ELSE End(p, "usage")
  BY DEF Begin
<1>2. /\ pc' \in [Procs -> Steps] /\ mem' \in [Procs -> Memory]
      /\ outcome' \in [Procs -> {None, "ok", "usage", "error"}]
      /\ \E step \in Steps \ {"idle"} : pc' = [pc EXCEPT ![p] = step]
  <2>1. CASE c.files \subseteq Readable
    <3>1. (IF c.kind = "create" THEN "creating" ELSE "reading") \in Steps \ {"idle"}
      BY DEF Steps
    <3> QED
      BY <1>1, <2>1, <3>1, GotoType, BlankType
  <2>2. CASE ~(c.files \subseteq Readable)
    <3>1. "done" \in Steps \ {"idle"}
      BY DEF Steps
    <3> QED
      BY <1>1, <2>2, <3>1, EndType
  <2> QED
    BY <2>1, <2>2
<1>3. met' \in [Procs -> SUBSET Procs]
  BY DEF Begin, TypeOK
<1>4. c # None
  OBVIOUS
<1>5. cmd' \in [Procs -> Commands \union {None}]
  BY <1>1 DEF TypeOK
<1>6. \A q \in Procs : cmd'[q] = None <=> pc'[q] = "idle"
  BY <1>1, <1>2, <1>4 DEF TypeOK
<1> QED
  BY <1>2, <1>3, <1>5, <1>6 DEF Begin, TypeOK, server

(* What a step of an invocation under way does to its own variables.       *)
Moves(p) ==
    \/ \E how \in {"ok", "usage", "error"} : End(p, how)
    \/ \E step \in Steps \ {"idle", "done"}, m \in Memory : Goto(p, step, m)

LEMMA MovesType ==
    ASSUME TypeOK, NEW p \in Procs, pc[p] # "idle", Moves(p), UNCHANGED cmd
    PROVE  /\ pc' \in [Procs -> Steps] /\ mem' \in [Procs -> Memory]
           /\ outcome' \in [Procs -> {None, "ok", "usage", "error"}]
           /\ \A q \in Procs : cmd'[q] = None <=> pc'[q] = "idle"
<1>1. CASE \E how \in {"ok", "usage", "error"} : End(p, how)
  BY <1>1, EndType DEF TypeOK
<1>2. CASE \E step \in Steps \ {"idle", "done"}, m \in Memory : Goto(p, step, m)
  BY <1>2, GotoType DEF TypeOK
<1> QED
  BY <1>1, <1>2 DEF Moves

LEMMA StepMoves == ASSUME TypeOK, NEW p \in Procs, Step(p) PROVE Moves(p) /\ pc[p] # "idle"
<1> USE DEF Moves
<1>1. mem[p] \in Memory /\ Blank \in Memory
  BY BlankType DEF TypeOK
<1>2. CASE Create(p)
  <2>1. cmd[p].files \in SUBSET Files /\ issued + 1 \in Nat
    BY <1>2 DEF Create, TypeOK, Command
  <2>2. [Blank EXCEPT !.release = issued + 1, !.todo = cmd[p].files] \in Memory
    BY <2>1 DEF Blank, Memory
  <2> QED
    BY <1>2, <2>2 DEF Create, Steps
<1>3. CASE Refuse(p)
  BY <1>3 DEF Refuse
<1>4. CASE Clobber(p)
  <2>1. ASSUME NEW f \in mem[p].todo PROVE [mem[p] EXCEPT !.cleared = f] \in Memory
    BY <1>1, <2>1 DEF Memory
  <2> QED
    BY <1>4, <2>1 DEF Clobber, Steps
<1>5. CASE Attach(p)
  <2>1. ASSUME NEW f \in mem[p].todo
        PROVE  [mem[p] EXCEPT !.todo = @ \ {f}, !.cleared = None] \in Memory
    BY <1>1, <2>1 DEF Memory
  <2> QED
    BY <1>5, <2>1 DEF Attach, IsNext, GoOn, Steps
<1>6. CASE Read(p)
  <2>1. ASSUME NEW S \in SUBSET Files
        PROVE  [[Blank EXCEPT !.release = release, !.assets = assets] EXCEPT !.todo = S] \in Memory
    BY <2>1 DEF Blank, Memory, TypeOK
  <2>2. ASSUME NEW S \in SUBSET assets
        PROVE  [[Blank EXCEPT !.release = release, !.assets = assets] EXCEPT !.fetch = S] \in Memory
    BY <2>2 DEF Blank, Memory, TypeOK
  <2>3. [Blank EXCEPT !.release = release, !.assets = assets] \in Memory
    BY DEF Blank, Memory, TypeOK
  <2>4. cmd[p].files \in SUBSET Files
    BY <1>6 DEF Read, TypeOK, Command
  <2> QED
    BY <1>6, <2>1, <2>2, <2>3, <2>4 DEF Read, Steps
<1>7. CASE Skip(p)
  <2>1. ASSUME NEW a \in mem[p].fetch PROVE Fetched(p, a) \in Memory
    BY <1>1, <2>1 DEF Memory, Fetched
  <2> QED
    BY <1>7, <2>1 DEF Skip, Steps
<1>8. CASE Open(p)
  <2>1. ASSUME NEW a \in mem[p].fetch PROVE [Fetched(p, a) EXCEPT !.saving = a] \in Memory
    BY <1>1, <2>1 DEF Memory, Fetched
  <2> QED
    BY <1>8, <2>1 DEF Open, Steps
<1>9. CASE Write(p)
  <2>1. [mem[p] EXCEPT !.saving = None] \in Memory
    BY <1>1 DEF Memory
  <2> QED
    BY <1>9, <2>1 DEF Write, WriteWith, Steps
<1>10. CASE DeleteAsset(p) \/ DeleteTag(p) \/ Complete(p) \/ Fail(p)
  BY <1>10 DEF DeleteAsset, DeleteTag, Complete, Fail, Active
<1>11. CASE Delete(p)
  BY <1>1, <1>11 DEF Delete, Steps
<1> QED
  BY <1>2, <1>3, <1>4, <1>5, <1>6, <1>7, <1>8, <1>9, <1>10, <1>11
  DEF Step, Upload, Download, Remove

(* The variables that the invocations share.                               *)
LEMMA SharedType ==
    ASSUME TypeOK, Phases, NEW p \in Procs, Step(p)
    PROVE  /\ release' \in Nat /\ tag' \in BOOLEAN /\ issued' \in Nat
           /\ assets' \subseteq Asset /\ had' \subseteq Names
           /\ disk' \in [Names -> Nat \union {Broken, None}]
           /\ UNCHANGED <<cmd, met>>
<1>1. CASE Create(p)
  <2>1. /\ release' = release \/ release' = issued + 1
        /\ issued' = issued \/ issued' = issued + 1
        /\ UNCHANGED <<assets, had>>
    <3>1. CASE release # 0 \/ (cmd[p].tag /\ ~tag)
      BY <1>1, <3>1 DEF Create, server
    <3>2. CASE ~(release # 0 \/ (cmd[p].tag /\ ~tag))
      BY <1>1, <3>2 DEF Create
    <3> QED
      BY <3>1, <3>2
  <2>2. tag' \in {tag, TRUE}
    BY <1>1 DEF Create, server
  <2>3. tag' \in BOOLEAN
    BY <2>2 DEF TypeOK
  <2>4. release' \in Nat /\ issued' \in Nat /\ assets' \subseteq Asset /\ had' \subseteq Names
    BY <2>1 DEF TypeOK
  <2> QED
    BY <1>1, <2>3, <2>4 DEF Create, TypeOK
<1>7. CASE Delete(p)
  BY <1>7 DEF Delete, TypeOK
<1>8. CASE DeleteTag(p)
  <2>1. tag' \in BOOLEAN
    BY <1>8 DEF DeleteTag
  <2> QED
    BY <1>8, <2>1 DEF DeleteTag, TypeOK
<1>2. CASE Read(p) \/ Refuse(p) \/ Skip(p) \/ Complete(p) \/ Fail(p)
  BY <1>2 DEF Read, Refuse, Skip, Complete, Fail, TypeOK, server
<1>3. CASE Clobber(p) \/ DeleteAsset(p)
  BY <1>3 DEF Clobber, DeleteAsset, TypeOK
<1>4. CASE Attach(p)
  <2>1. PICK f \in mem[p].todo :
          Arrive(f) \/ UNCHANGED <<assets, issued, had>>
    BY <1>4 DEF Attach
  <2>2. f \in Files
    BY DEF TypeOK, Memory
  <2>3. NameOf[f] \in Names /\ issued + 1 \in Nat
    BY <2>2 DEF TypeOK
  <2>4. [id |-> issued + 1, name |-> NameOf[f]] \in Asset
    BY <2>3 DEF Asset
  <2>5. issued' \in Nat /\ assets' \subseteq Asset /\ had' \subseteq Names
    BY <2>1, <2>3, <2>4 DEF Arrive, TypeOK
  <2> QED
    BY <1>4, <2>5 DEF Attach, TypeOK
<1>5. CASE Open(p)
  BY <1>5 DEF Open, TypeOK, server
<1>6. CASE Write(p)
  <2>1. mem[p].saving.id \in Nat
    BY <1>6 DEF Write, WriteWith, Phases, Asset
  <2> QED
    BY <1>6, <2>1 DEF Write, WriteWith, TypeOK, server
<1> QED
  BY <1>1, <1>2, <1>3, <1>4, <1>5, <1>6, <1>7, <1>8 DEF Step, Upload, Download, Remove

LEMMA TypeStep == ASSUME TypeOK, Phases, NEW p \in Procs, Step(p) PROVE TypeOK'
BY SharedType, StepMoves, MovesType DEF TypeOK

-----------------------------------------------------------------------------
(* What every step leaves alone.                                           *)

LEMMA Frame ==
    ASSUME TypeOK, NEW p \in Procs, Step(p)
    PROVE  /\ \A q \in Procs \ {p} : /\ pc'[q] = pc[q] /\ mem'[q] = mem[q]
                                     /\ outcome'[q] = outcome[q]
           /\ UNCHANGED <<cmd, met>>
           /\ Active(p) /\ pc'[p] # "idle"
           /\ \/ /\ pc'[p] = "done" /\ mem'[p] = Blank
                 /\ outcome'[p] \in {"ok", "usage", "error"}
              \/ pc'[p] # "done" /\ outcome'[p] = outcome[p]
<1>1. UNCHANGED <<cmd, met>>
  <2>1. CASE Read(p) \/ Create(p) \/ Refuse(p) \/ Clobber(p) \/ Attach(p) \/ Fail(p) \/ Complete(p)
    BY <2>1 DEF Read, Create, Refuse, Clobber, Attach, Fail, Complete
  <2>2. CASE Skip(p) \/ Open(p) \/ Write(p) \/ DeleteAsset(p) \/ Delete(p) \/ DeleteTag(p)
    BY <2>2 DEF Skip, Open, Write, WriteWith, DeleteAsset, Delete, DeleteTag
  <2> QED
    BY <2>1, <2>2 DEF Step, Upload, Download, Remove
<1>2. Active(p)
  <2>1. CASE Read(p) \/ Create(p) \/ Refuse(p) \/ Clobber(p) \/ Attach(p) \/ Fail(p) \/ Complete(p)
    BY <2>1 DEF Read, Create, Refuse, Clobber, Attach, Fail, Complete, Active
  <2>2. CASE Skip(p) \/ Open(p) \/ Write(p) \/ DeleteAsset(p) \/ Delete(p) \/ DeleteTag(p)
    BY <2>2 DEF Skip, Open, Write, WriteWith, DeleteAsset, Delete, DeleteTag, Active
  <2> QED
    BY <2>1, <2>2 DEF Step, Upload, Download, Remove
<1>3. Moves(p)
  BY StepMoves
<1>4. CASE \E how \in {"ok", "usage", "error"} : End(p, how)
  BY <1>1, <1>2, <1>4 DEF End, TypeOK
<1>5. CASE \E step \in Steps \ {"idle", "done"}, m \in Memory : Goto(p, step, m)
  BY <1>1, <1>2, <1>5 DEF Goto, TypeOK
<1> QED
  BY <1>3, <1>4, <1>5 DEF Moves

LEMMA BeginFrame ==
    ASSUME TypeOK, NEW p \in Procs, Begin(p)
    PROVE  /\ \A q \in Procs \ {p} : /\ pc'[q] = pc[q] /\ mem'[q] = mem[q] /\ cmd'[q] = cmd[q]
                                     /\ outcome'[q] = outcome[q] /\ met[q] \subseteq met'[q]
           /\ UNCHANGED <<server, disk>> /\ pc[p] = "idle" /\ mem'[p] = Blank
           /\ \/ pc'[p] = "done" /\ outcome'[p] = "usage"
              \/ pc'[p] \in {"creating", "reading"} /\ outcome'[p] = outcome[p]
           /\ pc'[p] = "creating" => cmd'[p].kind = "create"
<1>1. PICK c \in Commands :
        /\ cmd' = [cmd EXCEPT ![p] = c]
        /\ IF c.files \subseteq Readable
           THEN Goto(p, IF c.kind = "create" THEN "creating" ELSE "reading", Blank)
           ELSE End(p, "usage")
  BY DEF Begin
<1>2. CASE c.files \subseteq Readable
  BY <1>1, <1>2 DEF Begin, Goto, TypeOK
<1>3. CASE ~(c.files \subseteq Readable)
  BY <1>1, <1>3 DEF Begin, End, TypeOK
<1> QED
  BY <1>2, <1>3

(* Commands that were given stay, and so does having overlapped.           *)
LEMMA Lasting ==
    ASSUME TypeOK, NEW p \in Procs, Begin(p) \/ Step(p), NEW q \in Procs, Started(q)
    PROVE  Started(q)' /\ cmd'[q] = cmd[q] /\ met[q] \subseteq met'[q]
<1>1. CASE Begin(p)
  BY <1>1, BeginFrame DEF Started
<1>2. CASE Step(p)
  BY <1>2, Frame DEF Started
<1> QED
  BY <1>1, <1>2

-----------------------------------------------------------------------------
(* Each part of IInv survives a command's start.                           *)

LEMMA InitIInv == Init => IInv
<1> SUFFICES ASSUME Init PROVE IInv
  OBVIOUS
<1>1. TypeOK
  BY TypeInit
<1>2. Phases /\ Overlapping
  BY DEF Init, Phases, Overlapping, Blank, Active
<1>3. HolesExcused
  <2>1. PICK names \in SUBSET Names :
          assets = {[id |-> 1, name |-> n] : n \in names} /\ had = names
    BY DEF Init
  <2>2. ASSUME NEW n \in names PROVE n \in Attached
    <3>1. [id |-> 1, name |-> n] \in assets
      BY <2>1
    <3> QED
      BY <3>1 DEF Attached
  <2> QED
    BY <2>1, <2>2 DEF HolesExcused
<1>4. IdsIssued
  BY DEF Init, IdsIssued, Blank
<1>5. TwinsAccounted
  BY DEF Init, TwinsAccounted, NoTwins, Blank
<1>6. FilesExcused
  BY DEF Init, FilesExcused, Broken
<1> QED
  BY <1>1, <1>2, <1>3, <1>4, <1>5, <1>6 DEF IInv

LEMMA AccountedLasts ==
    ASSUME TypeOK, NEW p \in Procs, Begin(p) \/ Step(p), NEW n, Accounted(n)
    PROVE  Accounted(n)'
<1>1. CASE \E q \in Procs : TwiceGiven(q, n)
  BY <1>1, Lasting DEF Accounted, TwiceGiven
<1>2. CASE \E q, r \in Procs : BothGiven(q, r, n)
  BY <1>2, Lasting DEF Accounted, BothGiven, Given
<1> QED
  BY <1>1, <1>2 DEF Accounted

LEMMA BeginKeeps == ASSUME IInv, NEW p \in Procs, Begin(p) PROVE IInv'
<1> USE DEF IInv
<1>1. TypeOK'
  BY BeginType
<1>2. mem'[p] = Blank /\ mem'[p].cleared = None /\ mem'[p].assets = {}
  <2>1. mem'[p] = Blank
    BY BeginFrame
  <2> QED
    BY <2>1 DEF Blank
<1>3. pc'[p] \notin {"uploading", "fetching", "writing"} /\ outcome'[p] \notin {"ok", "error"}
  <2>1. outcome[p] = None
    BY BeginFrame DEF Phases
  <2>2. None # "ok" /\ None # "error"
    OBVIOUS
  <2>3. \/ pc'[p] = "done" /\ outcome'[p] = "usage"
        \/ pc'[p] \in {"creating", "reading"} /\ outcome'[p] = outcome[p]
    BY BeginFrame
  <2> QED
    BY <2>1, <2>2, <2>3
<1>4. Phases'
  BY <1>2, <1>3, BeginFrame DEF Phases
<1>5. HolesExcused'
  <2> SUFFICES ASSUME NEW n \in had' \ Attached' PROVE \E q \in Procs : Excused(q, n)'
    BY DEF HolesExcused
  <2>1. PICK q \in Procs : Excused(q, n)
    BY BeginFrame DEF HolesExcused, Attached, server
  <2>2. q # p
    BY <2>1, BeginFrame DEF Excused, Started
  <2> QED
    BY <2>1, <2>2, BeginFrame DEF Excused, Started, Given
<1>6. IdsIssued'
  BY <1>2, BeginFrame DEF IdsIssued, server
<1>7. Overlapping'
  <2> SUFFICES ASSUME NEW q \in Procs, NEW r \in Procs, q # r, Active(q)', Active(r)'
               PROVE  r \in met'[q]
    BY DEF Overlapping
  <2>1. met' = [x \in Procs |-> IF x = p THEN {y \in Procs : Active(y)}
                                ELSE IF Active(x) THEN met[x] \union {p} ELSE met[x]]
    BY DEF Begin
  <2> QED
    BY <2>1, BeginFrame DEF Overlapping, Active
<1>8. TwinsAccounted'
  <2>1. NoTwins(assets)'
    BY BeginFrame, AccountedLasts DEF TwinsAccounted, NoTwins, server
  <2> SUFFICES ASSUME NEW q \in Procs
               PROVE  /\ NoTwins(mem[q].assets)'
                      /\ pc'[q] = "uploading" =>
                           \A a \in assets' \ mem'[q].assets : NewSince(q, a.name)'
                      /\ mem'[q].cleared # None =>
                           \E a \in Old(q, mem[q].cleared)' : a \notin assets'
    BY <2>1 DEF TwinsAccounted
  <2>2. CASE q = p
    BY <1>2, <1>3, <2>2 DEF NoTwins
  <2>3. CASE q # p
    <3>1. NoTwins(mem[q].assets)'
      BY <2>3, BeginFrame, AccountedLasts DEF TwinsAccounted, NoTwins
    <3>2. ASSUME pc'[q] = "uploading", NEW a \in assets' \ mem'[q].assets
          PROVE  NewSince(q, a.name)'
      <4>1. NewSince(q, a.name)
        BY <2>3, <3>2, BeginFrame DEF TwinsAccounted, server
      <4>2. CASE \E r \in Procs : Started(r) /\ r \in met[q] /\ a.name \in Given(r)
        <5>1. Started(q)
          BY <2>3, <3>2, BeginFrame DEF Started
        <5> QED
          BY <4>2, <5>1, Lasting DEF NewSince, Given
      <4>3. CASE \E f \in cmd[q].files \ mem[q].todo : NameOf[f] = a.name
        BY <2>3, <4>3, BeginFrame DEF NewSince
      <4> QED
        BY <4>1, <4>2, <4>3 DEF NewSince
    <3>3. mem'[q].cleared # None => \E a \in Old(q, mem[q].cleared)' : a \notin assets'
      BY <2>3, BeginFrame DEF TwinsAccounted, Old, server
    <3> QED
      BY <3>1, <3>2, <3>3
  <2> QED
    BY <2>2, <2>3
<1>9. FilesExcused'
  <2>1. ASSUME NEW n \in Names, disk'[n] = Broken PROVE \E q \in Procs : Breaks(q, n)'
    <3>1. PICK q \in Procs : Breaks(q, n)
      BY <2>1, BeginFrame DEF FilesExcused
    <3>2. q # p
      BY <3>1, BeginFrame DEF Breaks, Started
    <3> QED
      BY <3>1, <3>2, BeginFrame DEF Breaks, Started
  <2>2. ASSUME NEW q \in Procs,
               \/ pc'[q] \in {"fetching", "writing"}
               \/ outcome'[q] = "ok" /\ cmd'[q].kind = "download",
               NEW n \in cmd'[q].names
        PROVE  disk'[n] # None \/ (Active(q)' /\ \E a \in mem'[q].fetch : a.name = n)
    BY <1>3, <2>2, BeginFrame DEF FilesExcused, Active
  <2> QED
    BY <2>1, <2>2 DEF FilesExcused
<1> QED
  BY <1>1, <1>4, <1>5, <1>6, <1>7, <1>8, <1>9

-----------------------------------------------------------------------------
(* Each part of IInv survives a step of a command under way.               *)

LEMMA StepPhases == ASSUME TypeOK, Phases, NEW p \in Procs, Step(p) PROVE Phases'
<1> SUFFICES ASSUME NEW q \in Procs
             PROVE  /\ pc'[q] # "done" => outcome'[q] = None
                    /\ mem'[q].cleared # None =>
                         pc'[q] = "uploading" /\ mem'[q].cleared \in mem'[q].todo
                    /\ pc'[q] = "uploading" =>
                         mem'[q].todo \subseteq cmd'[q].files /\ mem'[q].release # 0
                    /\ pc'[q] \in {"creating", "uploading", "untagging"} =>
                         cmd'[q].kind # "download"
                    /\ pc'[q] \in {"fetching", "writing"} =>
                         /\ cmd'[q].kind = "download"
                         /\ \A a \in mem'[q].fetch : a.name \in cmd'[q].names
                    /\ pc'[q] = "writing" =>
                         mem'[q].saving \in Asset /\ mem'[q].saving.name \in cmd'[q].names
  BY DEF Phases
<1>1. CASE q # p
  BY <1>1, Frame DEF Phases
<1>2. CASE q = p /\ pc'[p] = "done"
  <2>1. mem'[p] = Blank
    BY <1>2, Frame, BlankType DEF TypeOK, Phases, Active
  <2>2. Blank.cleared = None
    BY DEF Blank
  <2> QED
    BY <1>2, <2>1, <2>2
<1>3. CASE q = p /\ pc'[p] # "done"
  <2>1. cmd' = cmd /\ outcome'[p] = None
    BY <1>3, Frame DEF Phases, Active
  <2>2. CASE Create(p)
    <3>1. Goto(p, "uploading", [Blank EXCEPT !.release = issued + 1, !.todo = cmd[p].files])
      BY <1>3, <2>2 DEF Create, End, TypeOK
    <3>2. pc'[p] = "uploading" /\ mem'[p] = [Blank EXCEPT !.release = issued + 1, !.todo = cmd[p].files]
      BY <3>1 DEF Goto, TypeOK
    <3> QED
      BY <1>3, <2>1, <2>2, <3>2 DEF Create, Blank, Phases, TypeOK
  <2>3. CASE Read(p)
    <3> DEFINE seen == [Blank EXCEPT !.release = release, !.assets = assets]
    <3>1. CASE /\ Goto(p, "uploading", [seen EXCEPT !.todo = cmd[p].files])
               /\ cmd[p].kind = "upload" /\ release # 0
      BY <1>3, <2>1, <2>3, <3>1 DEF Goto, Blank, TypeOK
    <3>2. CASE /\ Goto(p, "fetching", [seen EXCEPT !.fetch = {a \in assets : a.name \in cmd[p].names}])
               /\ cmd[p].kind = "download"
      BY <1>3, <2>1, <3>2 DEF Goto, Blank, TypeOK
    <3>3. CASE Goto(p, "deleting", seen)
      BY <1>3, <2>1, <3>3 DEF Goto, Blank, TypeOK
    <3> QED
      BY <1>3, <2>3, <3>1, <3>2, <3>3 DEF Read, End, TypeOK
  <2>4. CASE Clobber(p)
    <3>1. PICK f \in mem[p].todo : Goto(p, "uploading", [mem[p] EXCEPT !.cleared = f])
      BY <1>3, <2>4 DEF Clobber, End, TypeOK
    <3>2. pc'[p] = "uploading" /\ mem'[p] = [mem[p] EXCEPT !.cleared = f]
      BY <3>1 DEF Goto, TypeOK
    <3>3. mem'[p].todo = mem[p].todo /\ mem'[p].release = mem[p].release /\ mem'[p].cleared = f
      BY <3>2 DEF TypeOK, Memory
    <3> QED
      BY <1>3, <2>1, <2>4, <3>2, <3>3 DEF Clobber, Phases
  <2>5. CASE Attach(p)
    <3>1. PICK f \in mem[p].todo : GoOn(p, f)
      BY <1>3, <2>5 DEF Attach, End, TypeOK
    <3>2. /\ pc'[p] = "uploading"
          /\ mem'[p] = [mem[p] EXCEPT !.todo = @ \ {f}, !.cleared = None]
      BY <3>1 DEF GoOn, Goto, TypeOK
    <3>3. /\ mem'[p].todo = mem[p].todo \ {f} /\ mem'[p].release = mem[p].release
          /\ mem'[p].cleared = None
      BY <3>2 DEF TypeOK, Memory
    <3> QED
      BY <1>3, <2>1, <2>5, <3>2, <3>3 DEF Attach, Phases
  <2>6. CASE Delete(p)
    <3>1. Goto(p, "untagging", mem[p])
      BY <1>3, <2>6 DEF Delete, End, TypeOK
    <3> QED
      BY <1>3, <2>1, <2>6, <3>1 DEF Delete, Goto, Phases, TypeOK
  <2>7. CASE Skip(p)
    <3>1. PICK a \in mem[p].fetch : Goto(p, "fetching", Fetched(p, a))
      BY <1>3, <2>7 DEF Skip, End, TypeOK
    <3>2. pc'[p] = "fetching" /\ mem'[p] = [mem[p] EXCEPT !.fetch = @ \ {a}]
      BY <3>1 DEF Goto, Fetched, TypeOK
    <3>3. mem'[p].fetch = mem[p].fetch \ {a} /\ mem'[p].cleared = mem[p].cleared
      BY <3>2 DEF TypeOK, Memory
    <3> QED
      BY <1>3, <2>1, <2>7, <3>2, <3>3 DEF Skip, Phases
  <2>8. CASE Open(p)
    <3>1. PICK a \in mem[p].fetch : Goto(p, "writing", [Fetched(p, a) EXCEPT !.saving = a])
      BY <1>3, <2>8 DEF Open, End, TypeOK
    <3>2. /\ pc'[p] = "writing"
          /\ mem'[p] = [[mem[p] EXCEPT !.fetch = @ \ {a}] EXCEPT !.saving = a]
      BY <3>1 DEF Goto, Fetched, TypeOK
    <3>3. /\ mem'[p].fetch = mem[p].fetch \ {a} /\ mem'[p].cleared = mem[p].cleared
          /\ mem'[p].saving = a /\ a \in Asset
      BY <3>2 DEF TypeOK, Memory
    <3> QED
      BY <1>3, <2>1, <2>8, <3>2, <3>3 DEF Open, Phases
  <2>9. CASE Write(p)
    <3>1. pc'[p] = "fetching" /\ mem'[p] = [mem[p] EXCEPT !.saving = None]
      BY <2>9 DEF Write, WriteWith, Goto, TypeOK
    <3>2. mem'[p].fetch = mem[p].fetch /\ mem'[p].cleared = mem[p].cleared
      BY <3>1 DEF TypeOK, Memory
    <3> QED
      BY <1>3, <2>1, <2>9, <3>1, <3>2 DEF Write, WriteWith, Phases
  <2>10. CASE Refuse(p) \/ DeleteAsset(p) \/ DeleteTag(p) \/ Complete(p) \/ Fail(p)
    BY <1>3, <2>10 DEF Refuse, DeleteAsset, DeleteTag, Complete, Fail, End, TypeOK
  <2> QED
    BY <2>2, <2>3, <2>4, <2>5, <2>6, <2>7, <2>8, <2>9, <2>10 DEF Step, Upload, Download, Remove
<1> QED
  BY <1>1, <1>2, <1>3

LEMMA StepHoles == ASSUME IInv, NEW p \in Procs, Step(p) PROVE HolesExcused'
<1> USE DEF IInv
<1> SUFFICES ASSUME NEW n \in had' \ Attached' PROVE \E q \in Procs : Excused(q, n)'
  BY DEF HolesExcused
<1>1. CASE n \in had \ Attached
  <2>1. PICK q \in Procs : Excused(q, n)
    BY <1>1 DEF HolesExcused
  <2> DEFINE removes == \/ cmd[q].kind = "delete"
                        \/ cmd[q].kind = "delete_asset" /\ n \in cmd[q].names
  <2>2. CASE q # p \/ removes
    <3>1. Started(q)' /\ cmd'[q] = cmd[q]
      BY <2>1, Lasting DEF Excused
    <3>2. q # p => mem'[q] = mem[q] /\ outcome'[q] = outcome[q]
      BY Frame
    <3> QED
      BY <2>1, <2>2, <3>1, <3>2 DEF Excused, Given
  <2>3. CASE q = p /\ ~removes
    <3>1. /\ cmd[p].clobber /\ n \in Given(p) /\ pc[p] = "uploading"
          /\ mem[p].cleared # None /\ NameOf[mem[p].cleared] = n /\ mem[p].cleared \in mem[p].todo
      BY <2>1, <2>3, Frame DEF Excused, Phases, Active
    <3>2. CASE Attach(p)
      <4>1. PICK f \in mem[p].todo :
              /\ mem[p].cleared = f
              /\ IF release = mem[p].release
                 THEN Arrive(f)
                 ELSE End(p, "error")
        BY <3>1, <3>2 DEF Attach, IsNext
      <4>2. CASE release = mem[p].release
        <5>1. [id |-> issued + 1, name |-> n] \in assets'
          BY <3>1, <4>1, <4>2 DEF Arrive
        <5> QED
          BY <5>1 DEF Attached
      <4>3. CASE release # mem[p].release
        <5>1. outcome'[p] = "error"
          BY <4>1, <4>3 DEF End, TypeOK
        <5> QED
          BY <3>1, <5>1, Frame DEF Excused, Started, Given
      <4> QED
        BY <4>2, <4>3
    <3>3. CASE Fail(p)
      <4>1. outcome'[p] = "error"
        BY <3>3 DEF Fail, End, TypeOK
      <4> QED
        BY <3>1, <4>1, Frame DEF Excused, Started, Given
    <3>4. ~(Read(p) \/ Create(p) \/ Refuse(p) \/ Clobber(p) \/ Complete(p))
      BY <3>1 DEF Read, Create, Refuse, Clobber, Complete
    <3>5. ~(Download(p) \/ Remove(p))
      BY <3>1 DEF Download, Remove, Skip, Open, Write, WriteWith, DeleteAsset, Delete, DeleteTag
    <3> QED
      BY <3>2, <3>3, <3>4, <3>5 DEF Step, Upload
  <2> QED
    BY <2>2, <2>3
<1>2. CASE n \notin had \ Attached
  <2>1. CASE Clobber(p)
    <3>1. PICK f \in mem[p].todo : \E old \in Old(p, f) :
            IF release = mem[p].release /\ old \in assets
            THEN /\ assets' = assets \ {old}
                 /\ Goto(p, "uploading", [mem[p] EXCEPT !.cleared = f]) \/ End(p, "error")
            ELSE UNCHANGED assets
      BY <2>1 DEF Clobber
    <3>2. n = NameOf[f] /\ had' = had
      BY <1>2, <2>1, <3>1 DEF Clobber, Attached, Old
    <3>3. f # None /\ f \in cmd[p].files
      BY <2>1 DEF Clobber, Phases, TypeOK, Memory
    <3>4. mem'[p].cleared = f \/ outcome'[p] = "error"
      <4>1. CASE Goto(p, "uploading", [mem[p] EXCEPT !.cleared = f])
        <5>1. mem'[p] = [mem[p] EXCEPT !.cleared = f]
          BY <4>1 DEF Goto, TypeOK
        <5> QED
          BY <5>1 DEF TypeOK, Memory
      <4>2. CASE End(p, "error")
        BY <4>2 DEF End, TypeOK
      <4>3. CASE UNCHANGED assets
        BY <1>2, <3>2, <4>3 DEF Attached
      <4> QED
        BY <3>1, <4>1, <4>2, <4>3
    <3>5. Started(p)' /\ cmd' = cmd /\ cmd[p].clobber
      BY <2>1, Frame DEF Clobber, Started
    <3>6. n \in Given(p)'
      BY <3>2, <3>3, <3>5 DEF Given
    <3> QED
      BY <3>2, <3>3, <3>4, <3>5, <3>6 DEF Excused
  <2>2. CASE DeleteAsset(p)
    <3>1. PICK a \in mem[p].assets :
            a.name \in cmd[p].names /\ (assets' = assets \ {a} \/ assets' = assets)
      BY <2>2 DEF DeleteAsset
    <3>2. n = a.name
      BY <1>2, <2>2, <3>1 DEF DeleteAsset, Attached
    <3> QED
      BY <2>2, <3>1, <3>2, Frame DEF DeleteAsset, Excused, Started
  <2>3. CASE Delete(p)
    BY <2>3, Frame DEF Delete, Excused, Started
  <2>4. CASE Attach(p)
    <3>1. PICK f \in mem[p].todo : Arrive(f) \/ UNCHANGED <<assets, issued, had>>
      BY <2>4 DEF Attach
    <3>2. CASE Arrive(f)
      <4>1. [id |-> issued + 1, name |-> NameOf[f]] \in assets' /\ assets \subseteq assets'
        BY <3>2 DEF Arrive
      <4>2. NameOf[f] \in Attached' /\ Attached \subseteq Attached'
        BY <4>1 DEF Attached
      <4> QED
        BY <1>2, <3>2, <4>2 DEF Arrive
    <3>3. CASE UNCHANGED <<assets, issued, had>>
      BY <1>2, <3>3 DEF Attached
    <3> QED
      BY <3>1, <3>2, <3>3
  <2>5. CASE UNCHANGED <<assets, had>>
    BY <1>2, <2>5 DEF Attached
  <2>6. Create(p) \/ Read(p) \/ Refuse(p) \/ Complete(p) \/ Fail(p) => UNCHANGED <<assets, had>>
    BY DEF Create, Read, Refuse, Complete, Fail, server
  <2>7. Download(p) \/ DeleteTag(p) => UNCHANGED <<assets, had>>
    BY DEF Download, Skip, Open, Write, WriteWith, DeleteTag, server
  <2> QED
    BY <2>1, <2>2, <2>3, <2>4, <2>5, <2>6, <2>7 DEF Step, Upload, Remove
<1> QED
  BY <1>1, <1>2

(* An asset is added by Attach only, to a release that is there.           *)
LEMMA AssetsStep ==
    ASSUME IInv, NEW p \in Procs, Step(p)
    PROVE  \/ assets' \subseteq assets
           \/ \E f \in mem[p].todo :
                /\ pc[p] = "uploading" /\ IsNext(p, f)
                /\ GoOn(p, f) \/ End(p, "error")
                /\ UNCHANGED release /\ release # 0 /\ issued' = issued + 1
                /\ assets' = assets \union {[id |-> issued + 1, name |-> NameOf[f]]}
<1> USE DEF IInv
<1>1. CASE Attach(p)
  <2>1. PICK f \in mem[p].todo :
          /\ IsNext(p, f)
          /\ \/ release = mem[p].release /\ Arrive(f) /\ (GoOn(p, f) \/ End(p, "error"))
             \/ UNCHANGED assets
    BY <1>1 DEF Attach
  <2>2. pc[p] = "uploading" /\ mem[p].release # 0 /\ UNCHANGED release
    BY <1>1 DEF Attach, Phases
  <2> QED
    BY <2>1, <2>2 DEF Arrive
<1>2. CASE Read(p) \/ Create(p) \/ Refuse(p) \/ Complete(p) \/ Fail(p)
  BY <1>2 DEF Read, Create, Refuse, Complete, Fail, server
<1>3. CASE Clobber(p) \/ DeleteAsset(p) \/ Delete(p)
  BY <1>3 DEF Clobber, DeleteAsset, Delete
<1>4. CASE Download(p) \/ DeleteTag(p)
  BY <1>4 DEF Download, Skip, Open, Write, WriteWith, DeleteTag, server
<1> QED
  BY <1>1, <1>2, <1>3, <1>4 DEF Step, Upload, Remove

(* The list of assets is read once.                                        *)
LEMMA SnapshotStep ==
    ASSUME IInv, NEW p \in Procs, Step(p)
    PROVE  \/ mem'[p].assets = mem[p].assets \/ mem'[p].assets = {}
           \/ mem'[p].assets = assets /\ UNCHANGED assets
<1> USE DEF IInv
<1>1. CASE pc'[p] = "done"
  <2>1. mem'[p] = Blank
    BY <1>1, Frame DEF Phases, Active
  <2> QED
    BY <2>1 DEF Blank
<1>2. CASE pc'[p] # "done"
  <2>1. CASE Create(p)
    <3>1. \E m \in {[Blank EXCEPT !.release = issued + 1, !.todo = cmd[p].files]} :
            mem' = [mem EXCEPT ![p] = m]
      BY <1>2, <2>1 DEF Create, Goto, End, TypeOK
    <3> QED
      BY <3>1 DEF TypeOK, Blank
  <2>2. CASE Read(p)
    <3> DEFINE seen == [Blank EXCEPT !.release = release, !.assets = assets]
    <3>1. \/ Goto(p, "deleting", seen) \/ Goto(p, "uploading", [seen EXCEPT !.todo = cmd[p].files])
          \/ Goto(p, "fetching", [seen EXCEPT !.fetch = {a \in assets : a.name \in cmd[p].names}])
          \/ \E how \in {"usage", "error"} : End(p, how)
      BY <2>2 DEF Read
    <3>2. UNCHANGED assets
      BY <2>2 DEF Read, server
    <3>3. seen.assets = assets /\ DOMAIN seen = DOMAIN Blank
      BY DEF Blank
    <3>4. CASE Goto(p, "deleting", seen)
      BY <3>2, <3>3, <3>4 DEF Goto, TypeOK
    <3>5. CASE Goto(p, "uploading", [seen EXCEPT !.todo = cmd[p].files])
      BY <3>2, <3>3, <3>5 DEF Goto, TypeOK, Blank
    <3>6. CASE Goto(p, "fetching", [seen EXCEPT !.fetch = {a \in assets : a.name \in cmd[p].names}])
      BY <3>2, <3>3, <3>6 DEF Goto, TypeOK, Blank
    <3> QED
      BY <1>2, <3>1, <3>4, <3>5, <3>6 DEF End, TypeOK
  <2>3. CASE Clobber(p)
    <3>1. PICK f \in mem[p].todo : mem' = [mem EXCEPT ![p] = [mem[p] EXCEPT !.cleared = f]]
      BY <1>2, <2>3 DEF Clobber, Goto, End, TypeOK
    <3> QED
      BY <3>1 DEF TypeOK, Memory
  <2>4. CASE Attach(p)
    <3>1. PICK f \in mem[p].todo :
            mem' = [mem EXCEPT ![p] = [mem[p] EXCEPT !.todo = @ \ {f}, !.cleared = None]]
      BY <1>2, <2>4 DEF Attach, GoOn, Goto, End, TypeOK
    <3> QED
      BY <3>1 DEF TypeOK, Memory
  <2>5. CASE Delete(p)
    BY <1>2, <2>5 DEF Delete, Goto, End, TypeOK
  <2>6. CASE Skip(p) \/ Open(p)
    <3>1. PICK a \in mem[p].fetch :
            \/ Goto(p, "fetching", Fetched(p, a)) \/ End(p, "usage") \/ End(p, "error")
            \/ Goto(p, "writing", [Fetched(p, a) EXCEPT !.saving = a])
      BY <2>6 DEF Skip, Open
    <3>2. CASE Goto(p, "fetching", Fetched(p, a))
      BY <3>2 DEF Goto, Fetched, TypeOK, Memory
    <3>3. CASE Goto(p, "writing", [Fetched(p, a) EXCEPT !.saving = a])
      BY <3>3 DEF Goto, Fetched, TypeOK, Memory
    <3> QED
      BY <1>2, <3>1, <3>2, <3>3 DEF End, TypeOK
  <2>7. CASE Write(p)
    <3>1. mem' = [mem EXCEPT ![p] = [mem[p] EXCEPT !.saving = None]]
      BY <2>7 DEF Write, WriteWith, Goto
    <3> QED
      BY <3>1 DEF TypeOK, Memory
  <2>8. CASE Refuse(p) \/ DeleteAsset(p) \/ DeleteTag(p) \/ Complete(p) \/ Fail(p)
    BY <1>2, <2>8 DEF Refuse, DeleteAsset, DeleteTag, Complete, Fail, End, TypeOK
  <2> QED
    BY <2>1, <2>2, <2>3, <2>4, <2>5, <2>6, <2>7, <2>8 DEF Step, Upload, Download, Remove
<1> QED
  BY <1>1, <1>2

LEMMA StepIds == ASSUME IInv, NEW p \in Procs, Step(p) PROVE IdsIssued'
<1> USE DEF IInv
<1>1. issued' \in Nat /\ issued \in Nat /\ issued' >= issued
  <2>1. issued' = issued \/ issued' = issued + 1
    <3>1. CASE Create(p)
      BY <3>1 DEF Create, server
    <3>2. CASE Attach(p)
      BY <3>2 DEF Attach, Arrive
    <3>3. CASE Clobber(p) \/ Remove(p)
      BY <3>3 DEF Clobber, Remove, DeleteAsset, Delete, DeleteTag
    <3>4. CASE Read(p) \/ Refuse(p) \/ Complete(p) \/ Fail(p) \/ Download(p)
      BY <3>4 DEF Read, Refuse, Complete, Fail, Download, Skip, Open, Write, WriteWith, server
    <3> QED
      BY <3>1, <3>2, <3>3, <3>4 DEF Step, Upload
  <2> QED
    BY <2>1 DEF TypeOK
<1>2. ASSUME NEW a \in assets' PROVE a.id <= issued'
  <2>1. CASE a \in assets
    <3>1. a.id \in Nat /\ a.id <= issued
      BY <2>1 DEF TypeOK, Asset, IdsIssued
    <3> QED
      BY <1>1, <3>1
  <2>2. CASE a \notin assets
    BY <1>1, <1>2, <2>2, AssetsStep
  <2> QED
    BY <2>1, <2>2
<1>3. ASSUME NEW q \in Procs, NEW a \in mem'[q].assets PROVE a.id <= issued'
  <2>1. CASE q # p \/ mem'[p].assets = mem[p].assets
    <3>1. a \in mem[q].assets
      BY <1>3, <2>1, Frame
    <3>2. a.id \in Nat /\ a.id <= issued
      BY <3>1 DEF TypeOK, Memory, Asset, IdsIssued
    <3> QED
      BY <1>1, <3>2
  <2>2. CASE q = p /\ mem'[p].assets = assets /\ UNCHANGED assets
    BY <1>2, <1>3, <2>2
  <2>3. CASE q = p /\ mem'[p].assets = {}
    BY <1>3, <2>3
  <2> QED
    BY <2>1, <2>2, <2>3, SnapshotStep
<1>4. release' = 0 => assets' = {}
  <2>1. CASE Create(p)
    BY <2>1 DEF Create, IdsIssued, TypeOK, server
  <2>2. CASE Delete(p)
    BY <2>2 DEF Delete, IdsIssued
  <2>3. CASE UNCHANGED release
    BY <2>3, AssetsStep DEF IdsIssued
  <2>4. CASE Read(p) \/ Refuse(p) \/ Complete(p) \/ Fail(p) \/ Download(p)
    BY <2>4, <2>3 DEF Read, Refuse, Complete, Fail, Download, Skip, Open, Write, WriteWith, server
  <2>5. CASE Clobber(p) \/ Attach(p) \/ DeleteAsset(p) \/ DeleteTag(p)
    BY <2>5, <2>3 DEF Clobber, Attach, DeleteAsset, DeleteTag
  <2> QED
    BY <2>1, <2>2, <2>4, <2>5 DEF Step, Upload, Remove
<1> QED
  BY <1>2, <1>3, <1>4 DEF IdsIssued

LEMMA StepOverlapping == ASSUME IInv, NEW p \in Procs, Step(p) PROVE Overlapping'
BY Frame DEF IInv, Overlapping, Active

(* What a file would be confused with when its turn has come was attached  *)
(* after the list was read, or is one of two that the list had.            *)
LEMMA NewTwin ==
    ASSUME IInv, NEW p \in Procs, pc[p] = "uploading", NEW f \in mem[p].todo, IsNext(p, f),
           NEW b \in assets, b.name = NameOf[f]
    PROVE  Accounted(NameOf[f])
<1> USE DEF IInv
<1>1. Started(p) /\ f \in cmd[p].files
  BY DEF Started, Phases
<1>2. CASE b \in mem[p].assets
  <2>1. mem[p].cleared = f /\ f # None
    BY <1>2 DEF IsNext, Old, TypeOK, Memory
  <2>2. PICK old \in Old(p, f) : old \notin assets
    BY <2>1 DEF TwinsAccounted
  <2> QED
    BY <1>2, <2>2 DEF Old, TwinsAccounted, NoTwins
<1>3. CASE b \notin mem[p].assets
  <2>1. NewSince(p, b.name)
    BY <1>3 DEF TwinsAccounted
  <2>2. CASE \E q \in Procs : Started(q) /\ q \in met[p] /\ NameOf[f] \in Given(q)
    BY <1>1, <2>2 DEF Accounted, BothGiven, Given
  <2>3. CASE \E g \in cmd[p].files \ mem[p].todo : NameOf[g] = NameOf[f]
    BY <1>1, <2>3 DEF Accounted, TwiceGiven
  <2> QED
    BY <2>1, <2>2, <2>3 DEF NewSince
<1> QED
  BY <1>2, <1>3

LEMMA StepTwins == ASSUME IInv, NEW p \in Procs, Step(p) PROVE TwinsAccounted'
<1> USE DEF IInv
<1>1. NoTwins(assets)'
  <2> SUFFICES ASSUME NEW a \in assets', NEW b \in assets', a.name = b.name, a # b
               PROVE  Accounted(a.name)
    BY AccountedLasts DEF NoTwins
  <2>1. CASE a \in assets /\ b \in assets
    BY <2>1 DEF TwinsAccounted, NoTwins
  <2>2. CASE ~(a \in assets /\ b \in assets)
    <3>1. PICK f \in mem[p].todo :
            /\ pc[p] = "uploading" /\ IsNext(p, f)
            /\ assets' = assets \union {[id |-> issued + 1, name |-> NameOf[f]]}
      BY <2>2, AssetsStep
    <3>2. CASE a \in assets
      BY <2>2, <3>1, <3>2, NewTwin
    <3>3. CASE a \notin assets
      <4>1. b \in assets /\ a.name = NameOf[f]
        BY <3>1, <3>3
      <4> QED
        BY <3>1, <4>1, NewTwin
    <3> QED
      BY <3>2, <3>3
  <2> QED
    BY <2>1, <2>2
<1> SUFFICES ASSUME NEW q \in Procs
             PROVE  /\ NoTwins(mem[q].assets)'
                    /\ pc'[q] = "uploading" =>
                         \A a \in assets' \ mem'[q].assets : NewSince(q, a.name)'
                    /\ mem'[q].cleared # None =>
                         \E a \in Old(q, mem[q].cleared)' : a \notin assets'
  BY <1>1 DEF TwinsAccounted
<1>2. NoTwins(mem[q].assets)'
  <2>1. CASE mem'[q].assets = mem[q].assets
    BY <2>1, AccountedLasts DEF TwinsAccounted, NoTwins
  <2>2. CASE mem'[q].assets = {}
    BY <2>2 DEF NoTwins
  <2>3. CASE mem'[q].assets = assets
    BY <2>3, AccountedLasts DEF TwinsAccounted, NoTwins
  <2>4. q # p => mem'[q] = mem[q]
    BY Frame
  <2> QED
    BY <2>1, <2>2, <2>3, <2>4, SnapshotStep
<1>3. ASSUME pc'[q] = "uploading", NEW a \in assets' \ mem'[q].assets PROVE NewSince(q, a.name)'
  <2>1. CASE q # p /\ a \in assets
    <3>1. pc[q] = "uploading" /\ mem'[q] = mem[q] /\ cmd' = cmd /\ met' = met
      BY <1>3, <2>1, Frame
    <3>2. NewSince(q, a.name)
      BY <1>3, <2>1, <3>1 DEF TwinsAccounted
    <3> QED
      BY <3>1, <3>2, Lasting DEF NewSince, Given
  <2>2. CASE q # p /\ a \notin assets
    <3>1. PICK f \in mem[p].todo :
            /\ pc[p] = "uploading"
            /\ assets' = assets \union {[id |-> issued + 1, name |-> NameOf[f]]}
      BY <1>3, <2>2, AssetsStep
    <3>2. a.name = NameOf[f] /\ f \in cmd[p].files
      BY <1>3, <2>2, <3>1 DEF Phases
    <3>3. pc[q] = "uploading" /\ cmd' = cmd /\ met' = met /\ Started(p)'
      BY <1>3, <2>2, Frame DEF Started
    <3>4. p \in met'[q]
      BY <2>2, <3>1, <3>3 DEF Overlapping, Active
    <3> QED
      BY <3>2, <3>3, <3>4 DEF NewSince, Given
  <2>3. CASE q = p /\ Attach(p)
    <3>1. PICK f \in mem[p].todo :
            /\ GoOn(p, f)
            /\ \/ assets' = assets \union {[id |-> issued + 1, name |-> NameOf[f]]}
               \/ UNCHANGED assets
      BY <1>3, <2>3 DEF Attach, Arrive, End, TypeOK
    <3>2. mem'[p] = [mem[p] EXCEPT !.todo = @ \ {f}, !.cleared = None]
      BY <3>1 DEF GoOn, Goto, TypeOK
    <3>3. mem'[p].todo = mem[p].todo \ {f} /\ mem'[p].assets = mem[p].assets
      BY <3>2 DEF TypeOK, Memory
    <3>4. cmd' = cmd /\ met' = met /\ pc[p] = "uploading" /\ f \in cmd[p].files
      BY <2>3, Frame DEF Attach, Phases
    <3>5. CASE a \in assets
      <4>1. NewSince(p, a.name)
        BY <1>3, <2>3, <3>3, <3>4, <3>5 DEF TwinsAccounted
      <4> QED
        BY <2>3, <3>3, <3>4, <4>1, Lasting DEF NewSince, Given
    <3>6. CASE a \notin assets
      <4>1. a.name = NameOf[f]
        BY <1>3, <3>1, <3>6
      <4> QED
        BY <2>3, <3>3, <3>4, <4>1 DEF NewSince
    <3> QED
      BY <3>5, <3>6
  <2>4. CASE q = p /\ Clobber(p)
    <3>1. PICK f \in mem[p].todo : Goto(p, "uploading", [mem[p] EXCEPT !.cleared = f])
      BY <1>3, <2>4 DEF Clobber, End, TypeOK
    <3>2. mem'[p] = [mem[p] EXCEPT !.cleared = f]
      BY <3>1 DEF Goto, TypeOK
    <3>3. mem'[p].todo = mem[p].todo /\ mem'[p].assets = mem[p].assets
      BY <3>2 DEF TypeOK, Memory
    <3>4. cmd' = cmd /\ met' = met /\ pc[p] = "uploading" /\ a \in assets
      BY <1>3, <2>4, Frame DEF Clobber
    <3>5. NewSince(p, a.name)
      BY <1>3, <2>4, <3>3, <3>4 DEF TwinsAccounted
    <3> QED
      BY <2>4, <3>3, <3>4, <3>5, Lasting DEF NewSince, Given
  <2>5. CASE q = p /\ Create(p)
    <3>1. assets' = {}
      BY <1>3, <2>5 DEF Create, End, IdsIssued, TypeOK
    <3> QED
      BY <1>3, <3>1
  <2>6. CASE q = p /\ Read(p)
    <3> DEFINE seen == [Blank EXCEPT !.release = release, !.assets = assets]
    <3>1. assets' = assets
      BY <2>6 DEF Read, server
    <3>2. Goto(p, "uploading", [seen EXCEPT !.todo = cmd[p].files])
      BY <1>3, <2>6 DEF Read, Goto, End, TypeOK
    <3>3. mem'[p].assets = assets
      BY <3>2 DEF Goto, Blank, TypeOK
    <3> QED
      BY <1>3, <2>6, <3>1, <3>3
  <2>7. q = p => ~(Refuse(p) \/ Complete(p) \/ Fail(p) \/ Download(p) \/ Remove(p))
    BY <1>3 DEF Refuse, Complete, Fail, Download, Skip, Open, Write, WriteWith, Remove,
                DeleteAsset, Delete, DeleteTag, End, Goto, TypeOK
  <2> QED
    BY <2>1, <2>2, <2>3, <2>4, <2>5, <2>6, <2>7 DEF Step, Upload
<1>4. ASSUME mem'[q].cleared # None PROVE \E a \in Old(q, mem[q].cleared)' : a \notin assets'
  <2>1. pc'[q] = "uploading" /\ mem'[q].cleared \in mem'[q].todo
    BY <1>4, StepPhases DEF Phases
  <2>2. CASE q # p
    <3>1. mem'[q] = mem[q]
      BY <2>2, Frame
    <3>2. PICK a \in Old(q, mem[q].cleared) : a \notin assets
      BY <1>4, <3>1 DEF TwinsAccounted
    <3>3. a.id <= issued /\ a.id \in Nat
      BY <3>2 DEF Old, IdsIssued, TypeOK, Memory, Asset
    <3>4. a \notin assets'
      <4>1. a # [id |-> issued + 1, name |-> a.name]
        BY <3>3 DEF TypeOK
      <4> QED
        BY <3>2, <3>3, <4>1, AssetsStep DEF TypeOK
    <3> QED
      BY <3>1, <3>2, <3>4 DEF Old
  <2>3. CASE q = p /\ Clobber(p)
    <3>1. PICK f \in mem[p].todo : \E old \in Old(p, f) :
            /\ assets' = assets \ {old}
            /\ Goto(p, "uploading", [mem[p] EXCEPT !.cleared = f])
      BY <2>1, <2>3 DEF Clobber, End, TypeOK
    <3>2. mem'[p] = [mem[p] EXCEPT !.cleared = f]
      BY <3>1 DEF Goto, TypeOK
    <3>3. mem'[p].cleared = f /\ mem'[p].assets = mem[p].assets
      BY <3>2 DEF TypeOK, Memory
    <3> QED
      BY <2>3, <3>1, <3>3 DEF Old
  <2>4. q = p => ~(Create(p) \/ Read(p))
    <3>1. ASSUME q = p, Create(p) PROVE FALSE
      <4>1. Goto(p, "uploading", [Blank EXCEPT !.release = issued + 1, !.todo = cmd[p].files])
        BY <2>1, <3>1 DEF Create, End, TypeOK
      <4> QED
        BY <1>4, <3>1, <4>1 DEF Goto, Blank, TypeOK
    <3>2. ASSUME q = p, Read(p) PROVE FALSE
      <4> DEFINE seen == [Blank EXCEPT !.release = release, !.assets = assets]
      <4>1. Goto(p, "uploading", [seen EXCEPT !.todo = cmd[p].files])
        BY <2>1, <3>2 DEF Read, Goto, End, TypeOK
      <4> QED
        BY <1>4, <3>2, <4>1 DEF Goto, Blank, TypeOK
    <3> QED
      BY <3>1, <3>2
  <2>5. q = p => ~Attach(p)
    <3> SUFFICES ASSUME q = p, Attach(p) PROVE FALSE
      OBVIOUS
    <3>1. PICK f \in mem[p].todo : GoOn(p, f)
      BY <2>1 DEF Attach, End, TypeOK
    <3>2. mem'[p] = [mem[p] EXCEPT !.todo = @ \ {f}, !.cleared = None]
      BY <3>1 DEF GoOn, Goto, TypeOK
    <3> QED
      BY <1>4, <3>2 DEF TypeOK, Memory
  <2>6. q = p => ~(Refuse(p) \/ Complete(p) \/ Fail(p) \/ Download(p) \/ Remove(p))
    BY <2>1 DEF Refuse, Complete, Fail, Download, Skip, Open, Write, WriteWith, Remove,
                DeleteAsset, Delete, DeleteTag, End, Goto, TypeOK
  <2> QED
    BY <2>2, <2>3, <2>4, <2>5, <2>6 DEF Step, Upload
<1> QED
  BY <1>2, <1>3, <1>4

LEMMA StepFiles == ASSUME IInv, NEW p \in Procs, Step(p) PROVE FilesExcused'
<1> USE DEF IInv
<1> DEFINE Fetching(q) == \/ pc[q] \in {"fetching", "writing"}
                          \/ outcome[q] = "ok" /\ cmd[q].kind = "download"
           Coming(q, n) == Active(q) /\ \E a \in mem[q].fetch : a.name = n
<1>1. CASE Open(p) /\ pc'[p] # "done"
  <2>1. PICK a \in mem[p].fetch :
          /\ Goto(p, "writing", [Fetched(p, a) EXCEPT !.saving = a])
          /\ disk' = [disk EXCEPT ![a.name] = Broken]
    BY <1>1 DEF Open, End, TypeOK
  <2>2. a \in Asset /\ a.name \in Names /\ a.name \in cmd[p].names
        /\ cmd[p].kind = "download" /\ pc[p] = "fetching"
    BY <1>1 DEF Open, TypeOK, Memory, Asset, Phases
  <2>3. pc'[p] = "writing" /\ mem'[p] = [Fetched(p, a) EXCEPT !.saving = a]
    BY <2>1 DEF Goto, TypeOK
  <2>4. mem'[p].fetch = mem[p].fetch \ {a} /\ mem'[p].saving = a
    BY <2>3 DEF Fetched, TypeOK, Memory
  <2>5. ASSUME NEW n \in Names, disk'[n] = Broken PROVE \E q \in Procs : Breaks(q, n)'
    <3>1. CASE n = a.name
      BY <2>2, <2>3, <2>4, <3>1, Frame DEF Breaks, Started
    <3>2. CASE n # a.name
      <4>1. PICK q \in Procs : Breaks(q, n)
        BY <2>1, <2>5, <3>2 DEF FilesExcused, TypeOK
      <4>2. q # p
        BY <2>2, <4>1 DEF Breaks, Phases
      <4> QED
        BY <4>1, <4>2, Frame DEF Breaks, Started
    <3> QED
      BY <3>1, <3>2
  <2>6. ASSUME NEW q \in Procs, Fetching(q)', NEW n \in cmd'[q].names
        PROVE  disk'[n] # None \/ Coming(q, n)'
    <3>1. Fetching(q) /\ n \in cmd[q].names
      BY <1>1, <2>2, <2>6, Frame
    <3>2. disk[n] # None \/ Coming(q, n)
      BY <3>1 DEF FilesExcused
    <3>3. disk[n] # None => disk'[n] # None
      BY <2>1, <2>2 DEF Broken, TypeOK
    <3>4. CASE q = p /\ Coming(q, n)
      <4>1. n = a.name => disk'[n] = Broken
        BY <2>1, <2>2 DEF TypeOK
      <4>2. n # a.name => Coming(q, n)'
        BY <2>3, <2>4, <3>4 DEF Active
      <4> QED
        BY <4>1, <4>2 DEF Broken
    <3>5. CASE q # p /\ Coming(q, n)
      BY <3>5, Frame DEF Active
    <3> QED
      BY <3>2, <3>3, <3>4, <3>5
  <2> QED
    BY <2>5, <2>6 DEF FilesExcused
<1>2. CASE Write(p)
  <2>1. /\ pc[p] = "writing" /\ pc'[p] = "fetching"
        /\ mem' = [mem EXCEPT ![p] = [mem[p] EXCEPT !.saving = None]]
        /\ disk' = [disk EXCEPT ![mem[p].saving.name] = mem[p].saving.id]
    BY <1>2 DEF Write, WriteWith, Goto, TypeOK
  <2>2. mem[p].saving.id \in Nat /\ mem[p].saving.name \in Names
    BY <2>1 DEF Phases, Asset
  <2>3. mem'[p].fetch = mem[p].fetch
    BY <2>1 DEF TypeOK, Memory
  <2>4. ASSUME NEW n \in Names, disk'[n] = Broken PROVE \E q \in Procs : Breaks(q, n)'
    <3>1. n # mem[p].saving.name /\ disk[n] = Broken
      BY <2>1, <2>2, <2>4 DEF Broken, TypeOK
    <3>2. PICK q \in Procs : Breaks(q, n)
      BY <3>1 DEF FilesExcused
    <3>3. q # p
      BY <2>1, <3>1, <3>2 DEF Breaks, Phases
    <3> QED
      BY <3>2, <3>3, Frame DEF Breaks, Started
  <2>5. ASSUME NEW q \in Procs, Fetching(q)', NEW n \in cmd'[q].names
        PROVE  disk'[n] # None \/ Coming(q, n)'
    <3>1. Fetching(q) /\ n \in cmd[q].names
      BY <2>1, <2>5, Frame
    <3>2. disk[n] # None \/ Coming(q, n)
      BY <3>1 DEF FilesExcused
    <3>3. disk[n] # None => disk'[n] # None
      BY <2>1, <2>2 DEF TypeOK
    <3>4. Coming(q, n) => Coming(q, n)'
      BY <2>1, <2>3, Frame DEF Active
    <3> QED
      BY <3>2, <3>3, <3>4
  <2> QED
    BY <2>4, <2>5 DEF FilesExcused
<1>3. CASE ~(Open(p) /\ pc'[p] # "done") /\ ~Write(p)
  <2>1. disk' = disk
    <3>1. CASE Open(p)
      BY <1>3, <3>1 DEF Open, Goto, TypeOK
    <3>2. CASE Read(p) \/ Upload(p) \/ Complete(p) \/ Fail(p)
      BY <3>2 DEF Read, Upload, Create, Refuse, Clobber, Attach, Complete, Fail
    <3>3. CASE Skip(p) \/ Remove(p)
      BY <3>3 DEF Skip, Remove, DeleteAsset, Delete, DeleteTag
    <3> QED
      BY <1>3, <3>1, <3>2, <3>3 DEF Step, Download
  <2>2. ASSUME pc[p] = "writing" PROVE outcome'[p] = "error"
    <3>1. Fail(p)
      BY <1>3, <2>2 DEF Step, Read, Upload, Create, Refuse, Clobber, Attach, Complete, Download,
                        Skip, Open, Remove, DeleteAsset, Delete, DeleteTag
    <3> QED
      BY <3>1 DEF Fail, End, TypeOK
  <2>3. ASSUME NEW n \in Names, disk'[n] = Broken PROVE \E q \in Procs : Breaks(q, n)'
    <3>1. PICK q \in Procs : Breaks(q, n)
      BY <2>1, <2>3 DEF FilesExcused
    <3>2. CASE q = p
      <4>1. outcome[p] = None
        BY Frame DEF Phases, Active
      <4>2. outcome'[p] = "error"
        BY <2>2, <3>1, <3>2, <4>1 DEF Breaks
      <4> QED
        BY <3>1, <3>2, <4>2, Frame DEF Breaks, Started
    <3>3. CASE q # p
      BY <3>1, <3>3, Frame DEF Breaks, Started
    <3> QED
      BY <3>2, <3>3
  <2>4. ASSUME NEW q \in Procs, q # p, Fetching(q)', NEW n \in cmd'[q].names
        PROVE  disk'[n] # None \/ Coming(q, n)'
    BY <2>1, <2>4, Frame DEF FilesExcused, Active
  <2>5. ASSUME Fetching(p)', NEW n \in cmd'[p].names
        PROVE  disk'[n] # None \/ Coming(p, n)'
    <3>1. outcome[p] = None /\ cmd' = cmd
      BY Frame DEF Phases, Active
    <3>2. CASE Read(p)
      <4> DEFINE seen == [Blank EXCEPT !.release = release, !.assets = assets]
                 wanted == {a \in assets : a.name \in cmd[p].names}
      <4>1. cmd[p].names \subseteq Attached /\ Goto(p, "fetching", [seen EXCEPT !.fetch = wanted])
        BY <2>5, <3>2 DEF Read, Goto, End, TypeOK
      <4>2. mem'[p].fetch = wanted /\ pc'[p] = "fetching"
        BY <4>1 DEF Goto, Blank, TypeOK
      <4>3. \E a \in assets : a.name = n
        BY <2>5, <3>1, <4>1 DEF Attached
      <4> QED
        BY <2>5, <3>1, <4>2, <4>3 DEF Active
    <3>3. CASE Skip(p)
      <4>1. PICK a \in mem[p].fetch : disk[a.name] # None /\ Goto(p, "fetching", Fetched(p, a))
        BY <2>5, <3>1, <3>3 DEF Skip, End, TypeOK
      <4>2. mem'[p] = [mem[p] EXCEPT !.fetch = @ \ {a}] /\ pc'[p] = "fetching"
        BY <4>1 DEF Goto, Fetched, TypeOK
      <4>3. mem'[p].fetch = mem[p].fetch \ {a} /\ pc[p] = "fetching"
        BY <3>3, <4>2 DEF Skip, TypeOK, Memory
      <4> QED
        BY <2>1, <2>5, <3>1, <4>1, <4>2, <4>3 DEF FilesExcused, Active
    <3>4. CASE Complete(p)
      <4>1. cmd[p].kind = "download"
        BY <2>5, <3>1, <3>4 DEF Complete, End, TypeOK
      <4>2. pc[p] = "fetching" /\ mem[p].fetch = {}
        BY <3>4, <4>1 DEF Complete, Phases
      <4> QED
        BY <2>1, <2>5, <3>1, <4>2 DEF FilesExcused
    <3>5. CASE Create(p)
      BY <2>5, <3>1, <3>5 DEF Create, Goto, End, TypeOK
    <3>6. CASE Refuse(p) \/ Clobber(p) \/ Attach(p) \/ Fail(p) \/ Open(p)
      BY <1>3, <2>5, <3>1, <3>6 DEF Refuse, Clobber, Attach, GoOn, Fail, Open, Goto, End, TypeOK
    <3>7. CASE Remove(p)
      BY <2>5, <3>1, <3>7 DEF Remove, DeleteAsset, Delete, DeleteTag, Goto, End, TypeOK, Phases
    <3> QED
      BY <1>3, <3>2, <3>3, <3>4, <3>5, <3>6, <3>7 DEF Step, Upload, Download
  <2> QED
    BY <2>3, <2>4, <2>5 DEF FilesExcused
<1> QED
  BY <1>1, <1>2, <1>3

-----------------------------------------------------------------------------
(* No step of any command disturbs IInv.                                   *)
LEMMA NextKeeps == IInv /\ [Next]_vars => IInv'
<1> SUFFICES ASSUME IInv, [Next]_vars PROVE IInv'
  OBVIOUS
<1>1. ASSUME NEW p \in Procs, Begin(p) PROVE IInv'
  BY <1>1, BeginKeeps
<1>2. ASSUME NEW p \in Procs, Step(p) PROVE IInv'
  <2>1. TypeOK'
    BY <1>2, TypeStep DEF IInv
  <2>2. Phases'
    BY <1>2, StepPhases DEF IInv
  <2> QED
    BY <1>2, <2>1, <2>2, StepHoles, StepIds, StepOverlapping, StepTwins, StepFiles DEF IInv
<1>3. CASE UNCHANGED vars
  <2>1. TypeOK' /\ Phases' /\ IdsIssued' /\ Overlapping'
    BY <1>3 DEF vars, server, IInv, TypeOK, Phases, IdsIssued, Overlapping, Active
  <2>2. HolesExcused'
    BY <1>3 DEF vars, server, IInv, HolesExcused, Attached, Excused, Started, Given
  <2>3. TwinsAccounted'
    BY <1>3 DEF vars, server, IInv, TwinsAccounted, NoTwins, Accounted, TwiceGiven, BothGiven,
                NewSince, Old, Started, Given
  <2>4. FilesExcused'
    BY <1>3 DEF vars, server, IInv, FilesExcused, Breaks, Started, Active
  <2> QED
    BY <2>1, <2>2, <2>3, <2>4 DEF IInv
<1> QED
  BY <1>1, <1>2, <1>3 DEF Next

(* IInv holds in every state, for any number of invocations.               *)
THEOREM Inductive == Spec => []IInv
BY InitIInv, NextKeeps, PTL DEF Spec

(* Every variable keeps its type.                                          *)
THEOREM TypeCorrect == Spec => []TypeOK
<1>1. IInv => TypeOK
  BY DEF IInv
<1> QED
  BY <1>1, Inductive, PTL

(* The asset that --clobber deletes to make room (upload_one) is missed    *)
(* only while the upload is under way or after it has been reported to     *)
(* have failed, however many commands run at once.                         *)
THEOREM NoSilentLoss == Spec => []LostOnlyByFailure
<1>1. IInv => LostOnlyByFailure
  <2> SUFFICES ASSUME IInv, NEW n \in had \ Attached
               PROVE  \E p \in Procs :
                        /\ Started(p)
                        /\ \/ cmd[p].kind = "delete"
                           \/ cmd[p].kind = "delete_asset" /\ n \in cmd[p].names
                           \/ cmd[p].clobber /\ n \in Given(p) /\ outcome[p] # "ok"
    BY DEF LostOnlyByFailure
  <2>1. PICK p \in Procs : Excused(p, n)
    BY DEF IInv, HolesExcused
  <2>2. mem[p].cleared # None => outcome[p] = None
    BY DEF IInv, Phases
  <2>3. None # "ok"
    OBVIOUS
  <2>4. (outcome[p] = "error" \/ mem[p].cleared # None) => outcome[p] # "ok"
    BY <2>2, <2>3
  <2> QED
    BY <2>1, <2>4 DEF Excused
<1> QED
  BY <1>1, Inductive, PTL

(* Two assets of one name come from commands that overlapped, or from one  *)
(* that was given two files of the name (upload_one looks only at the list *)
(* that was read before the first upload).                                 *)
THEOREM DuplicatesExplained == Spec => []DuplicatesOnlyByOverlap
<1>1. IInv => DuplicatesOnlyByOverlap
  BY DEF IInv, TwinsAccounted, NoTwins, Accounted, TwiceGiven, BothGiven, DuplicatesOnlyByOverlap
<1> QED
  BY <1>1, Inductive, PTL

(* A download that reports success has left every asset it was asked for,  *)
(* or skipped what another one had broken off (download, stream_to_file).  *)
THEOREM DownloadComplete == Spec => []Downloaded
<1>1. IInv => Downloaded
  <2> SUFFICES ASSUME IInv, NEW p \in Procs, outcome[p] = "ok", cmd[p].kind = "download",
                      NEW n \in cmd[p].names
               PROVE  \/ disk[n] \notin {Broken, None}
                      \/ \E q \in Procs \ {p} : /\ Started(q) /\ cmd[q].kind = "download"
                                                /\ n \in cmd[q].names /\ outcome[q] # "ok"
    BY DEF Downloaded
  <2>1. ~Active(p)
    BY DEF IInv, Phases, Active
  <2>2. disk[n] # None
    BY <2>1 DEF IInv, FilesExcused
  <2>3. CASE disk[n] = Broken
    <3>1. n \in Names
      <4>1. pc[p] # "idle"
        BY DEF IInv, Phases
      <4>2. cmd[p] \in Command
        BY <4>1 DEF IInv, TypeOK
      <4> QED
        BY <4>2 DEF Command
    <3>2. PICK q \in Procs : Breaks(q, n)
      BY <2>3, <3>1 DEF IInv, FilesExcused
    <3>3. pc[q] = "writing" => outcome[q] = None
      BY DEF IInv, Phases
    <3>4. outcome[q] # "ok"
      BY <3>2, <3>3 DEF Breaks
    <3> QED
      BY <3>2, <3>4 DEF Breaks
  <2> QED
    BY <2>2, <2>3
<1> QED
  BY <1>1, Inductive, PTL
=============================================================================
