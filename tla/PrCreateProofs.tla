--------------------------- MODULE PrCreateProofs ---------------------------
(***************************************************************************)
(* Proofs about PrCreate, for any number of invocations, repositories and  *)
(* kinds of command: what a person wrote survives a failure, the advice to *)
(* recover is given when it is right, and reviews are asked of the run's   *)
(* own pull request or of one that could not be told from it.              *)
(***************************************************************************)
EXTENDS PrCreate, FiniteSetTheorems, TLAPS

USE PrAssumption

-----------------------------------------------------------------------------
(* Types.                                                                  *)

Finite == IsFiniteSet(prs)

LEMMA Number == ASSUME Finite PROVE NextNumber \in Nat
BY FS_CardinalityType DEF Finite, NextNumber

LEMMA InitType == Init => TypeOK /\ Finite
BY FS_EmptySet DEF Init, TypeOK, Finite, Memory, Effect, Steps

LEMMA EndType ==
    ASSUME TypeOK, NEW p \in Runs, NEW how \in {"ok", "usage", "error", "died"},
           NEW tell \in BOOLEAN, End(p, how, tell)
    PROVE  /\ pc' \in [Runs -> Steps] /\ mem' \in [Runs -> Memory]
           /\ outcome' \in [Runs -> {None, "ok", "usage", "error", "died"}]
           /\ told' \in [Runs -> BOOLEAN]
           /\ pc' = [pc EXCEPT ![p] = "done"]
<1>1. [mem[p] EXCEPT !.reported = 0, !.pr = 0] \in Memory
  <2>1. mem[p] \in Memory
    BY DEF TypeOK
  <2> QED
    BY <2>1 DEF Memory
<1>2. mem' = [mem EXCEPT ![p] = [mem[p] EXCEPT !.reported = 0, !.pr = 0]]
  BY DEF End
<1> QED
  BY <1>1, <1>2 DEF TypeOK, End, Steps

LEMMA GotoType ==
    ASSUME TypeOK, NEW p \in Runs, NEW step \in Steps, NEW m \in Memory, Goto(p, step, m)
    PROVE  /\ pc' \in [Runs -> Steps] /\ mem' \in [Runs -> Memory]
           /\ outcome' \in [Runs -> {None, "ok", "usage", "error", "died"}]
           /\ told' \in [Runs -> BOOLEAN]
           /\ pc' = [pc EXCEPT ![p] = step]
BY DEF TypeOK, Goto

(* What a process does to itself.                                          *)
Moves(p) ==
    \/ \E how \in {"ok", "usage", "error", "died"}, tell \in BOOLEAN : End(p, how, tell)
    \/ \E step \in Steps \ {"idle", "done"}, m \in Memory : Goto(p, step, m)

LEMMA MovesType ==
    ASSUME TypeOK, NEW p \in Runs, Moves(p)
    PROVE  /\ pc' \in [Runs -> Steps] /\ mem' \in [Runs -> Memory]
           /\ outcome' \in [Runs -> {None, "ok", "usage", "error", "died"}]
           /\ told' \in [Runs -> BOOLEAN]
           /\ \E step \in Steps \ {"idle"} : pc' = [pc EXCEPT ![p] = step]
           /\ \A q \in Runs \ {p} : /\ pc'[q] = pc[q] /\ mem'[q] = mem[q]
                                     /\ outcome'[q] = outcome[q]
           /\ \A q \in Runs \ {p} : told'[q] = told[q]
<1>1. CASE \E how \in {"ok", "usage", "error", "died"}, tell \in BOOLEAN : End(p, how, tell)
  <2>1. PICK how \in {"ok", "usage", "error", "died"}, tell \in BOOLEAN : End(p, how, tell)
    BY <1>1
  <2>2. \A q \in Runs \ {p} : /\ pc'[q] = pc[q] /\ mem'[q] = mem[q]
                               /\ outcome'[q] = outcome[q]
    BY <2>1 DEF End, TypeOK
  <2>3. \A q \in Runs \ {p} : told'[q] = told[q]
    BY <2>1 DEF End, TypeOK
  <2> QED
    BY <2>1, <2>2, <2>3, EndType DEF Steps
<1>2. CASE \E step \in Steps \ {"idle", "done"}, m \in Memory : Goto(p, step, m)
  <2>1. PICK step \in Steps \ {"idle", "done"}, m \in Memory : Goto(p, step, m)
    BY <1>2
  <2>2. \A q \in Runs \ {p} : /\ pc'[q] = pc[q] /\ mem'[q] = mem[q]
                               /\ outcome'[q] = outcome[q] /\ told'[q] = told[q]
    BY <2>1 DEF Goto, TypeOK
  <2> QED
    BY <2>1, <2>2, GotoType
<1> QED
  BY <1>1, <1>2 DEF Moves

LEMMA FailedMoves ==
    ASSUME TypeOK, NEW p \in Runs, Failed(p)
    PROVE  Moves(p)
BY DEF Failed, Moves, TypeOK, Memory

LEMMA StepMoves == ASSUME TypeOK, Finite, NEW p \in Runs, Step(p) PROVE Moves(p)
<1>1. mem[p] \in Memory
  BY DEF TypeOK
<1>2. CASE Assemble(p)
  <2>1. ASSUME NEW c \in Commands,
               ~(c.recover /\ file[PathOf[c.repo]] \in {None, Torn})
        PROVE  [mem[p] EXCEPT !.draft = IF c.recover THEN file[PathOf[c.repo]] ELSE p] \in Memory
    <3>1. PathOf[c.repo] \in Paths /\ c.recover \in BOOLEAN
      BY DEF Command
    <3>2. (IF c.recover THEN file[PathOf[c.repo]] ELSE p) \in Texts \union {None}
      BY <2>1, <3>1 DEF TypeOK, Texts
    <3> QED
      BY <1>1, <3>2 DEF Memory
  <2> QED
    BY <1>2, <2>1 DEF Assemble, Moves, Steps
<1>3. CASE Save(p)
  <2>1. [mem[p] EXCEPT !.saved = TRUE] \in Memory
    BY <1>1 DEF Memory
  <2> QED
    BY <1>1, <1>3, <2>1 DEF Save, Moves, Steps
<1>4. CASE DryRun(p) \/ Forget(p)
  BY <1>1, <1>4 DEF DryRun, Forget, Moves, Steps
<1>5. CASE NotSent(p)
  BY <1>5, FailedMoves DEF NotSent
<1>6. CASE classic(p)
  <2>1. [mem[p] EXCEPT !.pr = NextNumber] \in Memory
    BY <1>1, Number DEF Memory
  <2> QED
    BY <1>6, <2>1, FailedMoves DEF classic, Moves, Steps
<1>7. CASE agit(p)
  <2>1. PICK x \in prs', says \in BOOLEAN :
          \/ Goto(p, "locating", [mem[p] EXCEPT !.reported = IF says THEN x.number ELSE 0])
          \/ Failed(p)
    BY <1>7 DEF agit
  <2>2. x.number \in Nat
    BY <1>7, Number DEF agit, Opened, TypeOK, PullRequest
  <2>3. [mem[p] EXCEPT !.reported = IF says THEN x.number ELSE 0] \in Memory
    BY <1>1, <2>2 DEF Memory
  <2> QED
    BY <2>1, <2>3, FailedMoves DEF Moves, Steps
<1>8. CASE Locate(p)
  <2>1. PICK n \in Located(p) \union {0} : Goto(p, "created", [mem[p] EXCEPT !.pr = n])
    BY <1>8 DEF Locate
  <2>2. n \in Nat
    BY <1>1 DEF Located, Newest, TypeOK, PullRequest, Memory
  <2>3. [mem[p] EXCEPT !.pr = n] \in Memory
    BY <1>1, <2>2 DEF Memory
  <2> QED
    BY <2>1, <2>3 DEF Moves, Steps
<1>9. CASE request_reviews(p) \/ Crash(p)
  BY <1>9 DEF request_reviews, Crash, Moves
<1> QED
  BY <1>2, <1>3, <1>4, <1>5, <1>6, <1>7, <1>8, <1>9 DEF Step

(* The rest of what a step changes.                                        *)
LEMMA OpenedType ==
    ASSUME TypeOK, Finite, NEW p \in Runs, pc[p] # "idle" PROVE Opened(p) \in PullRequest
<1>1. cmd[p] \in Command
  BY DEF TypeOK
<1> QED
  BY <1>1, Number DEF Opened, PullRequest, Command

LEMMA PrsType ==
    ASSUME TypeOK, Finite, NEW p \in Runs, pc[p] # "idle",
           NEW S \in {prs, prs \union {Opened(p)}}
    PROVE  S \subseteq PullRequest /\ IsFiniteSet(S)
<1>1. IsFiniteSet(prs \union {Opened(p)})
  BY FS_AddElement DEF Finite
<1> QED
  BY <1>1, OpenedType DEF TypeOK, Finite

LEMMA MadeType ==
    ASSUME TypeOK, NEW p \in Runs, NEW n \in Nat, NEW b \in BOOLEAN
    PROVE  [made EXCEPT ![p] = [@ EXCEPT !.number = n, !.known = b]] \in [Runs -> Effect]
<1>1. made[p] \in Effect
  BY DEF TypeOK
<1>2. [made[p] EXCEPT !.number = n, !.known = b] \in Effect
  BY <1>1 DEF Effect
<1> QED
  BY <1>2 DEF TypeOK

LEMMA SharedType ==
    ASSUME TypeOK, Finite, NEW p \in Runs, Step(p)
    PROVE  /\ prs' \subseteq PullRequest /\ Finite' /\ others' \in Nat
           /\ file' \in [Paths -> Texts \union {Torn, None}]
           /\ cmd' \in [Runs -> Commands \union {None}]
           /\ made' \in [Runs -> Effect]
           /\ writer' \in [Paths -> Runs \union {None}]
           /\ before' \in [Runs -> Texts \union {Torn, None}]
           /\ met' \in [Runs -> SUBSET Runs]
<1> USE DEF Finite, server
<1>1. CASE Assemble(p)
  BY <1>1 DEF Assemble, TypeOK
<1>2. CASE Save(p)
  <2>1. path(p) \in Paths
    BY <1>2 DEF Save, path, TypeOK, Command
  <2>2. mem[p].draft \in Texts \union {None}
    BY DEF TypeOK, Memory
  <2>3. file' \in [Paths -> Texts \union {Torn, None}]
    BY <1>2, <2>1, <2>2 DEF Save, TypeOK
  <2>4. writer' \in [Paths -> Runs \union {None}]
    BY <1>2, <2>1 DEF Save, TypeOK
  <2>5. before' \in [Runs -> Texts \union {Torn, None}]
    BY <1>2, <2>1 DEF Save, TypeOK
  <2> QED
    BY <1>2, <2>3, <2>4, <2>5 DEF Save, TypeOK
<1>3. CASE DryRun(p) \/ NotSent(p) \/ Locate(p)
  BY <1>3 DEF DryRun, NotSent, Locate, TypeOK
<1>4. CASE classic(p)
  <2>1. prs' = prs \union {Opened(p)} /\ pc[p] # "idle"
    BY <1>4 DEF classic
  <2>2. prs' \subseteq PullRequest /\ IsFiniteSet(prs')
    BY <2>1, PrsType
  <2>3. made' \in [Runs -> Effect]
    <3>1. PICK answered \in BOOLEAN :
            made' = [made EXCEPT ![p] = [@ EXCEPT !.number = NextNumber, !.known = answered]]
      BY <1>4 DEF classic
    <3> QED
      BY <3>1, Number, MadeType
  <2> QED
    BY <1>4, <2>2, <2>3 DEF classic, TypeOK
<1>5. CASE agit(p)
  <2>1. prs' \subseteq PullRequest /\ IsFiniteSet(prs')
    <3>1. prs' \in {prs, prs \union {Opened(p)}} /\ pc[p] # "idle"
      BY <1>5 DEF agit
    <3> QED
      BY <3>1, PrsType
  <2>2. made' \in [Runs -> Effect]
    <3>1. PICK x \in prs', answered \in BOOLEAN :
            made' = [made EXCEPT ![p] = [@ EXCEPT !.number = x.number, !.known = answered]]
      BY <1>5 DEF agit
    <3>2. x.number \in Nat
      BY <2>1 DEF PullRequest
    <3> QED
      BY <3>1, <3>2, MadeType
  <2> QED
    BY <1>5, <2>1, <2>2 DEF agit, TypeOK
<1>6. CASE Forget(p)
  <2>1. file' \in [Paths -> Texts \union {Torn, None}]
    BY <1>6 DEF Forget, TypeOK
  <2> QED
    BY <1>6, <2>1 DEF Forget, TypeOK
<1>7. CASE request_reviews(p)
  <2>1. made[p] \in Effect /\ mem[p] \in Memory
    BY DEF TypeOK
  <2>2. [made[p] EXCEPT !.asked = mem[p].pr, !.guessed = (mem[p].reported = 0)] \in Effect
    BY <2>1 DEF Effect, Memory
  <2>3. made' \in [Runs -> Effect]
    BY <1>7, <2>2 DEF request_reviews, TypeOK
  <2> QED
    BY <1>7, <2>3 DEF request_reviews, TypeOK
<1>8. CASE Crash(p)
  <2>1. path(p) \in Paths
    BY <1>8 DEF Crash, Active, path, TypeOK, Command
  <2>2. file' \in [Paths -> Texts \union {Torn, None}]
    BY <1>8, <2>1 DEF Crash, TypeOK
  <2>3. writer' \in [Paths -> Runs \union {None}]
    BY <1>8, <2>1 DEF Crash, TypeOK
  <2> QED
    BY <1>8, <2>2, <2>3 DEF Crash, TypeOK
<1> QED
  BY <1>1, <1>2, <1>3, <1>4, <1>5, <1>6, <1>7, <1>8 DEF Step

(* What a step of p leaves alone, and what it only adds to.                *)
LEMMA Frame ==
    ASSUME TypeOK, Finite, NEW p \in Runs, Step(p)
    PROVE  /\ \A q \in Runs \ {p} : /\ pc'[q] = pc[q] /\ cmd'[q] = cmd[q] /\ mem'[q] = mem[q]
                                    /\ outcome'[q] = outcome[q] /\ told'[q] = told[q]
                                    /\ made'[q] = made[q]
           /\ \A q \in Runs : pc[q] # "idle" => cmd'[q] = cmd[q] /\ met[q] \subseteq met'[q]
           /\ pc'[p] # "idle" /\ pc[p] # "done"
           /\ ~Assemble(p) => cmd' = cmd /\ met' = met /\ Active(p)
           /\ prs \subseteq prs'
<1>1. \A q \in Runs \ {p} : /\ pc'[q] = pc[q] /\ mem'[q] = mem[q]
                            /\ outcome'[q] = outcome[q] /\ told'[q] = told[q]
  BY StepMoves, MovesType
<1>2. pc'[p] # "idle"
  BY StepMoves, MovesType DEF TypeOK
<1>3. ~Assemble(p) => cmd' = cmd /\ met' = met /\ Active(p)
  BY DEF Step, Save, DryRun, NotSent, classic, agit, Locate, Forget, request_reviews, Crash, Active
<1>4. Assemble(p) => /\ pc[p] = "idle"
                     /\ \A q \in Runs \ {p} : cmd'[q] = cmd[q] /\ met[q] \subseteq met'[q]
  BY DEF Assemble, TypeOK
<1>5. \A q \in Runs \ {p} : made'[q] = made[q]
  BY DEF Step, Assemble, Save, DryRun, NotSent, classic, agit, Locate, Forget, request_reviews,
         Crash, TypeOK
<1>6. prs \subseteq prs'
  BY DEF Step, Assemble, Save, DryRun, NotSent, classic, agit, Locate, Forget, request_reviews,
         Crash, server
<1> QED
  BY <1>1, <1>2, <1>3, <1>4, <1>5, <1>6 DEF Active

LEMMA StepType == ASSUME TypeOK, Finite, NEW p \in Runs, Step(p) PROVE TypeOK' /\ Finite'
<1>1. \A q \in Runs : cmd'[q] = None <=> pc'[q] = "idle"
  <2>1. Assemble(p) => cmd'[p] # None
    BY DEF Assemble, TypeOK
  <2>2. pc'[p] # "idle"
    BY Frame
  <2>3. ~Assemble(p) => cmd'[p] # None
    BY Frame DEF TypeOK, Active
  <2> QED
    BY <2>1, <2>2, <2>3, Frame DEF TypeOK
<1> QED
  BY <1>1, StepMoves, MovesType, SharedType DEF TypeOK

(* The step itself, for p.                                                 *)
LEMMA EndEffect ==
    ASSUME TypeOK, NEW p \in Runs, NEW how, NEW tell, End(p, how, tell)
    PROVE  /\ pc'[p] = "done" /\ outcome'[p] = how
           /\ mem'[p].reported = 0 /\ mem'[p].pr = 0
           /\ mem'[p].saved = mem[p].saved /\ mem'[p].draft = mem[p].draft
<1>1. pc'[p] = "done" /\ outcome'[p] = how
  BY DEF End, TypeOK
<1>2. mem'[p] = [mem[p] EXCEPT !.reported = 0, !.pr = 0]
  BY DEF End, TypeOK
<1>3. mem[p] \in Memory
  BY DEF TypeOK
<1>4. /\ mem'[p].reported = 0 /\ mem'[p].pr = 0
      /\ mem'[p].saved = mem[p].saved /\ mem'[p].draft = mem[p].draft
  BY <1>2, <1>3 DEF Memory
<1> QED
  BY <1>1, <1>4

LEMMA GotoEffect ==
    ASSUME TypeOK, NEW p \in Runs, NEW step, NEW m, Goto(p, step, m)
    PROVE  /\ pc'[p] = step /\ mem'[p] = m
           /\ outcome' = outcome /\ told' = told
BY DEF Goto, TypeOK

(* Whatever step it is, by the step p was at.                              *)
LEMMA Progress ==
    ASSUME TypeOK, Finite, Phases, NEW p \in Runs, Step(p)
    PROVE  /\ pc'[p] # "done" => outcome'[p] = None
           /\ Assemble(p) => pc[p] = "idle" /\ pc'[p] \in {"saving", "done"}
           /\ ~Assemble(p) => pc'[p] \in Steps \ {"idle", "saving"}
           /\ pc'[p] = "sending" => Save(p)
<1>1. CASE Assemble(p) /\ pc'[p] # "done"
  <2>1. \E m : Goto(p, "saving", m)
    BY <1>1, EndEffect DEF Assemble
  <2>2. pc'[p] = "saving" /\ outcome' = outcome
    BY <2>1, GotoEffect
  <2> QED
    BY <1>1, <2>2 DEF Assemble, Phases
<1>2. CASE Save(p)
  <2>1. pc'[p] = "sending" /\ outcome' = outcome /\ pc[p] = "saving"
    BY <1>2, GotoEffect DEF Save
  <2> QED
    BY <1>2, <2>1 DEF Assemble, Phases, Steps
<1>3. CASE ~Assemble(p) /\ ~Save(p) /\ pc'[p] # "done"
  <2>1. \E step \in {"locating", "created", "reviewing"} : \E m : Goto(p, step, m)
    <3>1. CASE DryRun(p) \/ Forget(p)
      BY <3>1 DEF DryRun, Forget
    <3>2. CASE classic(p)
      BY <1>3, <3>2, EndEffect DEF classic, Failed
    <3>3. CASE agit(p)
      BY <1>3, <3>3, EndEffect DEF agit, Failed
    <3>4. CASE Locate(p)
      BY <3>4 DEF Locate
    <3>5. CASE NotSent(p) \/ request_reviews(p) \/ Crash(p)
      BY <1>3, <3>5, EndEffect DEF NotSent, Failed, request_reviews, Crash
    <3> QED
      BY <1>3, <3>1, <3>2, <3>3, <3>4, <3>5 DEF Step
  <2>2. PICK step \in {"locating", "created", "reviewing"} : \E m : Goto(p, step, m)
    BY <2>1
  <2>3. pc'[p] = step /\ outcome' = outcome
    BY <2>2, GotoEffect
  <2> QED
    BY <1>3, <2>3, Frame DEF Active, Phases, Steps
<1>4. CASE pc'[p] = "done"
  BY <1>4 DEF Assemble, Steps
<1> QED
  BY <1>1, <1>2, <1>3, <1>4

-----------------------------------------------------------------------------
(* Each part of IInv survives a step.                                      *)

LEMMA StepPhases == ASSUME TypeOK, Finite, Phases, NEW p \in Runs, Step(p) PROVE Phases'
<1> SUFFICES ASSUME NEW q \in Runs
             PROVE  /\ pc'[q] # "done" => outcome'[q] = None
                    /\ ~Begun(q)' => ~mem'[q].saved
                    /\ pc'[q] \in {"idle", "saving", "sending"} =>
                         ~made'[q].known /\ mem'[q].reported = 0 /\ mem'[q].pr = 0
                    /\ pc'[q] \in {"locating", "created", "reviewing"} =>
                         cmd'[q].dry_run \/ made'[q].known
                    /\ pc'[q] = "locating" => cmd'[q].agit
  BY DEF Phases
<1> USE DEF Begun
<1>0. mem[p] \in Memory /\ made[p] \in Effect
  BY DEF TypeOK
<1>1. CASE q # p
  BY <1>1, Frame DEF Phases
<1>2. CASE q = p /\ pc'[p] = "done"
  BY <1>2
<1>3. CASE q = p /\ pc'[p] # "done" /\ Assemble(p)
  <2>1. pc[p] = "idle" /\ pc'[p] = "saving" /\ made' = made
    BY <1>3, Progress DEF Assemble
  <2>2. \E d : Goto(p, "saving", [mem[p] EXCEPT !.draft = d])
    BY <1>3, EndEffect DEF Assemble
  <2>3. PICK d : mem'[p] = [mem[p] EXCEPT !.draft = d]
    BY <2>2, GotoEffect
  <2>4. mem'[p].saved = mem[p].saved /\ mem'[p].reported = mem[p].reported /\ mem'[p].pr = mem[p].pr
    BY <1>0, <2>3 DEF Memory
  <2> QED
    BY <1>3, <2>1, <2>4, Progress DEF Phases
<1>4. CASE q = p /\ pc'[p] # "done" /\ Save(p)
  <2>1. pc[p] = "saving" /\ made' = made
    BY <1>4 DEF Save
  <2>2. pc'[p] = "sending" /\ mem'[p] \in {mem[p], [mem[p] EXCEPT !.saved = TRUE]}
    BY <1>4, GotoEffect DEF Save
  <2>3. mem'[p].reported = mem[p].reported /\ mem'[p].pr = mem[p].pr
    BY <1>0, <2>2 DEF Memory
  <2> QED
    BY <1>4, <2>1, <2>2, <2>3, Progress DEF Phases
<1>5. CASE q = p /\ pc'[p] # "done" /\ ~Assemble(p) /\ ~Save(p)
  <2>1. pc'[p] \in {"locating", "created", "reviewing"} /\ cmd' = cmd /\ outcome'[p] = None
    BY <1>5, Progress, Frame DEF Steps
  <2>2. cmd'[p].dry_run \/ made'[p].known
    <3>1. CASE DryRun(p)
      BY <2>1, <3>1 DEF DryRun
    <3>2. CASE Locate(p) \/ Forget(p)
      BY <2>1, <3>2 DEF Locate, Forget, Phases
    <3>3. CASE classic(p)
      <4>1. made'[p] = [made[p] EXCEPT !.number = NextNumber, !.known = TRUE]
        BY <1>5, <3>3, EndEffect DEF classic, Failed, TypeOK
      <4> QED
        BY <1>0, <4>1 DEF Effect
    <3>4. CASE agit(p)
      <4>1. \E x \in prs' : made'[p] = [made[p] EXCEPT !.number = x.number, !.known = TRUE]
        BY <1>5, <3>4, EndEffect DEF agit, Failed, TypeOK
      <4> QED
        BY <1>0, <4>1 DEF Effect
    <3>5. CASE NotSent(p) \/ request_reviews(p) \/ Crash(p)
      BY <1>5, <3>5, EndEffect DEF NotSent, Failed, request_reviews, Crash
    <3> QED
      BY <1>5, <3>1, <3>2, <3>3, <3>4, <3>5 DEF Step
  <2>3. pc'[p] = "locating" => cmd'[p].agit
    <3>1. CASE agit(p)
      BY <2>1, <3>1 DEF agit
    <3>2. CASE DryRun(p) \/ Forget(p)
      BY <3>2, GotoEffect DEF DryRun, Forget
    <3>3. CASE Locate(p)
      BY <3>3, GotoEffect DEF Locate
    <3>4. CASE classic(p)
      BY <3>4, GotoEffect, EndEffect DEF classic, Failed
    <3>5. CASE NotSent(p) \/ request_reviews(p) \/ Crash(p)
      BY <1>5, <3>5, EndEffect DEF NotSent, Failed, request_reviews, Crash
    <3> QED
      BY <1>5, <3>1, <3>2, <3>3, <3>4, <3>5 DEF Step
  <2> QED
    BY <1>5, <2>1, <2>2, <2>3
<1> QED
  BY <1>1, <1>2, <1>3, <1>4, <1>5

LEMMA StepOverlapping ==
    ASSUME TypeOK, Finite, Overlapping, NEW p \in Runs, Step(p) PROVE Overlapping'
<1>1. CASE Assemble(p)
  <2>1. met' = [q \in Runs |-> IF q = p THEN {r \in Runs : Active(r)}
                               ELSE IF Active(q) THEN met[q] \union {p} ELSE met[q]]
    BY <1>1 DEF Assemble
  <2>2. ASSUME NEW q \in Runs, NEW r \in Runs, q # r, Active(q)', Active(r)'
        PROVE  r \in met'[q]
    BY <2>1, <2>2, Frame DEF Overlapping, Active
  <2>3. ASSUME NEW q \in Runs, NEW r \in met'[q] PROVE pc'[r] # "idle"
    BY <2>1, <2>3, Frame DEF Overlapping, Active, TypeOK
  <2> QED
    BY <2>2, <2>3 DEF Overlapping
<1>2. CASE ~Assemble(p)
  BY <1>2, Frame DEF Overlapping, Active, TypeOK
<1> QED
  BY <1>1, <1>2

(* A file, and who wrote it, change in a few steps only.                   *)
LEMMA FileStep ==
    ASSUME TypeOK, Finite, NEW p \in Runs, Step(p)
    PROVE  /\ \A f \in Paths : writer'[f] = writer[f] \/ (writer'[f] = p /\ f = path(p) /\ pc[p] = "saving")
           /\ \A f \in Paths : \/ file'[f] = file[f]
                               \/ f = path(p) /\ writer'[f] = p
                               \/ f = path(p) /\ pc[p] = "created"
           /\ Save(p) => writer'[path(p)] = p
<1>1. CASE Save(p)
  <2>1. path(p) \in Paths
    BY <1>1 DEF Save, path, TypeOK, Command
  <2>2. writer' = [writer EXCEPT ![path(p)] = p]
    BY <1>1 DEF Save
  <2>3. \E t : file' = [file EXCEPT ![path(p)] = t]
    BY <1>1 DEF Save
  <2> QED
    BY <1>1, <2>1, <2>2, <2>3 DEF Save, TypeOK
<1>2. CASE Crash(p)
  <2>1. path(p) \in Paths
    BY <1>2 DEF Crash, Active, path, TypeOK, Command
  <2>2. pc[p] # "saving" => file' = file /\ writer' = writer
    BY <1>2 DEF Crash
  <2> QED
    BY <1>2, <2>1, <2>2 DEF Crash, TypeOK, Save
<1>3. CASE Forget(p)
  BY <1>3 DEF Forget, TypeOK, Save
<1>4. CASE ~Save(p) /\ ~Crash(p) /\ ~Forget(p)
  BY <1>4 DEF Step, Assemble, DryRun, NotSent, classic, agit, Locate, request_reviews
<1> QED
  BY <1>1, <1>2, <1>3, <1>4

LEMMA StepWriters == ASSUME IInv, NEW p \in Runs, Step(p) PROVE Writers'
<1> USE DEF IInv, Finite
<1> SUFFICES ASSUME NEW f \in Paths, NEW r \in Runs, writer'[f] = r
             PROVE  /\ Begun(r)' /\ path(r)' = f
                    /\ \A q \in Runs \ {r} :
                         Begun(q)' /\ Active(q)' /\ path(q)' = f => q \in met'[r]
  BY DEF Writers
<1>1. Begun(p) => Begun(p)'
  BY Progress, Frame DEF Begun, Active
<1>2. CASE writer[f] # r
  <2>1. r = p /\ f = path(p) /\ pc[p] = "saving" /\ ~Assemble(p)
    BY <1>2, FileStep DEF Assemble
  <2>2. Begun(p)' /\ path(p)' = f
    BY <2>1, Progress, Frame DEF Begun, path
  <2>3. ASSUME NEW q \in Runs \ {p}, Active(q)' PROVE q \in met'[p]
    BY <2>1, <2>3, Frame DEF Overlapping, Active
  <2> QED
    BY <2>1, <2>2, <2>3
<1>3. CASE writer[f] = r
  <2>1. Begun(r) /\ path(r) = f /\ cmd'[r] = cmd[r] /\ met[r] \subseteq met'[r]
    BY <1>3, Frame DEF Writers, Begun
  <2>2. Begun(r)' /\ path(r)' = f
    BY <1>1, <2>1, Frame DEF Begun, path
  <2>3. ASSUME NEW q \in Runs \ {r}, Begun(q)', Active(q)', path(q)' = f
        PROVE  q \in met'[r]
    <3>1. CASE q # p
      BY <1>3, <2>1, <2>3, <3>1, Frame DEF Writers, Begun, Active, path
    <3>2. CASE q = p
      <4>1. ~Assemble(p) /\ cmd' = cmd
        BY <2>3, <3>2, Progress, Frame DEF Begun, Active
      <4>2. path(p) = f
        BY <2>3, <3>2, <4>1 DEF path
      <4>3. ~Save(p)
        BY <1>3, <2>3, <3>2, <4>2, FileStep
      <4>4. Begun(p) /\ Active(p)
        <5>1. Active(p)
          BY <4>1, Frame
        <5>2. pc[p] = "saving" => Save(p) \/ pc'[p] = "done"
          BY <4>1, EndEffect DEF Step, DryRun, NotSent, classic, agit, Locate, Forget,
                                 request_reviews, Crash
        <5> QED
          BY <2>3, <3>2, <4>3, <5>1, <5>2 DEF Begun, Active
      <4> QED
        BY <1>3, <2>1, <2>3, <3>2, <4>2, <4>4 DEF Writers
    <3> QED
      BY <3>1, <3>2
  <2> QED
    BY <2>2, <2>3
<1> QED
  BY <1>2, <1>3

(* What p knows of what it has made stays known.                           *)
LEMMA Knowing ==
    ASSUME TypeOK, Finite, Phases, NEW p \in Runs, Step(p), made[p].known
    PROVE  made'[p].known
<1>1. made[p] \in Effect /\ pc[p] # "sending"
  BY DEF TypeOK, Phases
<1>2. CASE request_reviews(p)
  <2>1. made'[p] \in {made[p], [made[p] EXCEPT !.asked = mem[p].pr, !.guessed = (mem[p].reported = 0)]}
    BY <1>2 DEF request_reviews, TypeOK
  <2> QED
    BY <1>1, <2>1 DEF Effect
<1>3. CASE ~request_reviews(p)
  BY <1>1, <1>3 DEF Step, Assemble, Save, DryRun, NotSent, classic, agit, Locate, Forget, Crash
<1> QED
  BY <1>2, <1>3

LEMMA StepWritten == ASSUME IInv, NEW p \in Runs, Step(p) PROVE Written'
<1> USE DEF IInv, Finite
<1> SUFFICES ASSUME NEW r \in Runs, mem'[r].saved, ~cmd'[r].dry_run, ~made'[r].known,
                    Undisturbed(r)', writer'[path(r)'] = r
             PROVE  file'[path(r)'] = mem'[r].draft
  BY DEF Written
<1>1. Phases'
  BY StepPhases
<1>2. Begun(r)'
  BY <1>1 DEF Phases
<1>3. CASE r = p
  <2>0. mem[p] \in Memory
    BY DEF TypeOK
  <2>1. ~Assemble(p)
    <3>1. ASSUME Assemble(p) PROVE mem'[p].saved = mem[p].saved
      <4>1. pc'[p] = "done"
        BY <1>2, <1>3, <3>1, Progress DEF Begun
      <4>2. End(p, "usage", FALSE) \/ \E m : Goto(p, "saving", m)
        BY <3>1 DEF Assemble
      <4>3. End(p, "usage", FALSE)
        BY <4>1, <4>2, GotoEffect
      <4> QED
        BY <4>3, EndEffect
    <3> QED
      BY <1>3, <3>1 DEF Phases, Begun, Assemble
  <2>2. cmd' = cmd /\ path(p)' = path(p) /\ path(p) \in Paths
    BY <2>1, Frame DEF path, Active, TypeOK, Command
  <2>3. CASE Save(p)
    <3>1. ~mem[p].saved
      BY <2>3 DEF Save, Phases, Begun
    <3>2. /\ file' = [file EXCEPT ![path(p)] = mem[p].draft]
          /\ mem'[p] = [mem[p] EXCEPT !.saved = TRUE]
      BY <1>3, <2>3, <3>1, GotoEffect DEF Save
    <3>3. mem'[p].draft = mem[p].draft
      BY <2>0, <3>2 DEF Memory
    <3> QED
      BY <1>3, <2>2, <3>2, <3>3 DEF TypeOK
  <2>4. CASE ~Save(p)
    <3>1. mem'[p].saved = mem[p].saved /\ mem'[p].draft = mem[p].draft
      <4>1. CASE DryRun(p) \/ Forget(p)
        BY <4>1, GotoEffect DEF DryRun, Forget
      <4>2. CASE NotSent(p) \/ request_reviews(p) \/ Crash(p)
        BY <4>2, EndEffect DEF NotSent, Failed, request_reviews, Crash
      <4>3. CASE classic(p)
        <5>1. Failed(p) \/ mem'[p] = [mem[p] EXCEPT !.pr = NextNumber]
          BY <4>3, GotoEffect DEF classic
        <5> QED
          BY <2>0, <5>1, EndEffect DEF Failed, Memory
      <4>4. CASE agit(p)
        <5>1. CASE Failed(p)
          BY <5>1, EndEffect DEF Failed
        <5>2. CASE ~Failed(p)
          <6>1. PICK x \in prs', says \in BOOLEAN :
                  Goto(p, "locating", [mem[p] EXCEPT !.reported = IF says THEN x.number ELSE 0])
            BY <4>4, <5>2 DEF agit
          <6>2. mem'[p] = [mem[p] EXCEPT !.reported = IF says THEN x.number ELSE 0]
            BY <6>1, GotoEffect
          <6> QED
            BY <2>0, <6>2 DEF Memory
        <5> QED
          BY <5>1, <5>2
      <4>5. CASE Locate(p)
        <5>1. \E n : mem'[p] = [mem[p] EXCEPT !.pr = n]
          BY <4>5, GotoEffect DEF Locate
        <5> QED
          BY <2>0, <5>1 DEF Memory
      <4> QED
        BY <2>1, <2>4, <4>1, <4>2, <4>3, <4>4, <4>5 DEF Step
    <3>2. mem[p].saved /\ ~made[p].known
      BY <1>3, <3>1, Knowing
    <3>3. Begun(p)
      BY <3>2 DEF Phases
    <3>4. writer'[path(p)] = writer[path(p)]
      BY <2>2, <3>3, FileStep DEF Begun
    <3>5. pc[p] # "created"
      BY <1>3, <2>2, <3>2 DEF Phases
    <3>6. file'[path(p)] = file[path(p)]
      BY <2>1, <2>4, <3>3, <3>5
      DEF Step, DryRun, NotSent, classic, agit, Locate, Forget, request_reviews, Crash, Begun
    <3>7. Undisturbed(p)
      BY <1>3, <2>2, <2>1, Frame DEF Undisturbed, path
    <3> QED
      BY <1>3, <2>2, <3>1, <3>2, <3>4, <3>6, <3>7 DEF Written
  <2> QED
    BY <2>3, <2>4
<1>4. CASE r # p
  <2>1. mem'[r] = mem[r] /\ cmd'[r] = cmd[r] /\ made'[r] = made[r] /\ pc'[r] = pc[r]
        /\ path(r)' = path(r)
    BY <1>4, Frame DEF path
  <2>2. Begun(r) /\ met[r] \subseteq met'[r] /\ path(r) \in Paths
    BY <1>2, <2>1, Frame DEF Begun, path, TypeOK, Command
  <2>3. writer[path(r)] = r
    BY <1>4, <2>1, <2>2, FileStep
  <2>4. ASSUME NEW q \in met[r] PROVE path(q) # path(r)
    <3>1. q \in Runs /\ pc[q] # "idle"
      BY DEF Overlapping, TypeOK
    <3>2. path(q)' = path(q)
      BY <3>1, Frame DEF path
    <3> QED
      BY <2>1, <2>2, <3>2 DEF Undisturbed
  <2>5. file[path(r)] = mem[r].draft
    BY <2>1, <2>3, <2>4 DEF Written, Undisturbed
  <2>6. ~(path(r) = path(p) /\ pc[p] = "created")
    BY <1>4, <2>2, <2>3, <2>4 DEF Writers, Begun, Active
  <2> QED
    BY <1>4, <2>1, <2>2, <2>5, <2>6, FileStep
<1> QED
  BY <1>3, <1>4

LEMMA StepAdvice == ASSUME IInv, NEW p \in Runs, Step(p) PROVE AdviceIsRight'
<1> USE DEF IInv, Finite
<1> SUFFICES ASSUME NEW r \in Runs, outcome'[r] = "error", mem'[r].saved
             PROVE  told'[r] <=> ~made'[r].known
  BY DEF AdviceIsRight
<1>1. CASE r # p
  BY <1>1, Frame DEF AdviceIsRight
<1>2. CASE r = p
  <2>0. made[p] \in Effect /\ mem[p].saved \in BOOLEAN
    <3>1. mem[p] \in Memory
      BY DEF TypeOK
    <3> QED
      BY <3>1 DEF TypeOK, Memory
  <2>1. pc'[p] = "done"
    BY <1>2, Progress
  <2> HIDE DEF IInv
  <2>9. ASSUME NEW step \in Steps \ {"done"}, NEW m, Goto(p, step, m) PROVE FALSE
    BY <2>1, <2>9, GotoEffect DEF IInv
  <2>2. CASE NotSent(p) \/ classic(p) \/ agit(p)
    <3>1. pc[p] = "sending" /\ Failed(p)
      BY <2>2, <2>9 DEF NotSent, classic, agit, Steps
    <3>2. mem[p].saved
      BY <1>2, <3>1, EndEffect DEF Failed, IInv
    <3>4. told'[p] = mem[p].saved
      BY <3>1 DEF Failed, End, TypeOK, IInv
    <3>3. ~made'[p].known
      <4>1. CASE NotSent(p)
        BY <3>1, <4>1 DEF NotSent, Phases, IInv
      <4>2. CASE classic(p)
        <5>1. PICK answered \in BOOLEAN :
                /\ made' = [made EXCEPT ![p] = [@ EXCEPT !.number = NextNumber, !.known = answered]]
                /\ IF answered THEN Goto(p, "created", [mem[p] EXCEPT !.pr = NextNumber])
                               ELSE Failed(p)
          BY <4>2 DEF classic
        <5>2. made'[p] = [made[p] EXCEPT !.number = NextNumber, !.known = FALSE]
          BY <2>9, <5>1 DEF TypeOK, IInv, Steps
        <5> QED
          BY <2>0, <5>2 DEF Effect
      <4>3. CASE agit(p)
        <5>1. PICK x \in prs', answered \in BOOLEAN, says \in BOOLEAN :
                /\ made' = [made EXCEPT ![p] = [@ EXCEPT !.number = x.number, !.known = answered]]
                /\ IF answered
                   THEN Goto(p, "locating", [mem[p] EXCEPT !.reported = IF says THEN x.number ELSE 0])
                   ELSE Failed(p)
          BY <4>3 DEF agit
        <5>2. made'[p] = [made[p] EXCEPT !.number = x.number, !.known = FALSE]
          BY <2>9, <5>1 DEF TypeOK, IInv, Steps
        <5> QED
          BY <2>0, <5>2 DEF Effect
      <4> QED
        BY <2>2, <4>1, <4>2, <4>3
    <3> QED
      BY <1>2, <3>2, <3>3, <3>4
  <2>3. CASE request_reviews(p)
    <3>1. \E how \in {"ok", "error"} : End(p, how, FALSE)
      BY <2>3 DEF request_reviews
    <3>2. told'[p] = FALSE
      BY <3>1 DEF End, TypeOK, IInv
    <3>3. ~cmd[p].dry_run /\ pc[p] = "reviewing"
      <4>1. ~End(p, "ok", FALSE)
        BY <1>2 DEF End, TypeOK, IInv
      <4> QED
        BY <2>3, <4>1 DEF request_reviews
    <3>4. made'[p].known
      BY <3>3, Knowing DEF Phases, IInv
    <3> QED
      BY <1>2, <3>2, <3>4
  <2>4. CASE Assemble(p) \/ Crash(p)
    <3>1. End(p, "usage", FALSE) \/ End(p, "died", FALSE)
      BY <2>4, <2>9 DEF Assemble, Crash, Steps
    <3> QED
      BY <1>2, <3>1 DEF End, TypeOK, IInv
  <2>5. CASE Save(p) \/ DryRun(p) \/ Locate(p) \/ Forget(p)
    BY <2>5, <2>9 DEF Save, DryRun, Locate, Forget, Steps
  <2> QED
    BY <2>2, <2>3, <2>4, <2>5 DEF Step
<1> QED
  BY <1>1, <1>2

LEMMA StepTargets == ASSUME IInv, NEW p \in Runs, Step(p) PROVE Targets'
<1> USE DEF IInv, Finite
<1> SUFFICES ASSUME NEW r \in Runs
             PROVE  /\ pc'[r] # "done" => made'[r].asked = 0
                    /\ mem'[r].reported \in {0, made'[r].number}
                    /\ \/ mem'[r].pr \in {0, made'[r].number}
                       \/ mem'[r].reported = 0 /\ Mistakable(r)'
                    /\ \/ made'[r].asked \in {0, made'[r].number}
                       \/ made'[r].guessed /\ Mistakable(r)'
  BY DEF Targets
<1>0. mem[p] \in Memory /\ made[p] \in Effect
  BY DEF TypeOK
<1>1. CASE r # p
  <2>1. mem'[r] = mem[r] /\ cmd'[r] = cmd[r] /\ made'[r] = made[r] /\ pc'[r] = pc[r]
    BY <1>1, Frame
  <2>2. Mistakable(r) => Mistakable(r)'
    BY <2>1, Frame DEF Mistakable
  <2> QED
    BY <2>1, <2>2 DEF Targets
<1>2. CASE r = p /\ Assemble(p)
  <2>1. made' = made /\ made[p].asked = 0 /\ mem[p].reported = 0 /\ mem[p].pr = 0
    BY <1>2 DEF Assemble, Phases, Targets
  <2>2. mem'[p].reported = 0 /\ mem'[p].pr = 0
    <3>1. CASE End(p, "usage", FALSE)
      BY <3>1, EndEffect
    <3>2. CASE ~End(p, "usage", FALSE)
      <4>1. \E d : Goto(p, "saving", [mem[p] EXCEPT !.draft = d])
        BY <1>2, <3>2 DEF Assemble
      <4>2. PICK d : mem'[p] = [mem[p] EXCEPT !.draft = d]
        BY <4>1, GotoEffect
      <4> QED
        BY <1>0, <2>1, <4>2 DEF Memory
    <3> QED
      BY <3>1, <3>2
  <2> QED
    BY <1>2, <2>1, <2>2
<1>3. CASE r = p /\ (Save(p) \/ DryRun(p) \/ Forget(p) \/ NotSent(p) \/ Crash(p))
  <2>1. made' = made /\ made[p].asked = 0
    BY <1>3, Frame DEF Save, DryRun, Forget, NotSent, Crash, Targets
  <2>2. \/ mem'[p].reported = 0 /\ mem'[p].pr = 0
        \/ mem'[p].reported = mem[p].reported /\ mem'[p].pr = mem[p].pr
    <3>1. CASE Save(p)
      <4>1. mem'[p] \in {mem[p], [mem[p] EXCEPT !.saved = TRUE]}
        BY <3>1, GotoEffect DEF Save
      <4> QED
        BY <1>0, <4>1 DEF Memory
    <3>2. CASE DryRun(p) \/ Forget(p)
      BY <3>2, GotoEffect DEF DryRun, Forget
    <3>3. CASE NotSent(p) \/ Crash(p)
      BY <3>3, EndEffect DEF NotSent, Failed, Crash
    <3> QED
      BY <1>3, <3>1, <3>2, <3>3
  <2>3. Mistakable(p) => Mistakable(p)'
    BY <1>3, <2>1, Frame DEF Mistakable, Assemble, Save, DryRun, Forget, NotSent, Crash
  <2> QED
    BY <1>3, <2>1, <2>2, <2>3 DEF Targets
<1>4. CASE r = p /\ (classic(p) \/ agit(p))
  <2>1. pc[p] = "sending" /\ made[p].asked = 0 /\ mem[p].reported = 0 /\ mem[p].pr = 0
    BY <1>4 DEF classic, agit, Phases, Targets
  <2>2. CASE classic(p)
    <3>1. PICK answered \in BOOLEAN :
            made'[p] = [made[p] EXCEPT !.number = NextNumber, !.known = answered]
      BY <2>2 DEF classic, TypeOK
    <3>2. made'[p].number = NextNumber /\ made'[p].asked = 0
      BY <1>0, <2>1, <3>1 DEF Effect
    <3>3. Failed(p) \/ mem'[p] = [mem[p] EXCEPT !.pr = NextNumber]
      BY <2>2, GotoEffect DEF classic
    <3>4. mem'[p].reported = 0 /\ mem'[p].pr \in {0, NextNumber}
      BY <1>0, <2>1, <3>3, EndEffect DEF Failed, Memory
    <3> QED
      BY <1>4, <3>2, <3>4
  <2>3. CASE agit(p)
    <3>1. PICK x \in prs', answered \in BOOLEAN, says \in BOOLEAN :
            /\ made' = [made EXCEPT ![p] = [@ EXCEPT !.number = x.number, !.known = answered]]
            /\ \/ Failed(p)
               \/ Goto(p, "locating", [mem[p] EXCEPT !.reported = IF says THEN x.number ELSE 0])
      BY <2>3 DEF agit
    <3>2. made'[p] = [made[p] EXCEPT !.number = x.number, !.known = answered]
      BY <3>1 DEF TypeOK
    <3>3. made'[p].number = x.number /\ made'[p].asked = 0
      BY <1>0, <2>1, <3>2 DEF Effect
    <3>4. \/ Failed(p)
          \/ mem'[p] = [mem[p] EXCEPT !.reported = IF says THEN x.number ELSE 0]
      BY <3>1, GotoEffect
    <3>5. mem'[p].reported \in {0, x.number} /\ mem'[p].pr = 0
      <4>1. CASE Failed(p)
        BY <4>1, EndEffect DEF Failed
      <4>2. CASE ~Failed(p)
        BY <1>0, <2>1, <3>4, <4>2 DEF Memory
      <4> QED
        BY <4>1, <4>2
    <3> QED
      BY <1>4, <3>3, <3>5
  <2> QED
    BY <1>4, <2>2, <2>3
<1>5. CASE r = p /\ Locate(p)
  <2>1. PICK n \in Located(p) \union {0} : mem'[p] = [mem[p] EXCEPT !.pr = n]
    BY <1>5, GotoEffect DEF Locate
  <2>2. mem'[p].reported = mem[p].reported /\ mem'[p].pr = n
    BY <1>0, <2>1 DEF Memory
  <2>3. made' = made /\ cmd' = cmd /\ prs' = prs /\ pc[p] = "locating" /\ made[p].asked = 0
    BY <1>5, Frame DEF Locate, server, Assemble, Targets
  <2>4. CASE mem[p].reported # 0
    BY <1>5, <2>2, <2>3, <2>4 DEF Located, Targets
  <2>5. CASE mem[p].reported = 0
    <3>1. n = 0 \/ \E x \in Newest(p) : n = x.number
      BY <2>5 DEF Located
    <3>2. n \in {0, made[p].number} \/ Mistakable(p)
      BY <2>3, <3>1 DEF Newest, Mistakable, Phases
    <3>3. Mistakable(p)' <=> Mistakable(p)
      BY <2>3 DEF Mistakable
    <3> QED
      BY <1>5, <2>2, <2>3, <2>5, <3>2, <3>3
  <2> QED
    BY <2>4, <2>5
<1>6. CASE r = p /\ request_reviews(p)
  <2>1. \E how \in {"ok", "error"} : End(p, how, FALSE)
    BY <1>6 DEF request_reviews
  <2>2. pc'[p] = "done" /\ mem'[p].reported = 0 /\ mem'[p].pr = 0
    BY <2>1, EndEffect
  <2>3. made[p].asked = 0 /\ cmd' = cmd /\ prs' = prs
    BY <1>6 DEF request_reviews, Targets, server
  <2>4. Mistakable(p) /\ made'[p].number = made[p].number => Mistakable(p)'
    BY <2>3 DEF Mistakable
  <2>5. CASE made' = made
    BY <1>6, <2>2, <2>3, <2>5
  <2>6. CASE made' # made
    <3>1. made'[p] = [made[p] EXCEPT !.asked = mem[p].pr, !.guessed = (mem[p].reported = 0)]
      BY <1>6, <2>6 DEF request_reviews, TypeOK
    <3>2. /\ made'[p].asked = mem[p].pr /\ made'[p].number = made[p].number
          /\ made'[p].guessed <=> mem[p].reported = 0
      BY <1>0, <3>1 DEF Effect
    <3> QED
      BY <1>6, <2>2, <2>4, <3>2 DEF Targets
  <2> QED
    BY <2>5, <2>6
<1> QED
  BY <1>1, <1>2, <1>3, <1>4, <1>5, <1>6 DEF Step

-----------------------------------------------------------------------------
LEMMA InitIInv == Init => IInv
<1> SUFFICES ASSUME Init PROVE IInv
  OBVIOUS
<1>1. TypeOK /\ IsFiniteSet(prs)
  BY InitType DEF Finite
<1>2. Phases /\ Overlapping
  BY DEF Init, Phases, Overlapping, Active, Begun
<1>3. Writers /\ Written /\ AdviceIsRight
  BY DEF Init, Writers, Written, AdviceIsRight
<1>4. Targets
  BY DEF Init, Targets
<1> QED
  BY <1>1, <1>2, <1>3, <1>4 DEF IInv

(* Somebody else's pull request.                                           *)
LEMMA ElsewhereKeeps == ASSUME IInv, Elsewhere PROVE IInv'
<1> USE DEF IInv
<1>1. PICK repo \in Repos : prs' = prs \union
        {[number |-> NextNumber, repo |-> repo, topic |-> None, agit |-> TRUE]}
  BY DEF Elsewhere
<1>2. UNCHANGED <<file, pc, cmd, mem, outcome, told, made, writer, before, met>>
  BY DEF Elsewhere
<1>3. IsFiniteSet(prs')
  BY <1>1, FS_AddElement
<1>4. prs' \subseteq PullRequest
  <2>1. [number |-> NextNumber, repo |-> repo, topic |-> None, agit |-> TRUE] \in PullRequest
    BY Number DEF PullRequest, Finite
  <2> QED
    BY <1>1, <2>1 DEF TypeOK
<1>5. others' \in Nat
  BY DEF Elsewhere, TypeOK
<1>6. TypeOK'
  BY <1>2, <1>4, <1>5 DEF TypeOK
<1>7. Phases' /\ Overlapping' /\ AdviceIsRight'
  BY <1>2 DEF Phases, Overlapping, Active, Begun, AdviceIsRight
<1>8. Writers' /\ Written'
  BY <1>2 DEF Writers, Written, Active, Begun, path, Undisturbed
<1>9. Targets'
  <2>1. \A p \in Runs : Mistakable(p) => Mistakable(p)'
    BY <1>1, <1>2 DEF Mistakable
  <2> QED
    BY <1>2, <2>1 DEF Targets
<1> QED
  BY <1>3, <1>6, <1>7, <1>8, <1>9

LEMMA NextKeeps == IInv /\ [Next]_vars => IInv'
<1> SUFFICES ASSUME IInv, [Next]_vars PROVE IInv'
  OBVIOUS
<1>1. ASSUME NEW p \in Runs, Step(p) PROVE IInv'
  <2>1. TypeOK' /\ IsFiniteSet(prs')
    BY <1>1, StepType DEF IInv, Finite
  <2>2. Phases' /\ Overlapping'
    BY <1>1, StepPhases, StepOverlapping DEF IInv, Finite
  <2> QED
    BY <1>1, <2>1, <2>2, StepWriters, StepWritten, StepAdvice, StepTargets DEF IInv
<1>2. CASE Elsewhere
  BY <1>2, ElsewhereKeeps
<1>3. CASE UNCHANGED vars
  <2> USE <1>3 DEF vars, server, IInv
  <2>1. TypeOK' /\ IsFiniteSet(prs') /\ Phases' /\ Overlapping' /\ AdviceIsRight'
    BY DEF TypeOK, Phases, Overlapping, Active, Begun, AdviceIsRight
  <2>2. Writers' /\ Written' /\ Targets'
    BY DEF Writers, Written, Active, Begun, path, Undisturbed, Targets, Mistakable
  <2> QED
    BY <2>1, <2>2
<1> QED
  BY <1>1, <1>2, <1>3 DEF Next

-----------------------------------------------------------------------------
(* IInv holds in every state, for any number of invocations.               *)
THEOREM Inductive == Spec => []IInv
BY InitIInv, NextKeeps, PTL DEF Spec

(* Every variable keeps its type.                                          *)
THEOREM TypeCorrect == Spec => []TypeOK
<1>1. IInv => TypeOK
  BY DEF IInv
<1> QED
  BY <1>1, Inductive, PTL

(* A text that was saved survives a run that fails or dies before its pull *)
(* request is there, until another run saves (Draft::save and the match on *)
(* the result in create.rs).                                               *)
THEOREM WorkKept == Spec => []WorkSurvives
<1>1. IInv => WorkSurvives
  BY DEF IInv, Written, WorkSurvives
<1> QED
  BY <1>1, Inductive, PTL

(* The advice to --recover is given exactly when the run does not know of  *)
(* its pull request (create.rs).                                           *)
THEOREM AdviceCorrect == Spec => []AdviceIsRight
<1>1. IInv => AdviceIsRight
  BY DEF IInv
<1> QED
  BY <1>1, Inductive, PTL

(* Reviews are requested of the run's own pull request; of another only if *)
(* the push did not report a number and that one was made by AGit as well  *)
(* (locate, request_reviews).                                              *)
THEOREM ReviewsRight == Spec => []ReviewsOnOwn
<1>1. IInv => ReviewsOnOwn
  BY DEF IInv, Targets, Mistakable, ReviewsOnOwn
<1> QED
  BY <1>1, Inductive, PTL
=============================================================================
