------------------------- MODULE OauthSessionProofs -------------------------
(***************************************************************************)
(* Proofs about OauthSession, for any number of logins and processes and   *)
(* any lifetime of a token longer than SKEW.                               *)
(*                                                                         *)
(* That a command uses a token which is recorded, and alive as long as     *)
(* SKEW says, holds with either store.  That the session stays refreshable *)
(* needs Separate: the keyring, or a single login.                         *)
(***************************************************************************)
EXTENDS OauthSession, TLAPS

USE OauthAssumption

(* Initially the store holds what the sign-in issued.                      *)
LEMMA InitIInv == Init => IInv
<1> SUFFICES ASSUME Init PROVE IInv
  OBVIOUS
<1>1. First \in Document
  BY DEF First, Document
<1>2. TypeOK
  BY <1>1 DEF Init, TypeOK
<1>3. Numbered
  BY DEF Init, Numbered, Known, Holds, First
<1>4. Timely /\ Private
  BY DEF Init, Timely, Private, Holds
<1>5. Refreshable
  <2> SUFFICES ASSUME NEW l \in Logins PROVE Honoured(l, disk[l].n)
    BY DEF Refreshable
  <2>1. disk[l].n = 1 /\ newest[l] = 1
    BY DEF Init, First
  <2> QED
    BY <2>1 DEF Honoured
<1> QED
  BY <1>2, <1>3, <1>4, <1>5 DEF IInv

(* A command starts with the document of its login, whose end is far       *)
(* enough away or else it refreshes it first.                              *)
LEMMA BeginKeeps == ASSUME IInv, NEW p \in Procs, Begin(p) PROVE IInv'
<1>1. PICK l \in Logins :
        /\ login' = [login EXCEPT ![p] = l]
        /\ stored' = [stored EXCEPT ![p] = disk[l]]
        /\ pc' = [pc EXCEPT ![p] = IF is_expiring(disk[l]) THEN "refreshing" ELSE "using"]
  BY DEF Begin
<1> USE DEF IInv
<1>2. TypeOK'
  <2>1. First \in Document
    BY DEF First, Document
  <2>2. mem' \in [Procs -> [Logins -> Document]]
    BY DEF Begin, TypeOK
  <2> QED
    BY <1>1, <2>1, <2>2 DEF Begin, TypeOK
<1>3. Numbered'
  <2>1. \A q \in Procs : Holds(q)' <=> Holds(q) /\ q # p
    BY <1>1 DEF Begin, TypeOK, Holds
  <2> QED
    BY <1>1, <2>1 DEF Begin, TypeOK, Numbered, Known, Holds
<1>4. Timely'
  <2>1. /\ disk[l].expires \in Nat /\ clock \in Nat
        /\ ~is_expiring(disk[l]) => clock + Skew < disk[l].expires
    BY DEF is_expiring, TypeOK, Document
  <2>2. /\ since'[p] = clock /\ stored'[p] = disk[l] /\ clock' = clock
        /\ pc'[p] = "refreshing" \/ (pc'[p] = "using" /\ ~is_expiring(disk[l]))
        /\ \A q \in Procs \ {p} : /\ since'[q] = since[q] /\ stored'[q] = stored[q]
                                  /\ pc'[q] = pc[q] /\ fresh'[q] = fresh[q]
                                  /\ q \in unrenewed' <=> q \in unrenewed
    BY <1>1 DEF Begin, TypeOK
  <2> QED
    BY <2>1, <2>2 DEF Timely, Holds, DatedLate
<1>5. ASSUME Private PROVE Private'
  BY <1>1, <1>5 DEF Begin, TypeOK, Private, Holds
<1>6. ASSUME Refreshable PROVE Refreshable'
  BY <1>1, <1>6 DEF Begin, TypeOK, Refreshable, Honoured, Holds
<1> QED
  BY <1>2, <1>3, <1>4, <1>5, <1>6 DEF Separate

(* A process goes on with the session it found, having held nothing that   *)
(* is not in the store or given up as lost.                                *)
LEMMA FallbackKeeps ==
    ASSUME IInv, NEW p \in Procs, pc[p] = "refreshing", Fallback(p),
           UNCHANGED <<invalidates, newest, disk, recorded, lost, clock>>
    PROVE  IInv'
<1> USE DEF IInv, Fallback
<1>1. TypeOK'
  BY DEF TypeOK
<1>2. Numbered'
  BY DEF TypeOK, Numbered, Known, Holds
<1>3. Timely'
  BY DEF TypeOK, Timely, Holds
<1>4. ASSUME Private PROVE Private'
  BY <1>4 DEF TypeOK, Private, Holds
<1>5. ASSUME Refreshable PROVE Refreshable'
  BY <1>5 DEF TypeOK, Refreshable, Honoured, Holds
<1> QED
  BY <1>1, <1>2, <1>3, <1>4, <1>5 DEF Separate

(* The server refreshes a session.  Where it kills the old refresh token,  *)
(* nobody was holding a newer one.                                         *)
LEMMA GrantKeeps == ASSUME IInv, NEW p \in Procs, Grant(p) PROVE IInv'
<1> DEFINE l == login[p]
<1> USE DEF IInv
<1>1. /\ pc[p] = "refreshing" /\ Honoured(l, stored[p].n)
      /\ newest[l] < MaxRefreshes /\ newest' = [newest EXCEPT ![l] = @ + 1]
      /\ UNCHANGED <<invalidates, disk, recorded, clock>>
  BY DEF Grant
<1>2. l \in Logins /\ newest[l] \in Nat \ {0} /\ clock \in Nat
  BY DEF TypeOK
<1>3. \A m \in Logins : newest'[m] = IF m = l THEN newest[l] + 1 ELSE newest[m]
  BY <1>1, <1>2 DEF TypeOK
<1>4. \A m \in Logins : newest[m] \in Nat /\ newest'[m] \in Nat /\ newest'[m] >= newest[m]
  BY <1>2, <1>3 DEF TypeOK
<1>5. \A q \in Procs : Private /\ invalidates /\ Holds(q) => q # p /\ login[q] # l
  <2>1. stored[p].n = newest[l] \/ ~invalidates
    BY <1>1 DEF Honoured
  <2>2. pc[p] # "idle" /\ ~Holds(p)
    BY <1>1 DEF Holds
  <2> QED
    BY <1>2, <2>1, <2>2 DEF Private
<1>6. CASE /\ pc' = [pc EXCEPT ![p] = "answered"]
           /\ fresh' = [fresh EXCEPT ![p] =
                          [n |-> newest[l] + 1, issued |-> clock, expires |-> clock]]
           /\ UNCHANGED <<login, mem, stored, since, unrenewed, lost>>
  <2>1. \A q \in Procs : Holds(q)' <=> q = p \/ Holds(q)
    BY <1>6 DEF Holds, TypeOK
  <2>2. /\ fresh'[p].n = newest[l] + 1 /\ fresh'[p].issued = clock /\ fresh'[p].expires = clock
        /\ \A q \in Procs \ {p} : fresh'[q] = fresh[q]
    BY <1>6 DEF TypeOK
  <2>3. TypeOK'
    BY <1>1, <1>2, <1>6 DEF TypeOK, Document
  <2>4. Numbered'
    BY <1>1, <1>2, <1>3, <1>4, <1>6, <2>1, <2>2 DEF Numbered, Known, TypeOK, Document
  <2>5. Timely'
    <3>1. /\ \A q \in Procs : since'[q] = since[q] /\ stored'[q] = stored[q]
          /\ pc'[p] = "answered" /\ since[p] <= clock /\ clock' = clock /\ clock \in Nat
          /\ \A q \in Procs \ {p} : pc'[q] = pc[q]
          /\ unrenewed' = unrenewed
      BY <1>1, <1>6 DEF TypeOK, Timely
    <3> QED
      BY <2>1, <2>2, <3>1 DEF Timely, DatedLate
  <2>6. ASSUME Private PROVE Private'
    <3> SUFFICES ASSUME NEW q \in Procs, Holds(q)', invalidates
                 PROVE  /\ fresh'[q].n = newest'[login[q]]
                        /\ disk[login[q]].n < fresh'[q].n
                        /\ \A r \in Procs \ {q} :
                              login[r] = login[q] =>
                                ~Holds(r)' /\ (pc'[r] # "idle" => stored[r].n < fresh'[q].n)
      BY <1>1, <1>6 DEF Private
    <3>1. \A r \in Procs : pc'[r] # "idle" => pc[r] # "idle"
      BY <1>1, <1>6 DEF TypeOK
    <3>2. CASE q = p
      BY <1>2, <1>3, <1>4, <1>5, <2>1, <2>2, <2>6, <3>1, <3>2
         DEF Numbered, Known, TypeOK, Document
    <3>3. CASE q # p
      BY <1>2, <1>3, <1>5, <2>1, <2>2, <2>6, <3>1, <3>3 DEF Private, TypeOK
    <3> QED
      BY <3>2, <3>3
  <2>7. ASSUME Private, Refreshable PROVE Refreshable'
    <3> SUFFICES ASSUME NEW m \in Logins, m \notin lost'
                 PROVE  \/ Honoured(m, disk[m].n)'
                        \/ \E q \in Procs : Holds(q)' /\ login[q]' = m /\ Honoured(m, fresh[q].n)'
      BY DEF Refreshable
    <3>1. CASE m = l
      BY <1>1, <1>2, <1>3, <1>6, <2>1, <2>2, <3>1 DEF Honoured, TypeOK
    <3>2. CASE m # l
      BY <1>1, <1>3, <1>6, <2>1, <2>2, <2>7, <3>2 DEF Refreshable, Honoured, TypeOK
    <3> QED
      BY <3>1, <3>2
  <2> QED
    BY <1>1, <2>3, <2>4, <2>5, <2>6, <2>7 DEF Separate
<1>7. CASE Fallback(p) /\ lost' = lost \union {l}
  <2>1. \A q \in Procs : Holds(q)' <=> Holds(q)
    BY <1>1, <1>7 DEF Holds, TypeOK, Fallback
  <2>2. TypeOK'
    BY <1>1, <1>2, <1>7 DEF TypeOK, Fallback
  <2>3. Numbered'
    BY <1>1, <1>2, <1>3, <1>4, <1>7, <2>1 DEF Numbered, Known, TypeOK, Document, Fallback
  <2>4. Timely'
    BY <1>1, <1>7, <2>1 DEF Timely, TypeOK, Fallback
  <2>5. ASSUME Private PROVE Private'
    BY <1>1, <1>2, <1>3, <1>5, <1>7, <2>1, <2>5 DEF Private, TypeOK, Fallback
  <2>6. ASSUME Private, Refreshable PROVE Refreshable'
    BY <1>1, <1>3, <1>7, <2>1, <2>6 DEF Refreshable, Honoured, TypeOK, Fallback
  <2> QED
    BY <1>1, <2>2, <2>3, <2>4, <2>5, <2>6 DEF Separate
<1> QED
  BY <1>6, <1>7 DEF Grant

(* The answer is dated, not before it was issued.                          *)
LEMMA ReceiveKeeps == ASSUME IInv, NEW p \in Procs, Receive(p) PROVE IInv'
<1> USE DEF IInv, Receive
<1>1. \A q \in Procs : Holds(q)' <=> Holds(q)
  BY DEF Holds, TypeOK
<1>2. /\ fresh'[p].n = fresh[p].n /\ fresh'[p].issued = fresh[p].issued
      /\ fresh'[p].expires = clock + Lifetime /\ fresh'[p] \in Document
      /\ \A q \in Procs \ {p} : fresh'[q] = fresh[q]
  BY DEF TypeOK, Document
<1>3. TypeOK'
  BY <1>2 DEF TypeOK
<1>4. Numbered'
  BY <1>1, <1>2 DEF Numbered, Known, Timely, Holds, TypeOK, Document
<1>5. Timely'
  <2>1. /\ fresh[p].issued \in Nat /\ clock \in Nat /\ fresh[p].issued <= clock
        /\ since[p] <= fresh[p].issued /\ since[p] <= clock
    BY DEF TypeOK, Document, Timely, Holds
  <2>2. DatedLate(fresh'[p]) >= 0
    BY <1>2, <2>1 DEF DatedLate
  <2>3. /\ UNCHANGED <<since, stored, unrenewed, clock>> /\ pc'[p] = "storing"
        /\ \A q \in Procs \ {p} : pc'[q] = pc[q]
    BY DEF TypeOK
  <2> QED
    BY <1>1, <1>2, <2>1, <2>2, <2>3 DEF Timely, DatedLate
<1>6. ASSUME Private PROVE Private'
  BY <1>1, <1>2, <1>6 DEF Private, TypeOK
<1>7. ASSUME Refreshable PROVE Refreshable'
  BY <1>1, <1>2, <1>7 DEF Refreshable, Honoured, TypeOK
<1> QED
  BY <1>3, <1>4, <1>5, <1>6, <1>7 DEF Separate

(* The document is written and used, or written only, or not written.      *)
(* Separate is for the others' documents: the write leaves them alone.     *)
LEMMA PersistKeeps == ASSUME IInv, NEW p \in Procs, Persist(p) PROVE IInv'
<1> DEFINE l == login[p]
<1> USE DEF IInv
<1>1. pc[p] = "storing" /\ UNCHANGED <<invalidates, newest, clock, login, mem, fresh>>
  BY DEF Persist, Fallback
<1>2. l \in Logins /\ fresh[p] \in Document /\ Holds(p)
  BY <1>1 DEF TypeOK, Holds
<1>3. /\ pc' = [pc EXCEPT ![p] = "using"] /\ since' = since
      /\ stored' \in [Procs -> Document]
      /\ \A q \in Procs \ {p} : stored'[q] = stored[q]
  BY <1>2 DEF Persist, Fallback, TypeOK
<1>4. \A q \in Procs : Holds(q)' <=> Holds(q) /\ q # p
  BY <1>3 DEF Holds, TypeOK
<1> DEFINE Wrote == recorded' = [recorded EXCEPT ![l] = @ \union {fresh[p].n}]
<1>5. \/ disk' = Written(p) /\ Wrote
      \/ UNCHANGED <<disk, recorded>> /\ l \in lost'
  BY <1>2 DEF Persist
<1>6. /\ \A m \in Logins : recorded[m] \subseteq recorded'[m]
      /\ Wrote => fresh[p].n \in recorded'[l]
  BY <1>2, <1>5 DEF TypeOK
<1>11. \/ stored'[p] = fresh[p] /\ Wrote
       \/ stored'[p] = stored[p] /\ p \in unrenewed'
  BY DEF Persist, Fallback, TypeOK
<1>12. lost \subseteq lost'
  BY DEF Persist
<1> HIDE DEF Wrote
<1>7. TypeOK'
  <2>1. disk' \in [Logins -> Document]
    BY <1>2, <1>5 DEF Written, TypeOK
  <2>2. recorded' \in [Logins -> SUBSET Nat]
    <3>1. fresh[p].n \in Nat
      BY <1>2 DEF Document
    <3> QED
      BY <1>2, <1>5, <3>1 DEF Wrote, TypeOK
  <2>3. unrenewed' \subseteq Procs /\ lost' \subseteq Logins
    BY <1>2 DEF Persist, Fallback, TypeOK
  <2> QED
    BY <1>1, <1>3, <2>1, <2>2, <2>3 DEF TypeOK
<1>8. Numbered'
  <2>1. \A m \in Logins : Known(m, disk[m])'
    BY <1>1, <1>2, <1>5, <1>6 DEF Written, Numbered, Known, TypeOK
  <2>2. Known(login[p], stored[p])'
    BY <1>1, <1>2, <1>6, <1>11 DEF Numbered, Known, TypeOK, Holds
  <2>3. ASSUME NEW q \in Procs, pc'[q] # "idle" PROVE Known(login[q], stored[q])'
    BY <1>1, <1>2, <1>3, <1>6, <2>2, <2>3 DEF Numbered, Known, TypeOK
  <2>4. ASSUME NEW q \in Procs, pc'[q] # "idle", WholeFile, NEW m \in Logins
        PROVE  Known(m, mem[q][m])'
    BY <1>1, <1>3, <1>6, <2>4 DEF Numbered, Known, TypeOK
  <2> QED
    BY <1>1, <1>4, <2>1, <2>3, <2>4 DEF Numbered
<1>9. Timely'
  <2>1. /\ since[p] <= fresh[p].issued /\ DatedLate(fresh[p]) >= 0 /\ since[p] <= clock
    BY <1>1, <1>2 DEF Timely
  <2>2. /\ pc'[p] = "using" /\ \A q \in Procs \ {p} : pc'[q] = pc[q]
        /\ \A q \in Procs \ {p} : q \in unrenewed' <=> q \in unrenewed
    BY <1>3 DEF TypeOK, Persist, Fallback
  <2> QED
    BY <1>1, <1>3, <1>4, <1>11, <2>1, <2>2 DEF Timely, DatedLate
<1>10. ASSUME Separate, Private PROVE Private' /\ (Refreshable => Refreshable')
  <2>1. \A m \in Logins \ {l} : disk'[m] = disk[m]
    BY <1>2, <1>5, <1>10 DEF Separate, Written, TypeOK
  <2>2. Private'
    BY <1>1, <1>2, <1>3, <1>4, <1>10, <2>1 DEF Private, TypeOK
  <2>3. ASSUME Refreshable PROVE Refreshable'
    <3> SUFFICES ASSUME NEW m \in Logins, m \notin lost'
                 PROVE  \/ Honoured(m, disk[m].n)'
                        \/ \E q \in Procs : Holds(q)' /\ login[q]' = m /\ Honoured(m, fresh[q].n)'
      BY DEF Refreshable
    <3>1. CASE m = l
      <4>1. disk'[m] = fresh[p]
        BY <1>2, <1>5, <3>1 DEF Written, TypeOK
      <4> QED
        BY <1>1, <1>2, <1>10, <3>1, <4>1 DEF Private, Numbered, Honoured, TypeOK, Document
    <3>2. CASE m # l
      BY <1>1, <1>4, <1>12, <2>1, <2>3, <3>2 DEF Refreshable, Honoured
    <3> QED
      BY <3>1, <3>2
  <2> QED
    BY <2>2, <2>3
<1> QED
  BY <1>7, <1>8, <1>9, <1>10 DEF Separate

(* A process ends: what it held is lost.                                   *)
LEMMA EndKeeps == ASSUME IInv, NEW p \in Procs, End(p) PROVE IInv'
<1> USE DEF IInv, End
<1>1. \A q \in Procs : Holds(q)' <=> Holds(q) /\ q # p
  BY DEF Holds, TypeOK
<1>2. First \in Document
  BY DEF First, Document
<1>3. TypeOK'
  BY <1>2 DEF TypeOK
<1>4. Numbered'
  BY <1>1 DEF Numbered, Known, TypeOK
<1>5. Timely'
  BY <1>1 DEF Timely, TypeOK
<1>6. ASSUME Private PROVE Private'
  BY <1>1, <1>6 DEF Private, TypeOK
<1>7. ASSUME Refreshable PROVE Refreshable'
  <2>1. /\ \A q \in Procs \ {p} : fresh'[q] = fresh[q]
        /\ UNCHANGED <<invalidates, newest, disk, login>>
        /\ lost \subseteq lost' /\ (Holds(p) => login[p] \in lost')
    BY DEF TypeOK
  <2> QED
    BY ONLY <1>1, <1>7, <2>1 DEF Refreshable, Honoured
<1> QED
  BY <1>3, <1>4, <1>5, <1>6, <1>7 DEF Separate

(* Time passes.                                                            *)
LEMMA TickKeeps == ASSUME IInv, Tick PROVE IInv'
<1> USE DEF IInv, Tick, proc
<1>1. TypeOK'
  BY DEF TypeOK
<1>2. Numbered'
  BY DEF Numbered, Known, Holds, TypeOK, Document
<1>3. Timely'
  <2>1. /\ clock \in Nat /\ since \in [Procs -> Nat]
        /\ \A q \in Procs : fresh[q].issued \in Nat
    BY DEF TypeOK, Document
  <2> QED
    BY <2>1 DEF Timely, Holds, DatedLate
<1>4. Private => Private'
  BY DEF Private, Holds
<1>5. Refreshable => Refreshable'
  BY DEF Refreshable, Honoured, Holds
<1> QED
  BY <1>1, <1>2, <1>3, <1>4, <1>5 DEF Separate

(* The inductive invariant holds with either store.                        *)
THEOREM Inductive == Spec => []IInv
<1>1. IInv /\ [Next]_vars => IInv'
  <2> SUFFICES ASSUME IInv, [Next]_vars PROVE IInv'
    OBVIOUS
  <2>1. CASE Tick
    BY <2>1, TickKeeps
  <2>2. ASSUME NEW p \in Procs, Step(p) PROVE IInv'
    <3>1. CASE Refused(p)
      BY <3>1, FallbackKeeps DEF Refused
    <3> QED
      BY <2>2, <3>1, BeginKeeps, GrantKeeps, ReceiveKeeps, PersistKeeps, EndKeeps DEF Step
  <2>3. CASE UNCHANGED vars
    BY <2>3 DEF vars, proc, IInv, TypeOK, Numbered, Known, Timely, Separate, Private,
                Refreshable, Honoured, Holds
  <2> QED
    BY <2>1, <2>2, <2>3 DEF Next
<1> QED
  BY <1>1, InitIInv, PTL DEF Spec

(* Every variable keeps its type.                                          *)
THEOREM TypeCorrect == Spec => []TypeOK
<1>1. IInv => TypeOK
  BY DEF IInv
<1> QED
  BY <1>1, Inductive, PTL

(* With the keyring, or with one login, a session stays refreshable while  *)
(* no document was lost, however many processes refresh it at once.        *)
THEOREM StaysRefreshable == ASSUME Separate PROVE Spec => []Refreshable
<1>1. IInv => Refreshable
  BY DEF IInv
<1> QED
  BY <1>1, Inductive, PTL

(* What SKEW is worth (refresh_blocking), whatever time a refresh and the  *)
(* commands take: until it has gone by since the store was read, a command *)
(* whose refresh did not fail uses an access token that the server takes.  *)
THEOREM TokenAlive == Spec => []AliveWithinSkew
<1>1. IInv => AliveWithinSkew
  <2> SUFFICES ASSUME IInv, NEW p \in Procs, pc[p] = "using", p \notin unrenewed,
                      (clock - since[p]) + DatedLate(stored[p]) <= Skew
               PROVE  clock < stored[p].issued + Lifetime
    BY DEF AliveWithinSkew
  <2>1. /\ clock \in Nat /\ since[p] \in Nat /\ stored[p].issued \in Nat
        /\ stored[p].expires \in Nat
    BY DEF IInv, TypeOK, Document
  <2>2. \/ since[p] + Skew < stored[p].expires
        \/ since[p] <= stored[p].issued /\ DatedLate(stored[p]) >= 0
    BY DEF IInv, Timely
  <2> QED
    BY <2>1, <2>2 DEF DatedLate
<1> QED
  BY <1>1, Inductive, PTL

(* The refresh token is written before the access token beside it is used. *)
THEOREM TokenRecorded == Spec => []UsedIsRecorded
<1>1. IInv => UsedIsRecorded
  BY DEF IInv, UsedIsRecorded, Numbered, Known
<1> QED
  BY <1>1, Inductive, PTL
=============================================================================
