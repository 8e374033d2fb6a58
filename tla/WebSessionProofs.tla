-------------------------- MODULE WebSessionProofs --------------------------
(***************************************************************************)
(* Proofs about WebSession, for any number of machines, processes and      *)
(* invocations, with documents moved between machines or not.  The heart   *)
(* of IInv is Private and Current: from the moment the server rotates the  *)
(* remember token until it is written, exactly one process knows the one   *)
(* that counts, so that no other can rotate it away or write over it.      *)
(* Two more results follow from it: a command has a bounded number of      *)
(* steps, and asks for a password only when the sign-in is gone, unless    *)
(* others had a copy of its document.                                      *)
(***************************************************************************)
EXTENDS WebSession, TLAPS

USE WebSessionAssumption

(* Initially there is no sign-in.                                          *)
LEMMA InitIInv == Init => IInv
BY SMT DEF Init, IInv, TypeOK, Numbered, Known, OneLive, Current, Private, Counted, Kept,
    ActsOnce, Holds, Outcomes, Document, Token

(* What a fresh document is made of.                                       *)
LEMMA FreshDocument ==
    ASSUME NEW login \in Nat, issued \in Nat
    PROVE  /\ Issued(login) \in Document
           /\ Issued(login).remember.n = issued + 1
           /\ Issued(login).remember.login = login
           /\ Issued(login).session = issued + 1
           /\ Issued(login) # None
BY SMT DEF Issued, Document, Token

(* What is copied is a sign-in.                                            *)
LEMMA CopiesAreSignIns ==
    ASSUME IInv, NEW doc \in Document, NEW p, NEW m, NEW command, NEW step,
           Begin(p, m, command, doc, step)
    PROVE  copied \subseteq copied' /\ copied' \subseteq Nat
<1>1. doc.remember.login \in Nat
  BY DEF Document, Token
<1>2. copied \subseteq Nat
  BY DEF IInv, TypeOK
<1> QED
  BY <1>1, <1>2 DEF Begin

(* What a command sets as it begins has its type.                          *)
LEMMA BeginTypes ==
    ASSUME IInv, NEW p \in Procs, NEW m \in Machines, NEW doc \in Document, doc # None,
           NEW command \in {"request", "login", "import"}, NEW step \in {"sending", "minting"},
           Begin(p, m, command, doc, step),
           live' \subseteq Token, signedIn' \subseteq Nat \ {Anonymous}, issued' \in Nat
    PROVE  TypeOK'
<1>1. /\ runs < MaxRuns /\ runs' = runs + 1
      /\ pc' = [pc EXCEPT ![p] = step] /\ op' = [op EXCEPT ![p] = command]
      /\ at' = [at EXCEPT ![p] = m] /\ cred' = [cred EXCEPT ![p] = doc]
      /\ sends' = [sends EXCEPT ![p] = 0] /\ effects' = [effects EXCEPT ![p] = 0]
      /\ result' = [result EXCEPT ![p] = [how |-> "none", login |-> 0]]
      /\ store' = store /\ exported' = exported /\ lost' = lost
  BY DEF Begin
<1>2. TypeOK
  BY DEF IInv
<1>3. copied' \subseteq Nat
  BY CopiesAreSignIns
<1>4. /\ pc' \in [Procs -> {"idle", "sending", "minting", "minted"}]
      /\ op' \in [Procs -> {"none", "request", "login", "import"}]
      /\ at' \in [Procs -> Machines]
  BY <1>1, <1>2 DEF TypeOK
<1>5. /\ cred' \in [Procs -> Document \union {None}]
      /\ \A q \in Procs : pc'[q] # "idle" => cred'[q] # None
  BY <1>1, <1>2 DEF TypeOK
<1>6. sends' \in [Procs -> Nat] /\ effects' \in [Procs -> Nat]
  BY <1>1, <1>2 DEF TypeOK
<1>7. result' \in [Procs -> [how : Outcomes, login : Nat]]
  BY <1>1, <1>2 DEF TypeOK, Outcomes
<1>8. /\ store' \in [Machines -> Document \union {None}]
      /\ exported' \in Document \union {None} /\ lost' \subseteq Nat /\ runs' \in 0..MaxRuns
  BY <1>1, <1>2 DEF TypeOK
<1> QED
  BY <1>3, <1>4, <1>5, <1>6, <1>7, <1>8 DEF TypeOK

(* A request starts with the document of a store.                          *)
LEMMA BeginRequestKeeps ==
    ASSUME IInv, NEW p \in Procs, BeginRequest(p) PROVE IInv'
<1>1. PICK m \in Machines : /\ store[m] # None
                            /\ Begin(p, m, "request", store[m], "sending")
                            /\ UNCHANGED server
  BY DEF BeginRequest
<1>0. /\ store[m] \in Document /\ store[m] # None
      /\ live' \subseteq Token /\ signedIn' \subseteq Nat \ {Anonymous} /\ issued' \in Nat
  BY <1>1 DEF IInv, TypeOK, server
<1>2. TypeOK'
  BY <1>0, <1>1, BeginTypes
<1> USE <1>1 DEF Begin, server, IInv
<1>3. Numbered' /\ OneLive'
  BY DEF TypeOK, Numbered, Known, OneLive
<1>4. Current' /\ Private'
  BY DEF TypeOK, Current, Private
<1>5. Counted' /\ ActsOnce'
  BY DEF TypeOK, Counted, ActsOnce
<1>6. Kept'
  BY DEF TypeOK, Kept, Holds
<1> QED
  BY <1>2, <1>3, <1>4, <1>5, <1>6

(* A sign-in is known to the process that made it alone.                   *)
LEMMA BeginLoginKeeps ==
    ASSUME IInv, NEW p \in Procs, BeginLogin(p) PROVE IInv'
<1> DEFINE fresh == Issued(issued + 1)
<1>1. PICK m \in Machines : /\ Begin(p, m, "login", fresh, "minting")
                            /\ live' = live \union {fresh.remember}
                            /\ signedIn' = signedIn \union {issued + 1}
                            /\ issued' = issued + 1
  BY DEF BeginLogin
<1>2. /\ fresh \in Document /\ fresh # None
      /\ fresh.remember.n = issued + 1 /\ fresh.remember.login = issued + 1
      /\ fresh.session = issued + 1 /\ fresh.remember \in Token
  BY FreshDocument DEF IInv, TypeOK, Document
<1> HIDE DEF fresh
<1>0. live' \subseteq Token /\ signedIn' \subseteq Nat \ {Anonymous} /\ issued' \in Nat
  <2>1. live \subseteq Token /\ signedIn \subseteq Nat \ {Anonymous} /\ issued \in Nat
    BY DEF IInv, TypeOK
  <2>2. issued + 1 \in Nat \ {Anonymous}
    BY <2>1 DEF Anonymous
  <2> QED
    BY <1>1, <1>2, <2>1, <2>2
<1>3. TypeOK'
  BY <1>0, <1>1, <1>2, BeginTypes
<1> USE <1>1, <1>2 DEF Begin, server, IInv
<1>4. Numbered'
  BY DEF TypeOK, Numbered, Known, Anonymous
<1>5. OneLive'
  BY DEF TypeOK, Numbered, OneLive
<1>6. Current'
  BY DEF TypeOK, Numbered, Known, Current
<1>7. Private'
  BY DEF TypeOK, Numbered, Known, Private
<1>8. Counted' /\ ActsOnce'
  BY DEF TypeOK, Counted, ActsOnce
<1>9. Kept'
  BY DEF TypeOK, Kept, Holds
<1> QED
  BY <1>3, <1>4, <1>5, <1>6, <1>7, <1>8, <1>9

(* A document is moved to another machine: nobody's secret is on it.       *)
LEMMA ExportKeeps == ASSUME IInv, Export PROVE IInv'
<1>0. copied' \subseteq Nat
  BY DEF Export, IInv, TypeOK, Document, Token
<1> USE DEF Export, server, IInv
<1>1. TypeOK'
  BY <1>0 DEF TypeOK
<1>2. Numbered' /\ OneLive'
  BY DEF TypeOK, Numbered, Known, OneLive
<1>3. Current' /\ Private'
  BY DEF TypeOK, Current, Private
<1>4. Counted' /\ ActsOnce'
  BY DEF Counted, ActsOnce
<1>5. Kept'
  BY DEF Kept, Holds
<1> QED
  BY <1>1, <1>2, <1>3, <1>4, <1>5

(* An import starts with the document that was exported.                  *)
LEMMA BeginImportKeeps ==
    ASSUME IInv, NEW p \in Procs, BeginImport(p) PROVE IInv'
<1>1. PICK m \in Machines : /\ exported # None
                            /\ Begin(p, m, "import", exported, "minting")
                            /\ UNCHANGED server
  BY DEF BeginImport
<1>0. /\ exported \in Document /\ exported # None
      /\ live' \subseteq Token /\ signedIn' \subseteq Nat \ {Anonymous} /\ issued' \in Nat
  BY <1>1 DEF IInv, TypeOK, server
<1>2. TypeOK'
  BY <1>0, <1>1, BeginTypes
<1> USE <1>1 DEF Begin, server, IInv
<1>3. Numbered' /\ OneLive'
  BY DEF TypeOK, Numbered, Known, OneLive
<1>4. Current' /\ Private'
  BY DEF TypeOK, Current, Private
<1>5. Counted' /\ ActsOnce'
  BY DEF TypeOK, Counted, ActsOnce
<1>6. Kept'
  BY DEF TypeOK, Kept, Holds
<1> QED
  BY <1>2, <1>3, <1>4, <1>5, <1>6

(* A request is sent, and sent again once.                                 *)
LEMMA SendKeeps ==
    ASSUME IInv, NEW p \in Procs, Send(p) PROVE IInv'
<1>1. PICK reply \in Replies, acts \in {0, 1} :
        /\ Acts(p, reply, acts)
        /\ effects' = [effects EXCEPT ![p] = @ + acts]
        /\ sends' = [sends EXCEPT ![p] = @ + 1]
        /\ IF worth_renewing(reply) /\ sends[p] = 0
           THEN pc' = [pc EXCEPT ![p] = "minting"] /\ UNCHANGED <<cred, result>>
           ELSE Finish(p, Outcome(reply))
  BY DEF Send
<1>2. pc[p] = "sending" /\ UNCHANGED <<server, store, exported, copied, op, at, lost, runs>>
  BY DEF Send
<1>3. cred[p] \in Document /\ cred[p].remember.login \in Nat
  BY <1>2 DEF IInv, TypeOK, Document, Token
<1>4. effects[p] = 0 /\ sends[p] \in Nat /\ sends[p] <= 1 /\ result[p].how = "none"
  BY <1>2 DEF IInv, TypeOK, Counted
<1>5. /\ sends \in [Procs -> Nat] /\ effects \in [Procs -> Nat]
      /\ sends' = [sends EXCEPT ![p] = @ + 1]
      /\ effects' = [effects EXCEPT ![p] = @ + acts]
  BY <1>1 DEF IInv, TypeOK
<1>6. /\ sends' \in [Procs -> Nat] /\ effects' \in [Procs -> Nat]
      /\ sends'[p] = sends[p] + 1 /\ effects'[p] = effects[p] + acts
      /\ \A q \in Procs \ {p} : effects'[q] = effects[q] /\ sends'[q] = sends[q]
  BY <1>4, <1>5
<1>7. CASE worth_renewing(reply) /\ sends[p] = 0
  <2>1. pc' = [pc EXCEPT ![p] = "minting"] /\ UNCHANGED <<cred, result>> /\ acts = 0
    BY <1>1, <1>7 DEF Acts, worth_renewing
  <2> USE <1>2, <1>3, <1>4, <1>6, <1>7, <2>1 DEF server, IInv
  <2>2. TypeOK'
    BY DEF TypeOK
  <2>3. Numbered' /\ OneLive'
    BY DEF TypeOK, Numbered, Known, OneLive
  <2>4. Current' /\ Private'
    BY DEF TypeOK, Current, Private
  <2>5. Counted' /\ ActsOnce'
    BY DEF TypeOK, Counted, ActsOnce
  <2>6. Kept'
    BY DEF TypeOK, Kept, Holds
  <2> QED
    BY <2>2, <2>3, <2>4, <2>5, <2>6
<1>8. CASE ~(worth_renewing(reply) /\ sends[p] = 0)
  <2>1. PICK how \in {"ok", "error", "unserved"} :
          Finish(p, how) /\ (how = "unserved" => acts = 0)
    BY <1>1, <1>8 DEF Acts, Outcome, Replies, worth_renewing
  <2> USE <1>2, <1>3, <1>4, <1>6, <2>1 DEF server, Finish, IInv
  <2>2. TypeOK'
    BY DEF TypeOK, Outcomes
  <2>3. Numbered' /\ OneLive'
    BY DEF TypeOK, Numbered, Known, OneLive
  <2>4. Current' /\ Private'
    BY DEF TypeOK, Current, Private
  <2>5. /\ pc' = [pc EXCEPT ![p] = "idle"] /\ result'[p].how = how
        /\ \A q \in Procs \ {p} : result'[q] = result[q]
    BY DEF TypeOK
  <2>6. Counted' /\ ActsOnce'
    BY <2>5 DEF TypeOK, Counted, ActsOnce
  <2>7. Kept'
    BY DEF TypeOK, Kept, Holds
  <2> QED
    BY <2>2, <2>3, <2>4, <2>6, <2>7
<1> QED
  BY <1>7, <1>8

(* A command that ends without writing: what only it knew is dead, or      *)
(* counted as lost.                                                        *)
LEMMA FinishKeeps ==
    ASSUME IInv, NEW p \in Procs, NEW how \in {"error", "expired"}, Finish(p, how),
           pc[p] # "idle", lost \subseteq lost', lost' \subseteq Nat,
           Holds(p) => cred[p].remember.login \in lost' \/ cred[p].remember \notin live,
           UNCHANGED <<server, store, exported, copied, op, at, sends, effects, runs>>
    PROVE  IInv'
<1>1. cred[p] \in Document /\ cred[p].remember.login \in Nat
  BY DEF IInv, TypeOK, Document, Token
<1> USE <1>1 DEF server, Finish, IInv
<1>2. TypeOK'
  BY DEF TypeOK, Outcomes
<1>3. Numbered' /\ OneLive' /\ Current' /\ Private'
  BY DEF TypeOK, Numbered, Known, OneLive, Current, Private
<1>4. Counted' /\ ActsOnce'
  BY DEF TypeOK, Counted, ActsOnce
<1>5. ASSUME NEW q \in Procs, q # p, Holds(q) PROVE Holds(q)' /\ cred'[q] = cred[q]
  BY <1>5 DEF TypeOK, Holds
<1>6. ASSUME NEW t \in live, Holds(p), cred[p].remember = t PROVE t.login \in lost'
  BY <1>6
<1>7. Kept'
  BY <1>5, <1>6 DEF Kept
<1> QED
  BY <1>2, <1>3, <1>4, <1>7

(* A renewal: refused, lost on its way there, or the token is rotated, and *)
(* then the answer arrives or is lost.                                     *)
LEMMA RotateKeeps ==
    ASSUME IInv, NEW p \in Procs, pc[p] = "minting", Rotate(p),
           UNCHANGED <<store, exported, copied, op, at, sends, effects, runs>>
    PROVE  IInv'
<1> DEFINE old == cred[p].remember
           fresh == Issued(old.login)
<1>1. cred[p] \in Document /\ cred[p] # None /\ old \in Token /\ old.login \in Nat
  BY DEF IInv, TypeOK, Document, Token
<1>2. /\ fresh \in Document /\ fresh # None /\ fresh.remember \in Token
      /\ fresh.remember.n = issued + 1 /\ fresh.remember.login = old.login
      /\ fresh.session = issued + 1
  BY <1>1, FreshDocument DEF IInv, TypeOK, Document, Token
<1>3. /\ old \in live
      /\ live' = (live \ {old}) \union {fresh.remember}
      /\ signedIn' = signedIn \union {fresh.session}
      /\ issued' = issued + 1
  BY DEF Rotate
<1>4. \/ /\ cred' = [cred EXCEPT ![p] = fresh]
         /\ pc' = [pc EXCEPT ![p] = "minted"]
         /\ UNCHANGED <<result, lost>>
      \/ Finish(p, "error") /\ lost' = lost \union {old.login}
  BY DEF Rotate, Renewed
<1>5. OneLive' /\ \A t \in live' : t.login = old.login => t = fresh.remember
  BY <1>2, <1>3 DEF IInv, OneLive
<1>6. \A t \in live' : (t \in live /\ t # old) \/ t = fresh.remember
  BY <1>3
<1>7. /\ live' \subseteq Token /\ issued' \in Nat /\ signedIn' \subseteq Nat \ {Anonymous}
      /\ lost \subseteq Nat /\ old.login \in Nat
  <2>1. live \subseteq Token /\ issued \in Nat /\ signedIn \subseteq Nat \ {0} /\ lost \subseteq Nat
    BY DEF IInv, TypeOK, Anonymous
  <2>2. issued + 1 \in Nat \ {0}
    BY <2>1
  <2> HIDE DEF old, fresh
  <2> QED
    BY <1>1, <1>2, <1>3, <2>1, <2>2 DEF Anonymous
<1> HIDE DEF old, fresh
<1>8. CASE /\ cred' = [cred EXCEPT ![p] = fresh]
           /\ pc' = [pc EXCEPT ![p] = "minted"]
           /\ UNCHANGED <<result, lost>>
  <2> USE <1>1, <1>2, <1>3, <1>5, <1>6, <1>7, <1>8 DEF server, IInv
  <2>1. TypeOK'
    BY DEF TypeOK, Anonymous
  <2>2. Numbered'
    BY DEF TypeOK, Numbered, Known, Anonymous
  <2>3. Current'
    <3> SUFFICES ASSUME NEW q \in Procs, pc'[q] = "minted", q # p,
                        NEW t \in live', t.login = cred[q].remember.login
                 PROVE  t = cred[q].remember
      BY DEF TypeOK, Current
    <3>1. pc[q] = "minted" /\ cred[q] # None
      BY DEF TypeOK
    <3>2. cred[q].remember # old
      BY <3>1 DEF Private, old
    <3> QED
      BY <3>1, <3>2 DEF Current
  <2>4. Private'
    BY DEF TypeOK, Numbered, Known, Private
  <2>5. Counted' /\ ActsOnce'
    BY DEF TypeOK, Counted, ActsOnce
  <2>6. Kept'
    <3>1. Holds(p)' /\ cred'[p].remember = fresh.remember
      BY DEF TypeOK, Holds
    <3>2. ASSUME NEW t \in live, t # old
          PROVE  \/ t.login \in lost
                 \/ \E m \in Machines : store[m] # None /\ store[m].remember = t
                 \/ \E q \in Procs \ {p} : Holds(q) /\ cred[q].remember = t
      BY <3>2 DEF Kept, old
    <3>3. \A q \in Procs \ {p} : Holds(q) => Holds(q)' /\ cred'[q] = cred[q]
      BY DEF TypeOK, Holds
    <3> QED
      BY <3>1, <3>2, <3>3 DEF Kept
  <2> QED
    BY <2>1, <2>2, <2>3, <2>4, <2>5, <2>6
<1>9. CASE Finish(p, "error") /\ lost' = lost \union {old.login}
  <2> USE <1>1, <1>2, <1>3, <1>5, <1>6, <1>7, <1>9 DEF server, Finish, IInv
  <2>1. TypeOK'
    <3>1. result' \in [Procs -> [how : Outcomes, login : Nat]]
      BY DEF TypeOK, Outcomes, old
    <3>2. lost' \subseteq Nat
      OBVIOUS
    <3> QED
      BY <3>1, <3>2 DEF TypeOK
  <2>2. Numbered'
    BY DEF TypeOK, Numbered, Known
  <2>3. Current'
    <3> SUFFICES ASSUME NEW q \in Procs, pc'[q] = "minted", q # p,
                        NEW t \in live', t.login = cred[q].remember.login
                 PROVE  t = cred[q].remember
      BY DEF TypeOK, Current
    <3>1. pc[q] = "minted" /\ cred[q] # None
      BY DEF TypeOK
    <3>2. cred[q].remember # old
      BY <3>1 DEF Private, old
    <3> QED
      BY <3>1, <3>2 DEF Current
  <2>4. Private'
    BY DEF TypeOK, Private
  <2>5. Counted' /\ ActsOnce'
    BY DEF TypeOK, Counted, ActsOnce
  <2>6. Kept'
    <3>1. ASSUME NEW t \in live, t # old
          PROVE  \/ t.login \in lost
                 \/ \E m \in Machines : store[m] # None /\ store[m].remember = t
                 \/ \E q \in Procs \ {p} : Holds(q) /\ cred[q].remember = t
      BY <3>1 DEF Kept, old
    <3>2. \A q \in Procs \ {p} : Holds(q) => Holds(q)' /\ cred'[q] = cred[q]
      BY DEF TypeOK, Holds
    <3> QED
      BY <3>1, <3>2 DEF Kept
  <2> QED
    BY <1>5, <2>1, <2>2, <2>3, <2>4, <2>5, <2>6
<1> QED
  BY <1>4, <1>8, <1>9

(* What may come of asking for a renewal.                                  *)
LEMMA MintKeeps == ASSUME IInv, NEW p \in Procs, Mint(p) PROVE IInv'
<1>1. /\ pc[p] = "minting" /\ cred[p].remember.login \in Nat /\ lost \subseteq Nat
      /\ UNCHANGED <<store, exported, copied, op, at, sends, effects, runs>>
  BY DEF Mint, IInv, TypeOK, Document, Token
<1>2. CASE Refused(p)
  BY <1>1, <1>2, FinishKeeps DEF Refused, Finish
<1>3. CASE Rotate(p)
  BY <1>1, <1>3, RotateKeeps
<1>4. CASE Unreached(p)
  <2>1. Finish(p, "error") /\ UNCHANGED server
    BY <1>4 DEF Unreached
  <2>2. lost \subseteq lost' /\ lost' \subseteq Nat
    BY <1>1, <1>4 DEF Unreached
  <2>3. Holds(p) => cred[p].remember.login \in lost'
    BY <1>1, <1>4 DEF Unreached, Holds
  <2> QED
    BY <1>1, <2>1, <2>2, <2>3, FinishKeeps
<1> QED
  BY <1>2, <1>3, <1>4 DEF Mint

(* The document is written.  What it replaces is of the same sign-in, and  *)
(* then not the live token, or of another, and then counted as lost.       *)
LEMMA PersistKeeps == ASSUME IInv, NEW p \in Procs, Persist(p) PROVE IInv'
<1>1. /\ pc[p] = "minted" /\ cred[p] # None
      /\ cred[p] \in Document /\ cred[p].remember.login \in Nat /\ lost \subseteq Nat
      /\ at[p] \in Machines
      /\ UNCHANGED <<server, exported, copied, op, at, sends, effects, runs>>
  BY DEF Persist, IInv, TypeOK, Document, Token
<1>2. CASE Finish(p, "error") /\ lost' = lost \union {cred[p].remember.login} /\ UNCHANGED store
  <2>1. lost \subseteq lost' /\ lost' \subseteq Nat /\ cred[p].remember.login \in lost'
    BY <1>1, <1>2
  <2> QED
    BY <1>1, <1>2, <2>1, FinishKeeps
<1>3. CASE Write(p) /\ (\/ pc' = [pc EXCEPT ![p] = "sending"] /\ UNCHANGED <<cred, result>>
                        \/ Finish(p, "ok")
                        \/ Finish(p, "error"))
  <2>1. /\ store' = [store EXCEPT ![at[p]] = cred[p]]
        /\ lost' = (IF store[at[p]] = None THEN lost
                    ELSE lost \union {store[at[p]].remember.login}) \ {cred[p].remember.login}
    BY <1>3 DEF Write
  <2>2. lost' \subseteq Nat
    BY <1>1, <2>1 DEF IInv, TypeOK, Document, Token
  <2>3. /\ pc' \in [Procs -> {"idle", "sending", "minting", "minted"}]
        /\ cred' \in [Procs -> Document \union {None}]
        /\ result' \in [Procs -> [how : Outcomes, login : Nat]]
        /\ pc'[p] \in {"sending", "idle"} /\ result'[p].how \in {"none", "ok", "error"}
        /\ cred'[p] \in {cred[p], None} /\ (pc'[p] = "sending" => cred'[p] = cred[p])
        /\ (pc'[p] = "sending" => result'[p].how = "none")
        /\ \A q \in Procs \ {p} :
              pc'[q] = pc[q] /\ cred'[q] = cred[q] /\ result'[q] = result[q]
    <3>1. CASE pc' = [pc EXCEPT ![p] = "sending"] /\ UNCHANGED <<cred, result>>
      BY <1>1, <3>1 DEF IInv, TypeOK, Counted
    <3>2. CASE Finish(p, "ok")
      BY <1>1, <3>2 DEF IInv, TypeOK, Finish, Outcomes
    <3>3. CASE Finish(p, "error")
      BY <1>1, <3>3 DEF IInv, TypeOK, Finish, Outcomes
    <3> QED
      BY <1>3, <3>1, <3>2, <3>3
  <2> USE <1>1, <2>1, <2>2, <2>3 DEF server, IInv
  <2>4. TypeOK'
    BY DEF TypeOK
  <2>5. Numbered' /\ OneLive'
    BY DEF TypeOK, Numbered, Known, OneLive
  <2>6. Current' /\ Private'
    <3>0. \A q \in Procs : pc'[q] = "minted" => q # p /\ pc[q] = "minted" /\ cred'[q] = cred[q]
      BY <2>3
    <3> SUFFICES ASSUME NEW q \in Procs, pc'[q] = "minted", q # p, pc[q] = "minted",
                        cred'[q] = cred[q]
                 PROVE  /\ \A t \in live : t.login = cred[q].remember.login => t = cred[q].remember
                        /\ exported # None => exported.remember # cred[q].remember
                        /\ \A m \in Machines :
                              store'[m] # None => store'[m].remember # cred[q].remember
                        /\ \A r \in Procs \ {q} :
                              cred'[r] # None => cred'[r].remember # cred[q].remember
      BY <3>0 DEF Current, Private
    <3>1. cred[p].remember # cred[q].remember
      BY DEF Private
    <3>2. \A m \in Machines : store'[m] \in {store[m], cred[p]}
      BY DEF TypeOK
    <3> QED
      BY <3>1, <3>2 DEF Current, Private
  <2>7. Counted' /\ ActsOnce'
    BY DEF TypeOK, Counted, ActsOnce
  <2>8. Kept'
    <3> SUFFICES ASSUME NEW t \in live, t.login \notin lost'
                 PROVE  \/ \E m \in Machines : store'[m] # None /\ store'[m].remember = t
                        \/ \E q \in Procs : Holds(q)' /\ cred'[q].remember = t
      BY DEF Kept
    <3>1. CASE t.login = cred[p].remember.login
      BY <3>1 DEF TypeOK, Current
    <3>2. CASE t.login # cred[p].remember.login
      <4>1. t.login \notin lost
        BY <3>2
      <4>2. CASE \E m \in Machines : store[m] # None /\ store[m].remember = t
        BY <3>2, <4>2 DEF TypeOK
      <4>3. CASE \E q \in Procs : Holds(q) /\ cred[q].remember = t
        BY <3>2, <4>3 DEF Holds
      <4> QED
        BY <4>1, <4>2, <4>3 DEF Kept
    <3> QED
      BY <3>1, <3>2
  <2> QED
    BY <2>4, <2>5, <2>6, <2>7, <2>8
<1> QED
  BY <1>2, <1>3 DEF Persist

(* A process that dies takes with it what only it knew.                    *)
LEMMA CrashKeeps == ASSUME IInv, NEW p \in Procs, Crash(p) PROVE IInv'
<1>1. /\ Finish(p, "error") /\ pc[p] # "idle"
      /\ UNCHANGED <<server, store, exported, copied, op, at, sends, effects, runs>>
  BY DEF Crash
<1>2. lost \subseteq lost' /\ lost' \subseteq Nat
  BY DEF Crash, IInv, TypeOK, Document, Token
<1>3. Holds(p) => cred[p].remember.login \in lost'
  BY DEF Crash
<1> QED
  BY <1>1, <1>2, <1>3, FinishKeeps

(* The server forgets a session, or a token.                               *)
LEMMA LapseKeeps == ASSUME IInv, Lapse \/ Revoke PROVE IInv'
<1> USE DEF IInv
<1>1. live' \subseteq live /\ signedIn' \subseteq signedIn
      /\ UNCHANGED <<issued, store, exported, copied, pc, op, at, cred, sends, effects, result, lost, runs>>
  BY DEF Lapse, Revoke
<1>2. TypeOK'
  BY <1>1 DEF TypeOK
<1>3. Numbered' /\ OneLive' /\ Current' /\ Private'
  BY <1>1 DEF Numbered, Known, OneLive, Current, Private
<1>4. Counted' /\ ActsOnce' /\ Kept'
  BY <1>1 DEF Counted, ActsOnce, Kept, Holds
<1> QED
  BY <1>2, <1>3, <1>4

(* No step of any process or of the server disturbs IInv.                  *)
LEMMA NextKeeps == IInv /\ [Next]_vars => IInv'
<1> SUFFICES ASSUME IInv, [Next]_vars PROVE IInv'
  OBVIOUS
<1>1. ASSUME NEW p \in Procs, BeginRequest(p) \/ BeginLogin(p) \/ BeginImport(p) PROVE IInv'
  BY <1>1, BeginRequestKeeps, BeginLoginKeeps, BeginImportKeeps
<1>2. ASSUME NEW p \in Procs, Step(p) \/ Crash(p) PROVE IInv'
  BY <1>2, SendKeeps, MintKeeps, PersistKeeps, CrashKeeps DEF Step
<1>3. CASE UNCHANGED vars
  BY <1>3 DEF vars, server, IInv, TypeOK, Numbered, Known, OneLive, Current, Private,
      Counted, Kept, Holds, ActsOnce
<1> QED
  BY <1>1, <1>2, <1>3, ExportKeeps, LapseKeeps DEF Next

-----------------------------------------------------------------------------
(* IInv holds in every state, for any number of machines and processes.    *)
THEOREM Inductive == Spec => []IInv
BY InitIInv, NextKeeps, PTL DEF Spec

(* Every variable keeps its type.                                          *)
THEOREM TypeCorrect == Spec => []TypeOK
<1>1. IInv => TypeOK
  BY DEF IInv
<1> QED
  BY <1>1, Inductive, PTL

(* The remember token the server honours is never lost by sharing it: not  *)
(* among any number of invocations, not after an export (Persist, renew).  *)
THEOREM TokenKept == Spec => []Kept
<1>1. IInv => Kept
  BY DEF IInv
<1> QED
  BY <1>1, Inductive, PTL

(* The request that is sent again after a renewal is acted on once at most *)
(* (request in web.rs).                                                    *)
THEOREM ActedOnce == Spec => []ActsOnce
<1>1. IInv => ActsOnce
  BY DEF IInv
<1> QED
  BY <1>1, Inductive, PTL

(* The session of nobody that the login page sets is never written down:   *)
(* remint refuses the page before anything is stored.                      *)
THEOREM SignedIn == Spec => []StoredIsSignedIn
<1>1. IInv => StoredIsSignedIn
  BY DEF IInv, Numbered, Known, StoredIsSignedIn
<1> QED
  BY <1>1, Inductive, PTL

-----------------------------------------------------------------------------
(* No chain of renewals.                                                   *)
Inv == IInv /\ SentBefore

(* What a step of one process does to the others: nothing.                 *)
LEMMA OthersStand ==
    ASSUME TypeOK, NEW p \in Procs, NEW q \in Procs \ {p},
           BeginRequest(p) \/ BeginLogin(p) \/ BeginImport(p) \/ Step(p) \/ Crash(p)
    PROVE  UNCHANGED <<pc[q], op[q], cred[q], sends[q], effects[q]>>
<1> USE DEF TypeOK
<1>1. CASE BeginRequest(p) \/ BeginLogin(p) \/ BeginImport(p)
  BY <1>1 DEF BeginRequest, BeginLogin, BeginImport, Begin
<1>2. CASE Send(p)
  BY <1>2 DEF Send, Finish
<1>3. CASE Mint(p)
  BY <1>3 DEF Mint, Refused, Rotate, Unreached, Finish
<1>4. CASE Persist(p)
  BY <1>4 DEF Persist, Finish
<1>5. CASE Crash(p)
  BY <1>5 DEF Crash, Finish
<1> QED
  BY <1>1, <1>2, <1>3, <1>4, <1>5 DEF Step

(* A request is in the middle of a renewal only when it was sent once.     *)
LEMMA SentBeforeStands ==
    ASSUME Inv, [Next]_vars PROVE SentBefore'
<1> USE DEF Inv, IInv, TypeOK, SentBefore
<1>1. ASSUME NEW p \in Procs,
             BeginRequest(p) \/ BeginLogin(p) \/ BeginImport(p) \/ Step(p) \/ Crash(p),
             op'[p] = "request" /\ pc'[p] \in {"minting", "minted"} => sends'[p] = 1
      PROVE  SentBefore'
  <2>1. \A q \in Procs \ {p} : UNCHANGED <<pc[q], op[q], cred[q], sends[q], effects[q]>>
    BY <1>1, OthersStand
  <2> QED
    BY <1>1, <2>1
<1>2. ASSUME NEW p \in Procs, BeginRequest(p) \/ BeginLogin(p) \/ BeginImport(p)
      PROVE  SentBefore'
  BY <1>1, <1>2 DEF BeginRequest, BeginLogin, BeginImport, Begin
<1>3. ASSUME NEW p \in Procs, Send(p) PROVE SentBefore'
  BY <1>1, <1>3 DEF Step, Send, Finish
<1>4. ASSUME NEW p \in Procs, Mint(p) PROVE SentBefore'
  BY <1>1, <1>4 DEF Step, Mint, Refused, Rotate, Unreached, Finish
<1>5. ASSUME NEW p \in Procs, Persist(p) PROVE SentBefore'
  BY <1>1, <1>5 DEF Step, Persist, Finish
<1>6. ASSUME NEW p \in Procs, Crash(p) PROVE SentBefore'
  BY <1>1, <1>6 DEF Crash, Finish
<1>7. CASE Export \/ Lapse \/ Revoke \/ UNCHANGED vars
  BY <1>7 DEF Export, Lapse, Revoke, vars
<1> QED
  BY <1>2, <1>3, <1>4, <1>5, <1>6, <1>7 DEF Next, Step

(* A step of a command uses up one of those left to it.                    *)
LEMMA StepsFall ==
    ASSUME Inv, NEW p \in Procs, Step(p) \/ Crash(p)
    PROVE  StepsLeft(p)' < StepsLeft(p)
<1> USE DEF Inv, IInv, TypeOK
<1>1. ASSUME pc[p] # "idle", NEW how, Finish(p, how)
      PROVE  StepsLeft(p)' < StepsLeft(p)
  BY <1>1 DEF Finish, StepsLeft
<1>2. CASE Send(p)
  <2>1. CASE pc' = [pc EXCEPT ![p] = "minting"] /\ sends[p] = 0
    BY <1>2, <2>1 DEF Send, StepsLeft
  <2> QED
    BY <1>1, <1>2, <2>1 DEF Send
<1>3. CASE Mint(p)
  <2>1. CASE pc' = [pc EXCEPT ![p] = "minted"]
    BY <1>3, <2>1 DEF Mint, StepsLeft
  <2> QED
    BY <1>1, <1>3, <2>1 DEF Mint, Refused, Rotate, Unreached
<1>4. CASE Persist(p)
  <2>1. CASE pc' = [pc EXCEPT ![p] = "sending"] /\ op[p] = "request"
    BY <1>4, <2>1 DEF Persist, StepsLeft, SentBefore
  <2> QED
    BY <1>1, <1>4, <2>1 DEF Persist
<1>5. CASE Crash(p)
  BY <1>1, <1>5 DEF Crash
<1> QED
  BY <1>2, <1>3, <1>4, <1>5 DEF Step

AtMostFour == \A p \in Procs : StepsLeft(p) \in 0..4

(* A command is over after four steps of its own at most, whatever the     *)
(* server answers and whatever other commands do: it is renewed for once   *)
(* (request in web.rs).                                                    *)
THEOREM CommandsAreFinite == Spec => []AtMostFour /\ StepsRunOut
<1>1. Init => Inv
  BY InitIInv DEF Init, Inv, SentBefore
<1>2. Inv /\ [Next]_vars => Inv'
  BY NextKeeps, SentBeforeStands DEF Inv
<1>3. Inv => AtMostFour
  BY DEF AtMostFour, Inv, IInv, TypeOK, StepsLeft
<1>4. Inv /\ [Next]_vars => [MoveOn]_vars
  <2> SUFFICES ASSUME Inv, [Next]_vars, NEW p \in Procs, pc[p] # "idle"
               PROVE  \/ StepsLeft(p)' < StepsLeft(p)
                      \/ UNCHANGED <<pc[p], op[p], cred[p], sends[p], effects[p]>>
    BY DEF MoveOn
  <2>1. ASSUME NEW q \in Procs,
               BeginRequest(q) \/ BeginLogin(q) \/ BeginImport(q) \/ Step(q) \/ Crash(q)
        PROVE  \/ StepsLeft(p)' < StepsLeft(p)
               \/ UNCHANGED <<pc[p], op[p], cred[p], sends[p], effects[p]>>
    <3>1. CASE q = p
      <4>1. Step(p) \/ Crash(p)
        BY <2>1, <3>1 DEF BeginRequest, BeginLogin, BeginImport, Begin
      <4> QED
        BY <4>1, StepsFall
    <3>2. CASE q # p
      BY <2>1, <3>2, OthersStand DEF Inv, IInv
    <3> QED
      BY <3>1, <3>2
  <2>2. CASE Export \/ Lapse \/ Revoke \/ UNCHANGED vars
    BY <2>2 DEF Export, Lapse, Revoke, vars
  <2> QED
    BY <2>1, <2>2 DEF Next
<1> QED
  BY <1>1, <1>2, <1>3, <1>4, PTL DEF Spec, StepsRunOut

-----------------------------------------------------------------------------
(* A sign-in whose document nobody copied.                                 *)

(* What the lemmas below know of the types.                                *)
LEMMA SharingTypes ==
    ASSUME SharingInv
    PROVE  /\ pc \in [Procs -> {"idle", "sending", "minting", "minted"}]
           /\ op \in [Procs -> {"none", "request", "login", "import"}]
           /\ at \in [Procs -> Machines]
           /\ store \in [Machines -> Document \union {None}]
           /\ cred \in [Procs -> Document \union {None}]
           /\ result \in [Procs -> [how : Outcomes, login : Nat]]
           /\ issued \in Nat /\ exported \in Document \union {None}
           /\ \A p \in Procs : pc[p] # "idle" => cred[p] \in Document /\ cred[p] # None
                                                 /\ result[p].how = "none"
BY DEF SharingInv, IInv, TypeOK, Counted

(* A document stays in its place while commands go on, or end, without     *)
(* writing.                                                                *)
LEMMA PlaceStands ==
    ASSUME SharingInv, UNCHANGED <<store, exported, copied, op, at>>,
           \A q \in Procs : cred'[q] = None \/
               (cred'[q] = cred[q] /\ (pc'[q] # "minted" => pc[q] # "minted"))
    PROVE  InOnePlace' /\ FromItsStore'
<1>1. InOnePlace'
  BY DEF SharingInv, InOnePlace, Uncopied, SameSignIn
<1>2. FromItsStore'
  BY DEF SharingInv, FromItsStore, Uncopied, SameSignIn
<1> QED
  BY <1>1, <1>2

(* The token that replaces one belongs to the same sign-in.                *)
LEMMA PlaceOfTheNew ==
    ASSUME SharingInv, NEW p \in Procs, cred[p] # None, NEW fresh,
           fresh.remember.login = cred[p].remember.login,
           UNCHANGED <<store, exported, copied, op, at>>,
           cred' = [cred EXCEPT ![p] = fresh], pc' = [pc EXCEPT ![p] = "minted"]
    PROVE  InOnePlace' /\ FromItsStore'
<1>1. /\ cred'[p] = fresh /\ pc'[p] = "minted"
      /\ \A q \in Procs \ {p} : cred'[q] = cred[q] /\ pc'[q] = pc[q]
  BY SharingTypes
<1>2. InOnePlace'
  BY <1>1 DEF SharingInv, InOnePlace, Uncopied, SameSignIn
<1>3. ASSUME NEW q \in Procs, NEW m \in Machines, Uncopied(cred[q], store[m])'
      PROVE  /\ op[q] = "request" /\ at[q] = m
             /\ pc'[q] # "minted" => cred'[q] = store[m]
  <2>1. Uncopied(cred[q], store[m])
    BY <1>1, <1>3 DEF Uncopied, SameSignIn
  <2> QED
    BY <1>1, <2>1 DEF SharingInv, FromItsStore
<1> QED
  BY <1>2, <1>3 DEF FromItsStore

(* A command writes to the place its document came from.                   *)
LEMMA PlaceWrittenTo ==
    ASSUME SharingInv, NEW p \in Procs, pc[p] = "minted", Write(p),
           UNCHANGED <<exported, copied, op, at>>,
           \A q \in Procs \ {p} : pc'[q] = pc[q] /\ cred'[q] = cred[q],
           cred'[p] = None \/ (op[p] = "request" /\ cred'[p] = cred[p])
    PROVE  InOnePlace' /\ FromItsStore'
<1> DEFINE doc == cred[p]
           login == doc.remember.login
<1>1. /\ at[p] \in Machines /\ doc # None
      /\ store'[at[p]] = doc /\ \A m \in Machines \ {at[p]} : store'[m] = store[m]
  BY SharingTypes DEF Write
<1>2. ASSUME NEW m \in Machines, m # at[p], store[m] # None, store[m].remember.login = login
      PROVE  login \in copied
  BY <1>1, <1>2 DEF SharingInv, FromItsStore, Uncopied, SameSignIn
<1>3. ASSUME NEW q \in Procs, q # p, cred[q] # None, cred[q].remember.login = login
      PROVE  login \in copied
  BY <1>1, <1>3 DEF SharingInv, InOnePlace, Uncopied, SameSignIn
<1> HIDE DEF doc, login
<1>4. login = doc.remember.login /\ doc = cred[p]
  BY DEF login, doc
<1>5. InOnePlace'
  <2>1. \A m, k \in Machines : Uncopied(store[m], store[k])' => m = k
    <3> SUFFICES ASSUME NEW m \in Machines, NEW k \in Machines, m # k,
                        Uncopied(store[m], store[k])'
                 PROVE  FALSE
      OBVIOUS
    <3>1. CASE m = at[p]
      BY <1>1, <1>2, <1>4, <3>1 DEF Uncopied, SameSignIn
    <3>2. CASE k = at[p]
      BY <1>1, <1>2, <1>4, <3>2 DEF Uncopied, SameSignIn
    <3>3. CASE m # at[p] /\ k # at[p]
      BY <1>1, <3>3 DEF SharingInv, InOnePlace, Uncopied, SameSignIn
    <3> QED
      BY <3>1, <3>2, <3>3
  <2>2. \A r, q \in Procs : Uncopied(cred[r], cred[q])' => r = q
    BY DEF SharingInv, InOnePlace, Uncopied, SameSignIn
  <2> QED
    BY <2>1, <2>2 DEF SharingInv, InOnePlace
<1>6. ASSUME NEW q \in Procs, NEW m \in Machines, Uncopied(cred[q], store[m])'
      PROVE  /\ op[q] = "request" /\ at[q] = m
             /\ pc'[q] # "minted" => cred'[q] = store'[m]
  <2>1. CASE q = p
    <3>1. cred'[p] = doc /\ op[p] = "request"
      BY <1>4, <1>6, <2>1 DEF Uncopied, SameSignIn
    <3>2. m = at[p]
      BY <1>1, <1>2, <1>4, <1>6, <2>1, <3>1 DEF Uncopied, SameSignIn
    <3> QED
      BY <1>1, <2>1, <3>1, <3>2
  <2>2. CASE q # p
    <3>1. m # at[p]
      BY <1>1, <1>3, <1>4, <1>6, <2>2 DEF Uncopied, SameSignIn
    <3>2. Uncopied(cred[q], store[m])
      BY <1>1, <1>6, <2>2, <3>1 DEF Uncopied, SameSignIn
    <3> QED
      BY <1>1, <2>2, <3>1, <3>2 DEF SharingInv, FromItsStore
  <2> QED
    BY <2>1, <2>2
<1> QED
  BY <1>5, <1>6 DEF FromItsStore

(* A command that begins with the document of a store, with one that was   *)
(* copied, or with a sign-in of its own.                                   *)
LEMMA PlaceToBegin ==
    ASSUME SharingInv, NEW p \in Procs, NEW m \in Machines, NEW command, NEW doc, NEW step,
           Begin(p, m, command, doc, step), doc # None,
           \/ store[m] = doc /\ command = "request" /\ step # "minted"
           \/ doc.remember.login \in copied
           \/ \A k \in Machines : ~SameSignIn(doc, store[k])
    PROVE  InOnePlace' /\ FromItsStore'
<1>1. /\ copied \subseteq copied' /\ UNCHANGED <<store, exported>>
      /\ cred'[p] = doc /\ pc'[p] = step /\ op'[p] = command /\ at'[p] = m
      /\ \A q \in Procs \ {p} : /\ cred'[q] = cred[q] /\ pc'[q] = pc[q]
                                /\ op'[q] = op[q] /\ at'[q] = at[q]
  BY SharingTypes DEF Begin
<1>2. ASSUME NEW q \in Procs, q # p, SameSignIn(cred[q], doc)
      PROVE  doc.remember.login \in copied'
  <2>1. q \in AlsoHeld(p, doc)
    BY <1>2 DEF AlsoHeld, SameSignIn
  <2> QED
    BY <2>1 DEF Begin
<1>3. InOnePlace'
  BY <1>1, <1>2 DEF SharingInv, InOnePlace, Uncopied, SameSignIn
<1>4. ASSUME NEW q \in Procs, NEW k \in Machines, Uncopied(cred[q], store[k])'
      PROVE  /\ op'[q] = "request" /\ at'[q] = k
             /\ pc'[q] # "minted" => cred'[q] = store'[k]
  <2>1. CASE q = p
    <3>1. SameSignIn(doc, store[k]) /\ doc.remember.login \notin copied
      BY <1>1, <1>4, <2>1 DEF Uncopied, SameSignIn
    <3>2. store[m] = doc /\ command = "request" /\ step # "minted"
      BY <3>1
    <3>3. m = k
      BY <3>1, <3>2 DEF SharingInv, InOnePlace, Uncopied, SameSignIn
    <3> QED
      BY <1>1, <2>1, <3>2, <3>3
  <2>2. CASE q # p
    <3>1. Uncopied(cred[q], store[k])
      BY <1>1, <1>4, <2>2 DEF Uncopied, SameSignIn
    <3> QED
      BY <1>1, <2>2, <3>1 DEF SharingInv, FromItsStore
  <2> QED
    BY <2>1, <2>2
<1> QED
  BY <1>3, <1>4 DEF FromItsStore

(* The sign-ins a step may make a token for: a new one, one that was       *)
(* copied, and one of which a command has a live token.                    *)
MayGrow(l) ==
    \/ l = issued + 1 \/ l \in copied'
    \/ \E q \in Procs : cred[q] # None /\ cred[q].remember \in live /\ cred[q].remember.login = l

(* What is gone stays gone.                                                *)
LEMMA GoneStays ==
    ASSUME SharingInv,
           copied \subseteq copied', issued' \in {issued, issued + 1},
           \A t \in live' : t \in live \/ MayGrow(t.login),
           \A q \in Procs : result'[q] = result[q] \/ result'[q].how # "expired",
           \A m \in Machines : store'[m] = store[m]
                                 \/ \E q \in Procs : cred[q] # None /\ store'[m] = cred[q],
           \A q \in Procs : \/ cred'[q] \in {None, cred[q]}
                            \/ \E m \in Machines : store[m] # None /\ cred'[q] = store[m]
                            \/ MayGrow(cred'[q].remember.login)
    PROVE  GoneForGood'
<1> SUFFICES ASSUME NEW p \in Procs, result'[p].how = "expired", result'[p].login \notin copied'
             PROVE  /\ result'[p].login <= issued'
                    /\ \A m \in Machines :
                          store'[m] # None /\ store'[m].remember.login = result'[p].login
                              => store'[m].remember \notin live'
                    /\ \A q \in Procs :
                          cred'[q] # None /\ cred'[q].remember.login = result'[p].login
                              => cred'[q].remember \notin live'
  BY DEF GoneForGood
<1> DEFINE login == result'[p].login
<1>1. /\ result[p].how = "expired" /\ result[p].login = login /\ login \notin copied
      /\ result'[p].login = login /\ login \in Nat /\ issued \in Nat
  BY SharingTypes
<1>2. /\ login <= issued
      /\ \A m \in Machines : store[m] # None /\ store[m].remember.login = login
                               => store[m].remember \notin live
      /\ \A q \in Procs : cred[q] # None /\ cred[q].remember.login = login
                               => cred[q].remember \notin live
  BY <1>1 DEF SharingInv, GoneForGood
<1> HIDE DEF login
<1>3. ~MayGrow(login)
  <2>1. login # issued + 1
    BY <1>1, <1>2
  <2> QED
    BY <1>1, <1>2, <2>1 DEF MayGrow
<1>4. ASSUME NEW t, t.login = login, t \notin live PROVE t \notin live'
  BY <1>3, <1>4
<1>5. login <= issued'
  BY <1>1, <1>2
<1>6. ASSUME NEW m \in Machines, store'[m] # None, store'[m].remember.login = login
      PROVE  store'[m].remember \notin live'
  BY <1>2, <1>4, <1>6
<1>7. ASSUME NEW q \in Procs, cred'[q] # None, cred'[q].remember.login = login
      PROVE  cred'[q].remember \notin live'
  BY <1>2, <1>3, <1>4, <1>7
<1> QED
  BY <1>1, <1>5, <1>6, <1>7

(* A refusal means that the sign-in is gone: the store has what was        *)
(* refused, and nobody else has anything of it.                            *)
LEMMA RefusalMeansGone ==
    ASSUME SharingInv, NEW p \in Procs, Mint(p), Refused(p)
    PROVE  GoneForGood'
<1> DEFINE login == cred[p].remember.login
           Gone(l) == /\ l <= issued
                      /\ \A m \in Machines : store[m] # None /\ store[m].remember.login = l
                                               => store[m].remember \notin live
                      /\ \A q \in Procs \ {p} : cred[q] # None /\ cred[q].remember.login = l
                                               => cred[q].remember \notin live
<1>1. /\ pc[p] = "minting" /\ cred[p].remember \notin live /\ cred[p] # None
      /\ UNCHANGED <<live, issued, store, copied>>
      /\ result' = [result EXCEPT ![p] = [how |-> "expired", login |-> login]]
      /\ cred' = [cred EXCEPT ![p] = None]
  BY SharingTypes DEF Mint, Refused, Finish, server
<1>2. /\ result'[p].login = login /\ \A q \in Procs \ {p} : result'[q] = result[q]
      /\ cred'[p] = None /\ \A q \in Procs \ {p} : cred'[q] = cred[q]
  BY <1>1, SharingTypes
<1>3. ASSUME login \notin copied PROVE Gone(login)
  <2>1. login <= issued
    BY <1>1 DEF SharingInv, IInv, Numbered, Known
  <2>2. ASSUME NEW m \in Machines, store[m] # None, store[m].remember.login = login
        PROVE  store[m].remember \notin live
    <3>1. Uncopied(cred[p], store[m])
      BY <1>1, <1>3, <2>2 DEF Uncopied, SameSignIn
    <3> QED
      BY <1>1, <3>1 DEF SharingInv, FromItsStore
  <2>3. ASSUME NEW q \in Procs \ {p}, cred[q] # None, cred[q].remember.login = login
        PROVE  FALSE
    <3>1. Uncopied(cred[p], cred[q])
      BY <1>1, <1>3, <2>3 DEF Uncopied, SameSignIn
    <3> QED
      BY <2>3, <3>1 DEF SharingInv, InOnePlace
  <2> QED
    BY <2>1, <2>2, <2>3
<1>4. ASSUME NEW q \in Procs \ {p}, result[q].how = "expired", result[q].login \notin copied
      PROVE  Gone(result[q].login)
  BY <1>4 DEF SharingInv, GoneForGood
<1>5. ASSUME NEW q \in Procs, result'[q].how = "expired", result'[q].login \notin copied
      PROVE  Gone(result'[q].login)
  BY <1>2, <1>3, <1>4, <1>5
<1> QED
  BY <1>1, <1>2, <1>5 DEF GoneForGood

(* The start of a command.                                                 *)
LEMMA BeginShares ==
    ASSUME SharingInv, NEW p \in Procs, BeginRequest(p) \/ BeginLogin(p) \/ BeginImport(p)
    PROVE  InOnePlace' /\ FromItsStore' /\ GoneForGood'
<1>1. ASSUME NEW m \in Machines, NEW command, NEW doc, NEW step,
             Begin(p, m, command, doc, step)
      PROVE  /\ cred'[p] = doc /\ \A q \in Procs \ {p} : cred'[q] = cred[q]
             /\ \A q \in Procs : result'[q] = result[q] \/ result'[q].how # "expired"
             /\ copied \subseteq copied' /\ UNCHANGED store
  BY <1>1, SharingTypes DEF Begin
<1>2. ASSUME NEW m \in Machines, store[m] # None,
             Begin(p, m, "request", store[m], "sending"), UNCHANGED server
      PROVE  InOnePlace' /\ FromItsStore' /\ GoneForGood'
  <2>1. InOnePlace' /\ FromItsStore'
    BY <1>2, PlaceToBegin
  <2>2. GoneForGood'
    BY <1>1, <1>2, SharingTypes, GoneStays DEF server
  <2> QED
    BY <2>1, <2>2
<1>3. ASSUME NEW m \in Machines, exported # None,
             Begin(p, m, "import", exported, "minting"), UNCHANGED server
      PROVE  InOnePlace' /\ FromItsStore' /\ GoneForGood'
  <2>1. exported.remember.login \in copied
    BY <1>3 DEF SharingInv, InOnePlace
  <2>2. InOnePlace' /\ FromItsStore'
    BY <1>3, <2>1, PlaceToBegin
  <2>3. GoneForGood'
    <3>1. cred'[p] = exported /\ MayGrow(exported.remember.login)
      BY <1>1, <1>3, <2>1 DEF MayGrow
    <3> QED
      BY <1>1, <1>3, <3>1, SharingTypes, GoneStays DEF server
  <2> QED
    BY <2>2, <2>3
<1>4. ASSUME NEW m \in Machines, Begin(p, m, "login", Issued(issued + 1), "minting"),
             live' = live \union {Issued(issued + 1).remember}, issued' = issued + 1
      PROVE  InOnePlace' /\ FromItsStore' /\ GoneForGood'
  <2> DEFINE fresh == Issued(issued + 1)
  <2>0. issued \in Nat /\ issued + 1 \in Nat
    BY SharingTypes
  <2>1. fresh # None /\ fresh.remember.login = issued + 1
    BY <2>0, FreshDocument
  <2> HIDE DEF fresh
  <2>2. \A k \in Machines : ~SameSignIn(fresh, store[k])
    BY <2>1, SharingTypes DEF SharingInv, IInv, Numbered, Known, SameSignIn
  <2>3. Begin(p, m, "login", fresh, "minting") /\ live' = live \union {fresh.remember}
    BY <1>4 DEF fresh
  <2>4. InOnePlace' /\ FromItsStore'
    BY <2>1, <2>2, <2>3, PlaceToBegin
  <2>5. GoneForGood'
    <3>1. cred'[p] = fresh /\ MayGrow(fresh.remember.login)
      BY <1>1, <2>1, <2>3 DEF MayGrow
    <3> QED
      BY <1>1, <1>4, <2>3, <3>1, SharingTypes, GoneStays
  <2> QED
    BY <2>4, <2>5
<1> QED
  BY <1>2, <1>3, <1>4 DEF BeginRequest, BeginImport, BeginLogin

(* A command that ends or goes on without a new token and without writing. *)
LEMMA GoingOnShares ==
    ASSUME SharingInv, UNCHANGED <<store, exported, copied, op, at, issued>>,
           live' \subseteq live,
           \A q \in Procs : result'[q] = result[q] \/ result'[q].how # "expired",
           \A q \in Procs : cred'[q] = None \/
               (cred'[q] = cred[q] /\ (pc'[q] # "minted" => pc[q] # "minted"))
    PROVE  InOnePlace' /\ FromItsStore' /\ GoneForGood'
<1>1. GoneForGood'
  BY GoneStays
<1> QED
  BY <1>1, PlaceStands

(* How a command ends.                                                     *)
LEMMA EndOfCommand ==
    ASSUME SharingInv, NEW p \in Procs, NEW how \in {"ok", "error", "unserved"}, Finish(p, how)
    PROVE  /\ cred'[p] = None /\ \A q \in Procs \ {p} : cred'[q] = cred[q] /\ pc'[q] = pc[q]
           /\ \A q \in Procs : result'[q] = result[q] \/ result'[q].how # "expired"
BY SharingTypes DEF Finish

(* The renewal.                                                            *)
LEMMA RotateShares ==
    ASSUME SharingInv, NEW p \in Procs, Mint(p), Rotate(p)
    PROVE  InOnePlace' /\ FromItsStore' /\ GoneForGood'
<1> DEFINE login == cred[p].remember.login
           fresh == Issued(login)
<1>1. /\ pc[p] = "minting" /\ cred[p] # None /\ cred[p].remember \in live
      /\ UNCHANGED <<store, exported, copied, op, at>> /\ issued' = issued + 1
      /\ live' = (live \ {cred[p].remember}) \union {fresh.remember}
  BY SharingTypes DEF Mint, Rotate
<1>2. fresh.remember.login = login /\ MayGrow(login)
  BY <1>1 DEF Issued, MayGrow
<1>5. \A t \in live' : t \in live \/ MayGrow(t.login)
  BY <1>1, <1>2
<1> HIDE DEF fresh, login
<1>3. CASE Finish(p, "error")
  <2>1. GoneForGood'
    BY <1>1, <1>3, <1>5, EndOfCommand, SharingTypes, GoneStays
  <2> QED
    BY <1>1, <1>3, <2>1, EndOfCommand, PlaceStands
<1>4. CASE /\ cred' = [cred EXCEPT ![p] = fresh] /\ pc' = [pc EXCEPT ![p] = "minted"]
           /\ UNCHANGED result
  <2>1. InOnePlace' /\ FromItsStore'
    BY <1>1, <1>2, <1>4, PlaceOfTheNew DEF login
  <2>2. cred'[p].remember.login = login /\ \A q \in Procs \ {p} : cred'[q] = cred[q]
    BY <1>2, <1>4, SharingTypes
  <2>3. GoneForGood'
    BY <1>1, <1>2, <1>4, <1>5, <2>2, SharingTypes, GoneStays
  <2> QED
    BY <2>1, <2>3
<1> QED
  BY <1>3, <1>4 DEF Rotate, Renewed, fresh, login

(* The store.                                                              *)
LEMMA PersistShares ==
    ASSUME SharingInv, NEW p \in Procs, Persist(p)
    PROVE  InOnePlace' /\ FromItsStore' /\ GoneForGood'
<1>1. pc[p] = "minted" /\ cred[p] # None /\ UNCHANGED <<server, exported, copied, op, at>>
  BY SharingTypes DEF Persist
<1>2. CASE UNCHANGED store /\ Finish(p, "error")
  BY <1>1, <1>2, EndOfCommand, GoingOnShares DEF server
<1>3. CASE Write(p) /\ \/ op[p] = "request" /\ pc' = [pc EXCEPT ![p] = "sending"]
                           /\ UNCHANGED <<cred, result>>
                       \/ Finish(p, "ok") \/ Finish(p, "error")
  <2>1. /\ \A q \in Procs \ {p} : pc'[q] = pc[q] /\ cred'[q] = cred[q]
        /\ cred'[p] = None \/ (op[p] = "request" /\ cred'[p] = cred[p])
        /\ \A q \in Procs : result'[q] = result[q] \/ result'[q].how # "expired"
    BY <1>3, EndOfCommand, SharingTypes
  <2>2. \A m \in Machines : store'[m] = store[m] \/ store'[m] = cred[p]
    BY <1>3, SharingTypes DEF Write
  <2>3. InOnePlace' /\ FromItsStore'
    BY <1>1, <1>3, <2>1, PlaceWrittenTo
  <2>4. GoneForGood'
    BY <1>1, <2>1, <2>2, GoneStays DEF server
  <2> QED
    BY <2>3, <2>4
<1> QED
  BY <1>2, <1>3 DEF Persist

LEMMA SharingKept == ASSUME SharingInv, [Next]_vars PROVE SharingInv'
<1> DEFINE Goal == InOnePlace' /\ FromItsStore' /\ GoneForGood'
<1> HIDE DEF Goal
<1>1. ASSUME NEW p \in Procs, Send(p) PROVE Goal
  <2>1. pc[p] = "sending" /\ UNCHANGED <<server, store, exported, copied, op, at>>
    BY <1>1 DEF Send
  <2>2. \/ pc' = [pc EXCEPT ![p] = "minting"] /\ UNCHANGED <<cred, result>>
        \/ \E how \in {"ok", "error", "unserved"} : Finish(p, how)
    BY <1>1 DEF Send, Outcome
  <2>3. CASE pc' = [pc EXCEPT ![p] = "minting"] /\ UNCHANGED <<cred, result>>
    <3>1. pc'[p] = "minting" /\ \A q \in Procs \ {p} : pc'[q] = pc[q]
      BY <2>3, SharingTypes
    <3> QED
      BY <2>1, <2>3, <3>1, GoingOnShares DEF server, Goal
  <2> QED
    BY <2>1, <2>2, <2>3, EndOfCommand, GoingOnShares DEF server, Goal
<1>2. ASSUME NEW p \in Procs, Mint(p) PROVE Goal
  <2>1. CASE Refused(p)
    <3>1. /\ UNCHANGED <<store, exported, copied, op, at>> /\ cred'[p] = None
          /\ \A q \in Procs \ {p} : cred'[q] = cred[q] /\ pc'[q] = pc[q]
      BY <1>2, <2>1, SharingTypes DEF Mint, Refused, Finish
    <3> QED
      BY <1>2, <2>1, <3>1, PlaceStands, RefusalMeansGone DEF Goal
  <2>2. CASE Rotate(p)
    BY <1>2, <2>2, RotateShares DEF Goal
  <2>3. CASE Unreached(p)
    BY <1>2, <2>3, EndOfCommand, GoingOnShares DEF Mint, Unreached, server, Goal
  <2> QED
    BY <1>2, <2>1, <2>2, <2>3 DEF Mint
<1>3. ASSUME NEW p \in Procs, Crash(p) PROVE Goal
  BY <1>3, EndOfCommand, GoingOnShares DEF Crash, server, Goal
<1>4. ASSUME Export PROVE Goal
  <2>1. PICK m \in Machines : /\ store[m] # None /\ exported' = store[m]
                              /\ copied' = copied \union {store[m].remember.login}
    BY <1>4 DEF Export
  <2>2. UNCHANGED <<server, store, pc, op, at, cred, result>>
    BY <1>4 DEF Export
  <2>3. InOnePlace'
    BY <2>1, <2>2 DEF SharingInv, InOnePlace, Uncopied, SameSignIn
  <2>4. FromItsStore' /\ GoneForGood'
    BY <2>1, <2>2 DEF SharingInv, FromItsStore, GoneForGood, Uncopied, SameSignIn, server
  <2> QED
    BY <2>3, <2>4 DEF Goal
<1>5. ASSUME Lapse \/ Revoke \/ UNCHANGED vars PROVE Goal
  <2>1. /\ UNCHANGED <<store, exported, copied, pc, op, at, cred, result, issued>>
        /\ live' \subseteq live
    BY <1>5 DEF Lapse, Revoke, vars, server
  <2> QED
    BY <2>1, GoingOnShares DEF Goal
<1>6. Goal
  BY <1>1, <1>2, <1>3, <1>4, <1>5, BeginShares, PersistShares DEF Next, Step, Goal
<1> QED
  BY <1>6, NextKeeps DEF SharingInv, Goal

(* A password is asked for only when the sign-in is gone, as long as no    *)
(* other command or machine was given its document (remint in web.rs): for *)
(* any number of processes and machines.                                   *)
THEOREM AsksWhenGone == Spec => []ExpiredIsGone
<1>1. Init => SharingInv
  <2>1. Init => InOnePlace /\ FromItsStore /\ GoneForGood
    BY DEF Init, InOnePlace, FromItsStore, GoneForGood, Uncopied, SameSignIn
  <2> QED
    BY <2>1, InitIInv DEF SharingInv
<1>2. SharingInv /\ [Next]_vars => SharingInv'
  BY SharingKept
<1>3. SharingInv => ExpiredIsGone
  <2> SUFFICES ASSUME SharingInv, NEW p \in Procs, result[p].how = "expired",
                      result[p].login \notin copied, NEW t \in live,
                      t.login = result[p].login
               PROVE  t.login \in lost
    BY DEF ExpiredIsGone
  <2>1. \A m \in Machines : ~(store[m] # None /\ store[m].remember = t)
    BY DEF SharingInv, GoneForGood
  <2>2. \A q \in Procs : Holds(q) => cred[q] # None
    BY SharingTypes DEF Holds
  <2>3. \A q \in Procs : ~(Holds(q) /\ cred[q].remember = t)
    BY <2>2 DEF SharingInv, GoneForGood
  <2> QED
    BY <2>1, <2>3 DEF SharingInv, IInv, Kept
<1> QED
  BY <1>1, <1>2, <1>3, PTL DEF Spec
=============================================================================
