----------------------------- MODULE WebSession -----------------------------
(***************************************************************************)
(* The session `gea web` keeps with an instance's web root.  The document  *)
(* it stores holds a remember token and the session minted from it.  When  *)
(* the server says that the session lapsed, the remember token is traded   *)
(* for a new session AND a new remember token: the one presented is dead   *)
(* from then on.                                                           *)
(*                                                                         *)
(* The hazards: several invocations, or several machines, hold a copy of   *)
(* one document; a reply is lost, a write fails or the process dies        *)
(* between the server's rotation and the store; a request is sent again    *)
(* after an answer that may mean two things.                               *)
(***************************************************************************)
EXTENDS Integers, FiniteSets

CONSTANTS Machines,  \* each with a credential store of its own
          Procs,     \* the processes that may run at a time
          Exports,   \* whether documents are moved by `gea auth export`
          MaxRuns,   \* bound on the invocations
          None

VARIABLES live,      \* the server: the remember tokens it honours
          signedIn,  \* the server: the sessions that are signed in
          issued,    \* the server: sign-ins made so far
          store,     \* per machine, the document of the web slot
          exported,  \* a document that was exported
          copied,    \* history: the sign-ins whose document was exported, or in
                     \* the hands of two processes at a time
          pc, op, at, cred, sends,  \* per process: its step, command, machine,
                     \* its copy of the document, and the requests it sent
          effects,   \* per process, how often the server acted on its request
          result,    \* per process, how its last command ended
          lost,      \* the sign-ins whose remember token nobody recorded
          runs       \* invocations so far

server == <<live, signedIn, issued>>
vars == <<server, store, exported, copied, pc, op, at, cred, sends, effects, result,
          lost, runs>>

(* A remember token knows the sign-in it goes back to, so does a session,  *)
(* numbered like the token that came with it.  Session 0 is one of nobody: *)
(* the login page sets it too.                                             *)
Token == [login : Nat, n : Nat]
Document == [remember : Token, session : Nat]
Anonymous == 0
Outcomes == {"none", "ok", "error", "unserved", "expired"}

ASSUME WebSessionAssumption ==
    Exports \in BOOLEAN /\ MaxRuns \in Nat /\ None \notin Document

Init ==
    /\ live = {} /\ signedIn = {} /\ issued = 0
    /\ store = [m \in Machines |-> None] /\ exported = None /\ copied = {}
    /\ pc = [p \in Procs |-> "idle"] /\ op = [p \in Procs |-> "none"]
    /\ at \in [Procs -> Machines]
    /\ cred = [p \in Procs |-> None]
    /\ sends = [p \in Procs |-> 0] /\ effects = [p \in Procs |-> 0]
    /\ result = [p \in Procs |-> [how |-> "none", login |-> 0]]
    /\ lost = {} /\ runs = 0

Issued(login) ==
    [remember |-> [login |-> login, n |-> issued + 1], session |-> issued + 1]

-----------------------------------------------------------------------------
(* The processes beside p that have a document of the same sign-in.        *)
AlsoHeld(p, doc) ==
    {q \in Procs \ {p} : cred[q] # None /\ cred[q].remember.login = doc.remember.login}

Begin(p, m, command, doc, step) ==
    /\ pc[p] = "idle" /\ runs < MaxRuns
    /\ runs' = runs + 1
    /\ pc' = [pc EXCEPT ![p] = step]
    /\ op' = [op EXCEPT ![p] = command]
    /\ at' = [at EXCEPT ![p] = m]
    /\ cred' = [cred EXCEPT ![p] = doc]
    /\ sends' = [sends EXCEPT ![p] = 0] /\ effects' = [effects EXCEPT ![p] = 0]
    /\ result' = [result EXCEPT ![p] = [how |-> "none", login |-> 0]]
    /\ copied' = copied \union {doc.remember.login : q \in AlsoHeld(p, doc)}
    /\ UNCHANGED <<store, exported, lost>>

(* A request under the web root: it uses the document the store holds.     *)
BeginRequest(p) ==
    \E m \in Machines :
        /\ store[m] # None
        /\ Begin(p, m, "request", store[m], "sending")
        /\ UNCHANGED server

(* `auth login --with-password`: the server signs in, and remembers.       *)
BeginLogin(p) ==
    \E m \in Machines :
        /\ Begin(p, m, "login", Issued(issued + 1), "minting")
        /\ live' = live \union {Issued(issued + 1).remember}
        /\ signedIn' = signedIn \union {issued + 1}
        /\ issued' = issued + 1

(* `auth export --web` on one machine ...                                  *)
Export ==
    /\ Exports
    /\ \E m \in Machines : /\ store[m] # None /\ exported' = store[m]
                           /\ copied' = copied \union {store[m].remember.login}
    /\ UNCHANGED <<server, store, pc, op, at, cred, sends, effects, result, lost, runs>>

(* ... and `auth import --web` on another.                                 *)
BeginImport(p) ==
    \E m \in Machines :
        /\ exported # None
        /\ Begin(p, m, "import", exported, "minting")
        /\ UNCHANGED server

Finish(p, how) ==
    /\ pc' = [pc EXCEPT ![p] = "idle"]
    /\ result' = [result EXCEPT ![p] =
          [how |-> how, login |-> IF how = "expired" THEN cred[p].remember.login ELSE 0]]
    /\ cred' = [cred EXCEPT ![p] = None]

-----------------------------------------------------------------------------
(* The request, with the session of the document.  The server acts on it   *)
(* only when it is signed in; otherwise it points to the login page,       *)
(* answers 404 about what is private, or shows what is public to anybody.  *)
(* No answer at all ends the command.                                      *)
worth_renewingAnyFailure(reply) == reply # "ok"

worth_renewing(reply) == reply \in {"login_page", "not_found"}

Replies == {"ok", "login_page", "not_found", "lost"}

Acts(p, reply, acts) ==
    /\ acts = 1 => cred[p].session \in signedIn
    /\ reply = "login_page" => cred[p].session \notin signedIn
    /\ reply \in {"login_page", "not_found"} => acts = 0

Outcome(reply) ==
    IF reply = "ok" THEN "ok" ELSE IF reply = "lost" THEN "error" ELSE "unserved"

SendAgainAndAgain(p) ==
    /\ pc[p] = "sending"
    /\ \E reply \in Replies, acts \in {0, 1} :
        /\ Acts(p, reply, acts)
        /\ effects' = [effects EXCEPT ![p] = acts]
        /\ sends' = [sends EXCEPT ![p] = 1 + (@ % 2)]
        /\ IF worth_renewing(reply)
           THEN /\ pc' = IF sends[p] = 0 THEN [pc EXCEPT ![p] = "minting"] ELSE pc
                /\ UNCHANGED <<cred, result>>
           ELSE Finish(p, Outcome(reply))
    /\ UNCHANGED <<server, store, exported, copied, op, at, lost, runs>>

Send(p) ==
    /\ pc[p] = "sending"
    /\ \E reply \in Replies, acts \in {0, 1} :
        /\ Acts(p, reply, acts)
        /\ effects' = [effects EXCEPT ![p] = @ + acts]
        /\ sends' = [sends EXCEPT ![p] = @ + 1]
        /\ IF worth_renewing(reply) /\ sends[p] = 0
           THEN pc' = [pc EXCEPT ![p] = "minting"] /\ UNCHANGED <<cred, result>>
           ELSE Finish(p, Outcome(reply))
    /\ UNCHANGED <<server, store, exported, copied, op, at, lost, runs>>

-----------------------------------------------------------------------------
(* remint and renew: GET /user/login with the remember token.              *)
RenewedKeepingToken(doc, fresh) == [doc EXCEPT !.session = fresh.session]

Renewed(doc, fresh) == fresh

(* A token the server does not honour gets the login page.                 *)
RefusedWithItsCookie(p) ==
    /\ cred[p].remember \notin live
    /\ cred' = [cred EXCEPT ![p].session = Anonymous]
    /\ pc' = [pc EXCEPT ![p] = "minted"]
    /\ UNCHANGED <<server, result, lost>>

Refused(p) ==
    /\ cred[p].remember \notin live
    /\ Finish(p, "expired")
    /\ UNCHANGED <<server, lost>>

(* The token is rotated, and the answer is the only place the new one is.  *)
Rotate(p) ==
    LET fresh == Issued(cred[p].remember.login)
    IN  /\ cred[p].remember \in live
        /\ live' = (live \ {cred[p].remember}) \union {fresh.remember}
        /\ signedIn' = signedIn \union {fresh.session}
        /\ issued' = issued + 1
        /\ \/ /\ cred' = [cred EXCEPT ![p] = Renewed(@, fresh)]
              /\ pc' = [pc EXCEPT ![p] = "minted"]
              /\ UNCHANGED <<result, lost>>
           \/ Finish(p, "error") /\ lost' = lost \union {cred[p].remember.login}

(* The request to renew does not arrive.  A sign-in not yet stored is lost *)
(* with the command.                                                       *)
Unreached(p) ==
    /\ Finish(p, "error")
    /\ lost' = IF op[p] = "login" THEN lost \union {cred[p].remember.login} ELSE lost
    /\ UNCHANGED server

Mint(p) ==
    /\ pc[p] = "minting"
    /\ Refused(p) \/ Rotate(p) \/ Unreached(p)
    /\ UNCHANGED <<store, exported, copied, op, at, sends, effects, runs>>

(* The document is written before its session is used.  What it replaces   *)
(* may be another sign-in.  The keyring may have it although the save of   *)
(* hosts.toml that follows fails the command.                              *)
Write(p) ==
    LET login == cred[p].remember.login
        old == store[at[p]]
    IN  /\ store' = [store EXCEPT ![at[p]] = cred[p]]
        /\ lost' = (IF old = None THEN lost ELSE lost \union {old.remember.login}) \ {login}

PersistAfterUse(p) ==
    /\ pc[p] = "minted"
    /\ IF op[p] = "request"
       THEN pc' = [pc EXCEPT ![p] = "sending"] /\ UNCHANGED <<store, cred, result, lost>>
       ELSE Write(p) /\ Finish(p, "ok")
    /\ UNCHANGED <<server, exported, copied, op, at, sends, effects, runs>>

Persist(p) ==
    /\ pc[p] = "minted"
    /\ \/ /\ Write(p)
          /\ \/ /\ op[p] = "request"
                /\ pc' = [pc EXCEPT ![p] = "sending"] /\ UNCHANGED <<cred, result>>
             \/ op[p] # "request" /\ Finish(p, "ok")
             \/ Finish(p, "error")
       \/ /\ lost' = lost \union {cred[p].remember.login}
          /\ Finish(p, "error") /\ UNCHANGED store
    /\ UNCHANGED <<server, exported, copied, op, at, sends, effects, runs>>

(* What the process knows and no store does: a sign-in or a token that is  *)
(* not written down yet.                                                   *)
Holds(p) == pc[p] = "minted" \/ (pc[p] = "minting" /\ op[p] = "login")

Crash(p) ==
    /\ pc[p] # "idle"
    /\ Finish(p, "error")
    /\ lost' = IF Holds(p) THEN lost \union {cred[p].remember.login} ELSE lost
    /\ UNCHANGED <<server, store, exported, copied, op, at, sends, effects, runs>>

-----------------------------------------------------------------------------
(* A session reaches the end of the server's SESSION_LIFE_TIME.            *)
Lapse ==
    /\ \E s \in signedIn : signedIn' = signedIn \ {s}
    /\ UNCHANGED <<live, issued, store, exported, copied, pc, op, at, cred, sends,
                   effects, result, lost, runs>>

(* A remember token reaches its age, or the user revokes it.               *)
Revoke ==
    /\ \E t \in live : live' = live \ {t}
    /\ UNCHANGED <<signedIn, issued, store, exported, copied, pc, op, at, cred, sends,
                   effects, result, lost, runs>>

Step(p) == Send(p) \/ Mint(p) \/ Persist(p)

Next ==
    \/ \E p \in Procs : BeginRequest(p) \/ BeginLogin(p) \/ BeginImport(p)
    \/ \E p \in Procs : Step(p) \/ Crash(p)
    \/ Export \/ Lapse \/ Revoke

Spec == Init /\ [][Next]_vars

-----------------------------------------------------------------------------
TypeOK ==
    /\ live \subseteq Token /\ signedIn \subseteq Nat \ {Anonymous} /\ issued \in Nat
    /\ store \in [Machines -> Document \union {None}] /\ exported \in Document \union {None}
    /\ pc \in [Procs -> {"idle", "sending", "minting", "minted"}]
    /\ op \in [Procs -> {"none", "request", "login", "import"}]
    /\ at \in [Procs -> Machines]
    /\ cred \in [Procs -> Document \union {None}]
    /\ \A p \in Procs : pc[p] # "idle" => cred[p] # None
    /\ sends \in [Procs -> Nat] /\ effects \in [Procs -> Nat]
    /\ result \in [Procs -> [how : Outcomes, login : Nat]]
    /\ copied \subseteq Nat /\ lost \subseteq Nat /\ runs \in 0..MaxRuns

(* The only token the server still honours is in a store, or in the hands  *)
(* of a process that is about to write it: whatever invocations and        *)
(* machines share a sign-in, it is lost only to a lost answer, a failed    *)
(* write or a crash in between, or to another sign-in put in its place.    *)
Kept ==
    \A t \in live :
        \/ t.login \in lost
        \/ \E m \in Machines : store[m] # None /\ store[m].remember = t
        \/ \E p \in Procs : Holds(p) /\ cred[p].remember = t

(* No store holds the session of nobody that the login page sets: with it  *)
(* public pages answer, private ones do not, and nothing says why.         *)
StoredIsSignedIn ==
    \A m \in Machines : store[m] # None => store[m].session # Anonymous

(* However often the session lapses, the server acts on a request once at  *)
(* most, and not at all if the command reports the login page or a 404.    *)
ActsOnce ==
    \A p \in Procs :
        /\ effects[p] <= 1
        /\ result[p].how = "unserved" => effects[p] = 0

(* The inductive invariant behind the three: every token and session has   *)
(* been issued, a sign-in has one live token at most, a token that is not  *)
(* written down yet is the live one of its sign-in and nobody else knows   *)
(* it, and a command that has not ended has had no effect yet.             *)
Known(doc) ==
    doc # None =>
        /\ doc.remember.n \in 1..issued /\ doc.remember.login \in 1..issued
        /\ doc.session # Anonymous

Numbered ==
    /\ \A t \in live : t.n \in 1..issued /\ t.login \in 1..issued
    /\ \A m \in Machines : Known(store[m])
    /\ Known(exported) /\ \A p \in Procs : Known(cred[p])

OneLive == \A t, u \in live : t.login = u.login => t = u

Current ==
    \A p \in Procs : pc[p] = "minted" =>
        \A t \in live : t.login = cred[p].remember.login => t = cred[p].remember

Private ==
    \A p \in Procs : pc[p] = "minted" =>
        /\ exported # None => exported.remember # cred[p].remember
        /\ \A m \in Machines : store[m] # None => store[m].remember # cred[p].remember
        /\ \A q \in Procs \ {p} : cred[q] # None => cred[q].remember # cred[p].remember

Counted ==
    \A p \in Procs : pc[p] # "idle" =>
        /\ effects[p] = 0 /\ sends[p] <= 1
        /\ result[p].how = "none"

IInv == TypeOK /\ Numbered /\ OneLive /\ Current /\ Private /\ Counted /\ Kept /\ ActsOnce

(* What is left to a command.  A request that was sent again is not        *)
(* renewed for again, so that a second sending is its last step.           *)
StepsLeft(p) ==
    CASE pc[p] = "idle" -> 0
      [] pc[p] = "sending" -> IF sends[p] = 0 THEN 4 ELSE 1
      [] pc[p] = "minting" -> 3
      [] pc[p] = "minted" -> 2

SentBefore ==
    \A p \in Procs : op[p] = "request" /\ pc[p] \in {"minting", "minted"} => sends[p] = 1

(* However the server answers, a command only moves on: every step of a    *)
(* process that is not its start uses up one of what is left to it, so     *)
(* that no chain of renewals and retries keeps it going, and no other      *)
(* process touches it.                                                     *)
MoveOn ==
    \A p \in Procs : \/ pc[p] = "idle"
                     \/ StepsLeft(p)' < StepsLeft(p)
                     \/ UNCHANGED <<pc[p], op[p], cred[p], sends[p], effects[p]>>
StepsRunOut == [][MoveOn]_vars

(* Only when the sign-in is gone does a command ask for a password: when   *)
(* the server honours no token of it, or none that was recorded.  A        *)
(* sign-in whose document was copied is excepted: there the command may    *)
(* have presented a token that another had traded in, and reports the same.*)
ExpiredIsGone ==
    \A p \in Procs : result[p].how = "expired" =>
        \/ result[p].login \in lost \union copied
        \/ \A t \in live : t.login # result[p].login

(* Why.  As long as a sign-in is not copied, its document is in one place, *)
(* and what a request presents is what its store holds: when it is refused *)
(* there is nothing else to present, and there never will be.              *)
SameSignIn(doc, other) ==
    doc # None /\ other # None /\ doc.remember.login = other.remember.login

Uncopied(doc, other) == SameSignIn(doc, other) /\ doc.remember.login \notin copied

InOnePlace ==
    /\ exported # None => exported.remember.login \in copied
    /\ \A m, k \in Machines : Uncopied(store[m], store[k]) => m = k
    /\ \A p, q \in Procs : Uncopied(cred[p], cred[q]) => p = q

FromItsStore ==
    \A p \in Procs, m \in Machines : Uncopied(cred[p], store[m]) =>
        /\ op[p] = "request" /\ at[p] = m
        /\ pc[p] # "minted" => cred[p] = store[m]

GoneForGood ==
    \A p \in Procs : result[p].how = "expired" /\ result[p].login \notin copied =>
        /\ result[p].login <= issued
        /\ \A m \in Machines : store[m] # None /\ store[m].remember.login = result[p].login
                                  => store[m].remember \notin live
        /\ \A q \in Procs : cred[q] # None /\ cred[q].remember.login = result[p].login
                                  => cred[q].remember \notin live

SharingInv == IInv /\ InOnePlace /\ FromItsStore /\ GoneForGood
=============================================================================
