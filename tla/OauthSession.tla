---------------------------- MODULE OauthSession ----------------------------
(***************************************************************************)
(* The OAuth sessions of the logins in hosts.toml, and the refresh every   *)
(* command makes before its first request when the access token is about   *)
(* to lapse.  The server issues a new refresh token each time; the new     *)
(* document is stored before its access token is used.                     *)
(*                                                                         *)
(* Several processes do so at once.  A keyring keeps one entry per login;  *)
(* the file store writes hosts.toml as a whole, from the copy the process  *)
(* loaded when it began.                                                   *)
(*                                                                         *)
(* The hazards: a document the server has moved on from ends up in the     *)
(* store and nothing can refresh it any more; an access token is used      *)
(* whose refresh token nobody recorded, or that lapses before the request. *)
(***************************************************************************)
EXTENDS Integers

CONSTANTS Logins,       \* each with a session of its own
          Procs,        \* the processes that may run at a time
          WholeFile,    \* whether the store is hosts.toml, not the keyring
          Lifetime,     \* of an access token
          Skew,         \* how long before its end a session is refreshed
          MaxClock,     \* bound on the time that passes
          MaxRefreshes  \* bound on the documents of a session

(* A token that is new is not refreshed at once.                           *)
ASSUME OauthAssumption ==
    /\ WholeFile \in BOOLEAN
    /\ Lifetime \in Nat /\ Skew \in Nat /\ Skew < Lifetime
    /\ MaxClock \in Nat /\ MaxRefreshes \in Nat \ {0}

VARIABLES invalidates,  \* the instance's INVALIDATE_REFRESH_TOKENS
          newest,       \* per login, the number of the last refresh token issued
          disk,         \* the documents in the store
          pc, login,    \* per process: its step and the login it runs as,
          mem,          \* the hosts.toml it loaded,
          stored,       \* the session it found there,
          fresh,        \* the session it got for it,
          since,        \* and when it read the store
          unrenewed,    \* the processes whose refresh failed
          recorded,     \* per login, the documents that have been in the store
          lost,         \* the logins whose newest document nobody recorded
          clock

proc == <<pc, login, mem, stored, fresh, since, unrenewed>>
vars == <<invalidates, newest, disk, proc, recorded, lost, clock>>

(* StoredOauth: its refresh token by number, when the server issued it,    *)
(* and when the client believes that the access token lapses.              *)
Document == [n : Nat \ {0}, issued : Nat, expires : Nat]

First == [n |-> 1, issued |-> 0, expires |-> Lifetime]

Init ==
    /\ invalidates \in BOOLEAN
    /\ newest = [l \in Logins |-> 1]
    /\ disk = [l \in Logins |-> First]
    /\ pc = [p \in Procs |-> "idle"]
    /\ login \in [Procs -> Logins]
    /\ mem = [p \in Procs |-> [l \in Logins |-> First]]
    /\ stored = [p \in Procs |-> First]
    /\ fresh = [p \in Procs |-> First]
    /\ since = [p \in Procs |-> 0]
    /\ unrenewed = {}
    /\ recorded = [l \in Logins |-> {1}]
    /\ lost = {}
    /\ clock = 0

-----------------------------------------------------------------------------
is_expiringTooLate(doc) == doc.expires <= clock

is_expiring(doc) == doc.expires - clock <= Skew

(* Runtime::new, or the git credential helper: the store is read.          *)
Begin(p) ==
    /\ pc[p] = "idle"
    /\ \E l \in Logins :
          /\ login' = [login EXCEPT ![p] = l]
          /\ stored' = [stored EXCEPT ![p] = disk[l]]
          /\ pc' = [pc EXCEPT ![p] = IF is_expiring(disk[l]) THEN "refreshing" ELSE "using"]
    /\ mem' = [mem EXCEPT ![p] = IF WholeFile THEN disk ELSE @]
    /\ fresh' = [fresh EXCEPT ![p] = First]
    /\ since' = [since EXCEPT ![p] = clock]
    /\ unrenewed' = unrenewed \ {p}
    /\ UNCHANGED <<invalidates, newest, disk, recorded, lost, clock>>

(* A failed refresh is not fatal: the command goes on with what life the   *)
(* old access token has left.  Runtime::new warns, the helper does not.    *)
Fallback(p) ==
    /\ pc' = [pc EXCEPT ![p] = "using"]
    /\ unrenewed' = unrenewed \union {p}
    /\ UNCHANGED <<login, mem, stored, fresh, since>>

(* What the server takes for a refresh token of the session: the newest,   *)
(* or any it has issued.                                                   *)
Honoured(l, n) == IF invalidates THEN n = newest[l] ELSE n \in 1..newest[l]

(* The server refreshes the session.  Its answer may be lost.              *)
Grant(p) ==
    LET l == login[p]
    IN  /\ pc[p] = "refreshing"
        /\ Honoured(l, stored[p].n) /\ newest[l] < MaxRefreshes
        /\ newest' = [newest EXCEPT ![l] = @ + 1]
        /\ \/ /\ pc' = [pc EXCEPT ![p] = "answered"]
              /\ fresh' = [fresh EXCEPT ![p] =
                             [n |-> newest[l] + 1, issued |-> clock, expires |-> clock]]
              /\ UNCHANGED <<login, mem, stored, since, unrenewed, lost>>
           \/ Fallback(p) /\ lost' = lost \union {l}
        /\ UNCHANGED <<invalidates, disk, recorded, clock>>

(* The server refuses the refresh token, or is not reached.                *)
Refused(p) ==
    /\ pc[p] = "refreshing"
    /\ Fallback(p)
    /\ UNCHANGED <<invalidates, newest, disk, recorded, lost, clock>>

ReceiveKeepingToken(p) ==
    /\ pc[p] = "answered"
    /\ pc' = [pc EXCEPT ![p] = "storing"]
    /\ fresh' = [fresh EXCEPT ![p] =
                   [n |-> stored[p].n, issued |-> fresh[p].issued, expires |-> clock + Lifetime]]
    /\ UNCHANGED <<invalidates, newest, disk, login, mem, stored, since, unrenewed,
                   recorded, lost, clock>>

(* StoredOauth::from_response dates the document by the client's clock.    *)
Receive(p) ==
    /\ pc[p] = "answered"
    /\ pc' = [pc EXCEPT ![p] = "storing"]
    /\ fresh' = [fresh EXCEPT ![p] =
                   [n |-> fresh[p].n, issued |-> fresh[p].issued, expires |-> clock + Lifetime]]
    /\ UNCHANGED <<invalidates, newest, disk, login, mem, stored, since, unrenewed,
                   recorded, lost, clock>>

(* The store with the new document: hosts.toml is written from the copy    *)
(* the process loaded, the keyring takes one entry.                        *)
Written(p) ==
    [IF WholeFile THEN mem[p] ELSE disk EXCEPT ![login[p]] = fresh[p]]

PersistUnchecked(p) ==
    /\ pc[p] = "storing"
    /\ pc' = [pc EXCEPT ![p] = "using"]
    /\ stored' = [stored EXCEPT ![p] = fresh[p]]
    /\ \/ /\ disk' = Written(p)
          /\ recorded' = [recorded EXCEPT ![login[p]] = @ \union {fresh[p].n}]
          /\ UNCHANGED lost
       \/ lost' = lost \union {login[p]} /\ UNCHANGED <<disk, recorded>>
    /\ UNCHANGED <<invalidates, newest, login, mem, fresh, since, unrenewed, clock>>

(* Credentials::store and save_if_dirty: only a document that was written  *)
(* is used.  The keyring may hold the document when the save of hosts.toml *)
(* that follows fails; that too counts as a failed refresh.                *)
Persist(p) ==
    LET l == login[p]
        Recorded == disk' = Written(p) /\ recorded' = [recorded EXCEPT ![l] = @ \union {fresh[p].n}]
    IN  /\ pc[p] = "storing"
        /\ \/ /\ Recorded
              /\ stored' = [stored EXCEPT ![p] = fresh[p]]
              /\ pc' = [pc EXCEPT ![p] = "using"]
              /\ UNCHANGED <<login, mem, fresh, since, unrenewed, lost>>
           \/ ~WholeFile /\ Recorded /\ Fallback(p) /\ UNCHANGED lost
           \/ Fallback(p) /\ lost' = lost \union {l} /\ UNCHANGED <<disk, recorded>>
        /\ UNCHANGED <<invalidates, newest, clock>>

(* What the process knows of its session and the store does not.           *)
Holds(p) == pc[p] \in {"answered", "storing"}

(* The command makes its requests and ends, or the process dies earlier.   *)
End(p) ==
    /\ pc[p] # "idle"
    /\ pc' = [pc EXCEPT ![p] = "idle"]
    /\ lost' = IF Holds(p) THEN lost \union {login[p]} ELSE lost
    /\ mem' = [mem EXCEPT ![p] = [l \in Logins |-> First]]
    /\ stored' = [stored EXCEPT ![p] = First] /\ fresh' = [fresh EXCEPT ![p] = First]
    /\ since' = [since EXCEPT ![p] = 0] /\ unrenewed' = unrenewed \ {p}
    /\ UNCHANGED <<invalidates, newest, disk, login, recorded, clock>>

(* Time passes, however long a refresh or a command takes: nothing bounds  *)
(* either.                                                                 *)
Tick ==
    /\ clock < MaxClock
    /\ clock' = clock + 1
    /\ UNCHANGED <<invalidates, newest, disk, proc, recorded, lost>>

Step(p) == Begin(p) \/ Grant(p) \/ Refused(p) \/ Receive(p) \/ Persist(p) \/ End(p)

Next == Tick \/ \E p \in Procs : Step(p)

Spec == Init /\ [][Next]_vars

-----------------------------------------------------------------------------
TypeOK ==
    /\ invalidates \in BOOLEAN
    /\ newest \in [Logins -> 1..MaxRefreshes]
    /\ disk \in [Logins -> Document]
    /\ pc \in [Procs -> {"idle", "refreshing", "answered", "storing", "using"}]
    /\ login \in [Procs -> Logins]
    /\ mem \in [Procs -> [Logins -> Document]]
    /\ stored \in [Procs -> Document] /\ fresh \in [Procs -> Document]
    /\ since \in [Procs -> Nat]
    /\ unrenewed \subseteq Procs
    /\ recorded \in [Logins -> SUBSET Nat]
    /\ lost \subseteq Logins
    /\ clock \in 0..MaxClock

(* However many processes refresh one session, the store holds a refresh   *)
(* token that the server takes, or a process is about to write one: only a *)
(* lost answer, a failed write or the death of the process in between ends *)
(* a session.                                                              *)
Refreshable ==
    \A l \in Logins :
        \/ l \in lost
        \/ Honoured(l, disk[l].n)
        \/ \E p \in Procs : Holds(p) /\ login[p] = l /\ Honoured(l, fresh[p].n)

(* How much later than the server the client believes that a token lapses: *)
(* it counts from when the answer was there.                               *)
DatedLate(doc) == doc.expires - (doc.issued + Lifetime)

(* What SKEW is worth.  Unless its refresh failed, a command makes its     *)
(* requests with an access token the server still takes, until SKEW has    *)
(* gone by since it read the session, its own refresh included, less the   *)
(* time by which the token it uses is dated late.  A command that runs     *)
(* longer is promised nothing.                                             *)
AliveWithinSkew ==
    \A p \in Procs :
        pc[p] = "using" /\ p \notin unrenewed
            /\ (clock - since[p]) + DatedLate(stored[p]) <= Skew
            => clock < stored[p].issued + Lifetime

(* No access token is used whose refresh token has not been written down:  *)
(* the session would work for an hour and then be gone.                    *)
UsedIsRecorded ==
    \A p \in Procs : pc[p] = "using" => stored[p].n \in recorded[login[p]]

(* Why they hold.  Documents carry numbers that were issued and recorded.  *)
Known(l, doc) == doc.n <= newest[l] /\ doc.n \in recorded[l]

Numbered ==
    /\ \A l \in Logins : Known(l, disk[l])
    /\ \A p \in Procs : pc[p] # "idle" =>
          /\ Known(login[p], stored[p])
          /\ WholeFile => \A l \in Logins : Known(l, mem[p][l])
    /\ \A p \in Procs : Holds(p) => fresh[p].n <= newest[login[p]]

(* Where the server kills what it replaces, a document that is not yet     *)
(* written is the newest, and nobody else could have got it.               *)
Private ==
    \A p \in Procs : Holds(p) /\ invalidates =>
        /\ fresh[p].n = newest[login[p]]
        /\ disk[login[p]].n < fresh[p].n
        /\ \A q \in Procs \ {p} :
              login[q] = login[p] => ~Holds(q) /\ (pc[q] # "idle" => stored[q].n < fresh[p].n)

(* What a command uses either had SKEW left when it was read, or was       *)
(* issued since, and dated when the answer was there.                      *)
Timely ==
    \A p \in Procs :
        /\ pc[p] # "idle" => since[p] <= clock
        /\ Holds(p) => since[p] <= fresh[p].issued /\ fresh[p].issued <= clock
        /\ pc[p] = "storing" => DatedLate(fresh[p]) >= 0
        /\ pc[p] = "using" /\ p \notin unrenewed =>
              \/ since[p] + Skew < stored[p].expires
              \/ since[p] <= stored[p].issued /\ DatedLate(stored[p]) >= 0

(* No write touches the document of another login.                         *)
Separate == ~WholeFile \/ \A l, m \in Logins : l = m

IInv == TypeOK /\ Numbered /\ Timely /\ (Separate => Private /\ Refreshable)
=============================================================================
