---------------------------- MODULE Credentials -----------------------------
(***************************************************************************)
(* Where the secrets of the logins of one host live: the OS keyring, the   *)
(* file hosts.toml, the environment.  One invocation of gea after another  *)
(* loads hosts.toml, looks a secret up, stores one or logs a login out,    *)
(* and writes hosts.toml back; the keyring may be out of reach at any      *)
(* call, and the process may die between any two steps.                    *)
(*                                                                         *)
(* The hazards: a secret that is shadowed, revived, or lost between two    *)
(* stores; and the store that worked last, remembered per HOST while       *)
(* secrets are filed per LOGIN and per SLOT.                               *)
(***************************************************************************)
EXTENDS Integers, Sequences, FiniteSets

CONSTANTS Logins,        \* the accounts on the host
          MaxSecrets,    \* bound on the secrets ever stored
          MaxRuns,       \* bound on the invocations
          KeyringFails,  \* the outcomes of a keyring call that may be met
          EnvSlots,      \* the slots the environment may hold a secret for
          Overrides,     \* what GEA_CREDENTIAL_STORE may say, None if unset
          Insecure,      \* what --insecure-storage may be at a login
          None

Slots == {"api", "web"}
Stores == {"keyring", "file", "env"}

ASSUME CredentialsAssumption ==
    /\ MaxSecrets \in Nat /\ MaxRuns \in Nat
    /\ KeyringFails \subseteq BOOLEAN /\ FALSE \in KeyringFails
    /\ EnvSlots \subseteq Slots
    /\ Overrides \subseteq Stores \union {None}
    /\ Insecure \subseteq BOOLEAN
    /\ None \notin Logins \union Stores \union Nat

VARIABLES disk,     \* hosts.toml
          keyring,  \* the OS keyring
          mem,      \* the invocation's copy of hosts.toml
          dirty,    \* whether it differs from the file
          pc,       \* the step of the invocation
          cmd,      \* what it was asked to do
          last,     \* how the last lookup or store ended
          secrets,  \* secrets made so far: they are 1, 2, 3 ...
          latest,   \* per login and slot, the last one stored successfully
          cleared,  \* per login, the secrets there were at its last clean logout
          runs      \* invocations so far

vars == <<disk, keyring, mem, dirty, pc, cmd, last, secrets, latest, cleared, runs>>

Secret == 1..MaxSecrets
NoSecrets == [l \in Logins |-> [s \in Slots |-> None]]

(* hosts.toml: who is listed, who is active, the store that worked last,   *)
(* and the secrets of the file store.  Without logins the host is gone.    *)
NoHost == [logins |-> {}, active |-> None, store |-> None, file |-> NoSecrets]
NoCmd == [op |-> "none"]

Init ==
    /\ disk = NoHost /\ mem = NoHost /\ dirty = FALSE
    /\ keyring = NoSecrets
    /\ pc = "idle" /\ cmd = NoCmd /\ last = NoCmd
    /\ secrets = 0 /\ runs = 0
    /\ latest = NoSecrets
    /\ cleared = [l \in Logins |-> 0]

-----------------------------------------------------------------------------
(* Hosts.                                                                  *)

set_cached_store(h, store) == [h EXCEPT !.store = store]

(* The first login on a host becomes its active one.                       *)
add_login(h, l) ==
    [h EXCEPT !.logins = @ \union {l}, !.active = IF @ = None THEN l ELSE @]

remove_loginKeepActive(h, l) ==
    [h EXCEPT !.logins = @ \ {l}, !.file[l] = NoSecrets[l]]

(* If it was the active one another takes over; a host without logins is   *)
(* removed.                                                                *)
remove_login(h, l) ==
    LET rest == h.logins \ {l}
    IN  IF rest = {} THEN NoHost
        ELSE [h EXCEPT !.logins = rest, !.file[l] = NoSecrets[l],
                       !.active = IF @ = l THEN CHOOSE m \in rest : TRUE ELSE @]

save_if_dirty == disk' = (IF dirty THEN mem ELSE disk) /\ dirty' = FALSE

(* Credentials::read_order; the default preference is the keyring.         *)
read_order(h, forced) ==
    IF forced # None THEN <<forced>>
    ELSE CASE h.store \in {"keyring", None} -> <<"keyring", "file", "env">>
           [] h.store = "file" -> <<"file", "env">>
           [] h.store = "env" -> <<"env">>

-----------------------------------------------------------------------------
(* An invocation.                                                          *)

Begin(c, step) ==
    /\ pc = "idle" /\ runs < MaxRuns
    /\ runs' = runs + 1
    /\ cmd' = c /\ pc' = step /\ last' = NoCmd
    /\ UNCHANGED <<disk, keyring, latest, cleared>>

(* A command that authenticates, or one of `gea web`: Runtime::new or      *)
(* load_web_credential.                                                    *)
BeginLookup ==
    \E l \in disk.logins, s \in Slots, forced \in Overrides, env \in SUBSET EnvSlots :
        /\ Begin([op |-> "lookup", login |-> l, slot |-> s, forced |-> forced, env |-> env,
                  failed |-> FALSE, todo |-> read_order(disk, forced), result |-> None],
                 "reading")
        /\ mem' = disk /\ dirty' = FALSE
        /\ UNCHANGED secrets

(* The secret of the environment is 0.                                     *)
HoldsSecret(store, l, s) ==
    CASE store = "keyring" -> keyring[l][s]
      [] store = "file" -> mem.file[l][s]
      [] store = "env" -> IF s \in cmd.env THEN 0 ELSE None

RememberAlways(store) ==
    /\ mem' = set_cached_store(mem, store)
    /\ dirty' = (dirty \/ mem.store # store)

Remember(store) ==
    IF cmd.forced = None
    THEN /\ mem' = set_cached_store(mem, store)
         /\ dirty' = (dirty \/ mem.store # store)
    ELSE UNCHANGED <<mem, dirty>>

(* The store answers: with a secret, which ends the search, or without.    *)
StoreAnswers(store, found) ==
    /\ cmd' = [cmd EXCEPT !.todo = Tail(@), !.result = found]
    /\ IF found # None
       THEN pc' = "saving" /\ Remember(store)
       ELSE /\ UNCHANGED pc
            /\ IF store = "keyring" THEN Remember(store) ELSE UNCHANGED <<mem, dirty>>

KeyringUnavailableForgotten ==
    /\ cmd' = [cmd EXCEPT !.todo = Tail(@), !.failed = TRUE]
    /\ UNCHANGED <<pc, mem, dirty>>

(* The keyring is out of reach: the fallback is remembered.                *)
KeyringUnavailable ==
    /\ cmd' = [cmd EXCEPT !.todo = Tail(@), !.failed = TRUE]
    /\ Remember("file") /\ UNCHANGED pc

(* One turn of the loop of Credentials::secret, and its end.               *)
Read ==
    /\ pc = "reading"
    /\ \/ /\ cmd.todo # <<>>
          /\ LET store == Head(cmd.todo) IN
             \/ StoreAnswers(store, HoldsSecret(store, cmd.login, cmd.slot))
             \/ store = "keyring" /\ TRUE \in KeyringFails /\ KeyringUnavailable
       \/ cmd.todo = <<>> /\ pc' = "saving" /\ UNCHANGED <<cmd, mem, dirty>>
    /\ UNCHANGED <<disk, keyring, last, secrets, latest, cleared, runs>>

End ==
    /\ pc' = "idle" /\ cmd' = NoCmd /\ mem' = NoHost

SaveLookup ==
    /\ pc = "saving" /\ cmd.op = "lookup"
    /\ save_if_dirty /\ End
    /\ last' = cmd
    /\ UNCHANGED <<keyring, secrets, latest, cleared, runs>>

-----------------------------------------------------------------------------
(* Credentials::store_in, for `auth login` of anybody, or to renew a       *)
(* session of a login that is listed.                                      *)

Target(forced, insecure) ==
    IF forced # None THEN forced ELSE IF insecure THEN "file" ELSE "keyring"

BeginStore ==
    \E l \in Logins, s \in Slots, op \in {"login", "renew"},
       forced \in Overrides, insecure \in Insecure :
        /\ op = "renew" => l \in disk.logins /\ ~insecure
        /\ secrets < MaxSecrets /\ secrets' = secrets + 1
        /\ Begin([op |-> op, login |-> l, slot |-> s, secret |-> secrets',
                  target |-> Target(forced, insecure)], "storing")
        /\ mem' = add_login(disk, l) /\ dirty' = TRUE

(* The keyring with the new secret.                                        *)
InKeyring == [keyring EXCEPT ![cmd.login][cmd.slot] = cmd.secret]

StoreKeyringReplacing ==
    /\ pc = "storing" /\ cmd.target = "keyring"
    /\ \/ /\ keyring' = InKeyring
          /\ mem' = set_cached_store(mem, "keyring")
          /\ pc' = "saving" /\ UNCHANGED cmd
       \/ /\ TRUE \in KeyringFails
          /\ keyring' = [keyring EXCEPT ![cmd.login][cmd.slot] = None]
          /\ cmd' = [cmd EXCEPT !.target = "file"]
          /\ UNCHANGED <<pc, mem>>
    /\ UNCHANGED <<disk, dirty, last, secrets, latest, cleared, runs>>

(* The secret is written to the target.  A keyring that does not answer in *)
(* time may still have taken it.                                           *)
StoreKeyring ==
    /\ pc = "storing" /\ cmd.target = "keyring"
    /\ \/ /\ keyring' = InKeyring
          /\ mem' = set_cached_store(mem, "keyring")
          /\ pc' = "saving" /\ UNCHANGED cmd
       \/ /\ TRUE \in KeyringFails
          /\ keyring' \in {keyring, InKeyring}
          /\ cmd' = [cmd EXCEPT !.target = "file"]
          /\ UNCHANGED <<pc, mem>>
    /\ UNCHANGED <<disk, dirty, last, secrets, latest, cleared, runs>>

StoreFileUnremembered ==
    /\ pc = "storing" /\ cmd.target = "file"
    /\ mem' = [mem EXCEPT !.file[cmd.login][cmd.slot] = cmd.secret]
    /\ pc' = "saving"
    /\ UNCHANGED <<disk, keyring, dirty, cmd, last, secrets, latest, cleared, runs>>

StoreFile ==
    /\ pc = "storing" /\ cmd.target = "file"
    /\ mem' = set_cached_store([mem EXCEPT !.file[cmd.login][cmd.slot] = cmd.secret], "file")
    /\ pc' = "saving"
    /\ UNCHANGED <<disk, keyring, dirty, cmd, last, secrets, latest, cleared, runs>>

(* Nothing can be stored in an environment variable: the command fails.    *)
StoreEnv ==
    /\ pc = "storing" /\ cmd.target = "env"
    /\ End /\ dirty' = FALSE
    /\ UNCHANGED <<disk, keyring, last, secrets, latest, cleared, runs>>

SaveStore ==
    /\ pc = "saving" /\ cmd.op \in {"login", "renew"}
    /\ save_if_dirty
    /\ latest' = [latest EXCEPT ![cmd.login][cmd.slot] = cmd.secret]
    /\ last' = cmd
    /\ IF cmd.op = "login" THEN pc' = "selecting" /\ UNCHANGED <<cmd, mem>> ELSE End
    /\ UNCHANGED <<keyring, secrets, cleared, runs>>

(* `auth login` makes the login the active one, and saves again.           *)
Select ==
    /\ pc = "selecting"
    /\ disk' = [mem EXCEPT !.active = cmd.login]
    /\ End
    /\ UNCHANGED <<keyring, dirty, last, secrets, latest, cleared, runs>>

-----------------------------------------------------------------------------
(* `gea auth logout`.                                                      *)

ForgetOnlyInUse ==
    LET store == IF disk.store = "file" THEN "file" ELSE "keyring"
    IN  <<[store |-> store, slot |-> "api"], [store |-> store, slot |-> "web"]>>

(* Every store and every slot; deleting from the environment does nothing. *)
ForgetOrder ==
    <<[store |-> "keyring", slot |-> "api"], [store |-> "keyring", slot |-> "web"],
      [store |-> "file", slot |-> "api"], [store |-> "file", slot |-> "web"]>>

BeginLogout ==
    \E l \in disk.logins :
        /\ Begin([op |-> "logout", login |-> l, failed |-> FALSE, todo |-> ForgetOrder],
                 "forgetting")
        /\ mem' = disk /\ dirty' = FALSE
        /\ UNCHANGED secrets

(* One turn of the loop of Credentials::forget.  A keyring out of reach    *)
(* may still have deleted the entry.                                       *)
Forget ==
    /\ pc = "forgetting" /\ cmd.todo # <<>>
    /\ LET store == Head(cmd.todo).store
           slot == Head(cmd.todo).slot
           gone == [keyring EXCEPT ![cmd.login][slot] = None]
       IN  \/ /\ store = "keyring" /\ keyring' = gone
              /\ cmd' = [cmd EXCEPT !.todo = Tail(@)] /\ UNCHANGED <<mem, dirty>>
           \/ /\ store = "keyring" /\ TRUE \in KeyringFails /\ keyring' \in {keyring, gone}
              /\ cmd' = [cmd EXCEPT !.todo = Tail(@), !.failed = TRUE] /\ UNCHANGED <<mem, dirty>>
           \/ /\ store = "file"
              /\ mem' = [mem EXCEPT !.file[cmd.login][slot] = None] /\ dirty' = TRUE
              /\ cmd' = [cmd EXCEPT !.todo = Tail(@)] /\ UNCHANGED keyring
    /\ UNCHANGED <<disk, pc, last, secrets, latest, cleared, runs>>

(* The end of forget: hosts.toml is saved without the secrets.             *)
SaveForgotten ==
    /\ pc = "forgetting" /\ cmd.todo = <<>>
    /\ save_if_dirty
    /\ pc' = "removing"
    /\ latest' = [latest EXCEPT ![cmd.login] = NoSecrets[cmd.login]]
    /\ UNCHANGED <<keyring, mem, cmd, last, secrets, cleared, runs>>

(* The login goes, with the host if it was the last one, and the file is   *)
(* saved again.                                                            *)
Remove ==
    /\ pc = "removing"
    /\ disk' = remove_login(mem, cmd.login)
    /\ cleared' = IF cmd.failed THEN cleared ELSE [cleared EXCEPT ![cmd.login] = secrets]
    /\ End
    /\ UNCHANGED <<keyring, dirty, last, secrets, latest, runs>>

-----------------------------------------------------------------------------
(* The process dies.  Writes to hosts.toml are atomic, so only the copy in *)
(* memory is lost.                                                         *)
Crash ==
    /\ pc # "idle"
    /\ End /\ dirty' = FALSE /\ last' = NoCmd
    /\ latest' = IF cmd.op = "logout"
                 THEN [latest EXCEPT ![cmd.login] = NoSecrets[cmd.login]] ELSE latest
    /\ UNCHANGED <<disk, keyring, secrets, cleared, runs>>

Next ==
    \/ BeginLookup \/ Read \/ SaveLookup
    \/ BeginStore \/ StoreKeyring \/ StoreFile \/ StoreEnv \/ SaveStore \/ Select
    \/ BeginLogout \/ Forget \/ SaveForgotten \/ Remove
    \/ Crash

Spec == Init /\ [][Next]_vars

-----------------------------------------------------------------------------
Hosts == [logins : SUBSET Logins, active : Logins \union {None},
          store : Stores \union {None},
          file : [Logins -> [Slots -> Secret \union {None}]]]

TypeOK ==
    /\ disk \in Hosts /\ mem \in Hosts /\ dirty \in BOOLEAN
    /\ keyring \in [Logins -> [Slots -> Secret \union {None}]]
    /\ pc \in {"idle", "reading", "storing", "saving", "selecting", "forgetting", "removing"}
    /\ secrets \in 0..MaxSecrets /\ runs \in 0..MaxRuns
    /\ latest \in [Logins -> [Slots -> Secret \union {None}]]
    /\ cleared \in [Logins -> 0..MaxSecrets]

(* Whenever the process dies, hosts.toml names an active login exactly if  *)
(* it lists one, and one that it lists: no logout or crash leaves a host   *)
(* on which every command fails for a reason nobody would guess.           *)
Consistent(h) ==
    /\ h.active # None <=> h.logins # {}
    /\ h.active # None => h.active \in h.logins
    /\ \A l \in Logins \ h.logins, s \in Slots : h.file[l][s] = None

ActiveListed == Consistent(disk)

(* What the next command finds, if the keyring answers and the environment *)
(* is empty: the first secret in read order.                               *)
Finds(l, s) ==
    LET order == read_order(disk, None)
        At(store) == CASE store = "keyring" -> keyring[l][s]
                       [] store = "file" -> disk.file[l][s]
                       [] store = "env" -> None
        hits == {i \in DOMAIN order : At(order[i]) # None}
    IN  IF hits = {} THEN None
        ELSE At(order[CHOOSE i \in hits : \A j \in hits : i <= j])

(* What was stored is what the next command finds, wherever it had to be   *)
(* put and whatever older secrets the other store still holds.             *)
StoredIsFound ==
    last.op \in {"login", "renew"} => Finds(last.login, last.slot) = last.secret

(* Renewing a session never leaves its login without one: at every moment  *)
(* the process may die, the last secret or a newer one is in some store.   *)
NeverLeftWithout ==
    \A l \in Logins, s \in Slots :
        latest[l][s] # None /\ cmd.op # "logout" =>
            \/ keyring[l][s] # None /\ keyring[l][s] >= latest[l][s]
            \/ disk.file[l][s] # None /\ disk.file[l][s] >= latest[l][s]

(* After a logout without warnings no secret from before it comes back,    *)
(* from any store and for any slot, also once the login is used again.     *)
NoResurrection ==
    \A l \in Logins, s \in Slots :
        /\ keyring[l][s] # None => keyring[l][s] > cleared[l]
        /\ disk.file[l][s] # None => disk.file[l][s] > cleared[l]

(* A machine without a keyring pays for the failed call once: a lookup     *)
(* that met the failure sends the next one elsewhere.                      *)
FailurePaidOnce ==
    last.op = "lookup" /\ last.failed /\ last.forced = None
        => Head(read_order(disk, None)) # "keyring"

(* A store named for one invocation, by GEA_CREDENTIAL_STORE, is not what  *)
(* a lookup makes the next one use.                                        *)
OverrideNotRemembered ==
    [][cmd.op = "lookup" /\ cmd.forced # None => UNCHANGED disk]_vars

(* No token found means no token anywhere: it is what tells the user that  *)
(* they are not logged in.                                                 *)
NoneMeansNowhere ==
    last.op = "lookup" /\ last.result = None /\ last.forced = None /\ ~last.failed =>
        keyring[last.login][last.slot] = None /\ disk.file[last.login][last.slot] = None

-----------------------------------------------------------------------------
(* The inductive invariant behind them.  What an invocation is doing.      *)
Lookups == [op : {"lookup"}, login : Logins, slot : Slots, forced : Stores \union {None},
            env : SUBSET EnvSlots, failed : BOOLEAN, todo : Seq(Stores),
            result : 0..MaxSecrets \union {None}]
Storing == [op : {"login", "renew"}, login : Logins, slot : Slots, secret : Secret,
            target : Stores]
Logouts == [op : {"logout"}, login : Logins, failed : BOOLEAN,
            todo : Seq([store : {"keyring", "file"}, slot : Slots])]

Commands ==
    /\ pc = "idle" => cmd = NoCmd
    /\ pc = "reading" => cmd \in Lookups
    /\ pc \in {"storing", "selecting"} => cmd \in Storing
    /\ pc = "saving" => cmd \in Lookups \union Storing
    /\ pc \in {"forgetting", "removing"} => cmd \in Logouts
    /\ last \in Lookups \union Storing \union {NoCmd}
    /\ last # NoCmd => pc \in {"idle", "selecting"}

(* A lookup changes the copy in memory if it remembers a store, and then   *)
(* saves it; the keyring is the first store in any order.                  *)
LookingUp ==
    cmd.op = "lookup" =>
        /\ ~dirty => mem = disk
        /\ cmd.forced # None => ~dirty
        /\ \A i \in DOMAIN cmd.todo : cmd.todo[i] = "keyring" => i = 1 /\ ~cmd.failed
        /\ cmd.failed /\ cmd.forced = None => mem.store \in {"file", "env"}

(* What is stored is the newest secret of all, and it is in the store that *)
(* is remembered before hosts.toml is saved.                               *)
Renewing ==
    cmd.op \in {"login", "renew"} =>
        /\ cmd.login \in mem.logins
        /\ cmd.secret = secrets /\ \A l \in Logins : cleared[l] < secrets
        /\ pc # "selecting" => dirty
        /\ pc = "selecting" => disk = mem /\ last = cmd
        /\ pc # "storing" =>
             \/ mem.store = "keyring" /\ keyring[cmd.login][cmd.slot] = cmd.secret
             \/ mem.store = "file" /\ mem.file[cmd.login][cmd.slot] = cmd.secret

(* A logout has gone through the stores as far as todo says.               *)
LoggingOut ==
    cmd.op = "logout" =>
        LET left == Len(cmd.todo) IN
        /\ left <= 4 /\ \A i \in 1..left : cmd.todo[i] = ForgetOrder[4 - left + i]
        /\ ~cmd.failed /\ left < 4 => keyring[cmd.login]["api"] = None
        /\ ~cmd.failed /\ left < 3 => keyring[cmd.login]["web"] = None
        /\ pc = "removing" =>
             left = 0 /\ \A s \in Slots : latest[cmd.login][s] = None

(* An invocation writes the secret file back as it read it but for the one *)
(* secret, or the one login, it is about.                                  *)
Copied ==
    \A l \in Logins, s \in Slots :
        \/ pc = "idle"
        \/ mem.file[l][s] = disk.file[l][s]
        \/ cmd.op = "logout" /\ l = cmd.login
        \/ cmd.op \in {"login", "renew"} /\ l = cmd.login /\ s = cmd.slot

(* Secrets are numbered as they are made.                                  *)
Numbered ==
    \A l \in Logins, s \in Slots :
        /\ cleared[l] <= secrets
        /\ latest[l][s] # None => latest[l][s] <= secrets
        /\ mem.file[l][s] # None => mem.file[l][s] > cleared[l]

(* The last secret of a login that is not being logged out is in a store.  *)
Held ==
    \A l \in Logins, s \in Slots :
        latest[l][s] # None /\ (cmd.op = "logout" => l # cmd.login) =>
            \/ keyring[l][s] # None /\ keyring[l][s] >= latest[l][s]
            \/ disk.file[l][s] # None /\ disk.file[l][s] >= latest[l][s]

(* What was stored last is in the store that is asked first.               *)
Remembered ==
    last.op \in {"login", "renew"} =>
        \/ disk.store = "keyring" /\ keyring[last.login][last.slot] = last.secret
        \/ disk.store = "file" /\ disk.file[last.login][last.slot] = last.secret

IInv == /\ TypeOK /\ Commands /\ LookingUp /\ Renewing /\ LoggingOut /\ Copied /\ Numbered
        /\ Held /\ ActiveListed /\ Consistent(mem) /\ NoResurrection /\ Remembered
        /\ FailurePaidOnce
=============================================================================
