-------------------------- MODULE CredentialsProofs --------------------------
(***************************************************************************)
(* Proofs about Credentials, for any number of logins, secrets and         *)
(* invocations: what is stored is found, a renewal never leaves a login    *)
(* without a secret, a clean logout is final, and a failed keyring is not  *)
(* asked again.                                                            *)
(***************************************************************************)
EXTENDS Credentials, SequenceTheorems, TLAPS

USE CredentialsAssumption

Secrets == [Logins -> [Slots -> Secret \union {None}]]

-----------------------------------------------------------------------------
(* Hosts.                                                                  *)

LEMMA NoHostType == NoHost \in Hosts /\ Consistent(NoHost) /\ NoSecrets \in Secrets
BY DEF NoHost, Hosts, Consistent, NoSecrets, Secrets

LEMMA SetStore ==
    ASSUME NEW h \in Hosts, NEW store \in Stores
    PROVE  LET r == set_cached_store(h, store) IN
           /\ r \in Hosts /\ r.store = store
           /\ r.logins = h.logins /\ r.active = h.active /\ r.file = h.file
           /\ Consistent(h) => Consistent(r)
           /\ h.store = store => r = h
BY DEF set_cached_store, Hosts, Consistent

LEMMA AddLogin ==
    ASSUME NEW h \in Hosts, NEW l \in Logins
    PROVE  LET r == add_login(h, l) IN
           /\ r \in Hosts /\ r.logins = h.logins \union {l} /\ r.file = h.file
           /\ Consistent(h) => Consistent(r)
BY DEF add_login, Hosts, Consistent

LEMMA RemoveLogin ==
    ASSUME NEW h \in Hosts, NEW l \in Logins, Consistent(h)
    PROVE  LET r == remove_login(h, l) IN
           /\ r \in Hosts /\ Consistent(r)
           /\ \A m \in Logins, s \in Slots :
                r.file[m][s] = IF m = l THEN None ELSE h.file[m][s]
<1> DEFINE rest == h.logins \ {l}
<1>1. CASE rest = {}
  BY <1>1, NoHostType DEF remove_login, NoHost, NoSecrets, Consistent
<1>2. CASE rest # {}
  <2> DEFINE next == CHOOSE m \in rest : TRUE
             r == remove_login(h, l)
  <2>1. next \in rest
    BY <1>2
  <2>2. r = [h EXCEPT !.logins = rest, !.file[l] = NoSecrets[l],
                      !.active = IF @ = l THEN next ELSE @]
    BY <1>2 DEF remove_login
  <2> HIDE DEF next
  <2>3. /\ r.logins = rest /\ r.file = [h.file EXCEPT ![l] = NoSecrets[l]] /\ r.store = h.store
        /\ r.active = IF h.active = l THEN next ELSE h.active
        /\ r = [logins |-> r.logins, active |-> r.active, store |-> r.store, file |-> r.file]
    BY <2>2 DEF Hosts
  <2>4. r.file \in Secrets
    BY <2>3, NoHostType DEF Hosts, Secrets
  <2>5. \A m \in Logins, s \in Slots : r.file[m][s] = IF m = l THEN None ELSE h.file[m][s]
    BY <2>3 DEF Hosts, NoSecrets
  <2>6. r.active \in rest
    BY <1>2, <2>1, <2>3 DEF Consistent
  <2> HIDE DEF r
  <2>7. r \in Hosts
    <3>1. rest \in SUBSET Logins /\ r.active \in Logins \union {None} /\ h.store \in Stores \union {None}
      BY <2>6 DEF Hosts
    <3>2. r = [logins |-> rest, active |-> r.active, store |-> h.store, file |-> r.file]
      BY <2>3
    <3>3. [logins |-> rest, active |-> r.active, store |-> h.store, file |-> r.file] \in Hosts
      BY <2>4, <3>1 DEF Hosts, Secrets
    <3> QED
      BY <3>2, <3>3
  <2>8. Consistent(r)
    <3>1. rest \subseteq Logins
      BY DEF Hosts
    <3>2. r.active # None /\ r.logins # {} /\ r.active \in r.logins
      BY <2>3, <2>6, <3>1
    <3>3. ASSUME NEW m \in Logins \ r.logins, NEW s \in Slots PROVE r.file[m][s] = None
      BY <2>3, <2>5 DEF Consistent
    <3> QED
      BY <3>2, <3>3 DEF Consistent
  <2> QED
    BY <2>5, <2>7, <2>8 DEF r
<1> QED
  BY <1>1, <1>2

(* A secret is put into the file, or taken out of it.                      *)
LEMMA SetFile ==
    ASSUME NEW h \in Hosts, NEW l \in Logins, NEW s \in Slots, NEW x \in Secret \union {None}
    PROVE  LET r == [h EXCEPT !.file[l][s] = x] IN
           /\ r \in Hosts
           /\ r.logins = h.logins /\ r.active = h.active /\ r.store = h.store
           /\ \A m \in Logins, t \in Slots :
                r.file[m][t] = IF m = l /\ t = s THEN x ELSE h.file[m][t]
           /\ Consistent(h) /\ (x = None \/ l \in h.logins) => Consistent(r)
<1> DEFINE r == [h EXCEPT !.file[l][s] = x]
<1>1. r.logins = h.logins /\ r.active = h.active /\ r.store = h.store
  BY DEF Hosts
<1>2. r.file = [h.file EXCEPT ![l] = [h.file[l] EXCEPT ![s] = x]]
  BY DEF Hosts
<1>3. r.file \in Secrets
  BY <1>2 DEF Hosts, Secrets
<1>4. \A m \in Logins, t \in Slots : r.file[m][t] = IF m = l /\ t = s THEN x ELSE h.file[m][t]
  BY <1>2 DEF Hosts
<1>5. r = [h EXCEPT !.file = r.file]
  BY <1>2
<1> HIDE DEF r
<1>6. r \in Hosts
  BY <1>3, <1>5 DEF Hosts, Secrets
<1>7. ASSUME Consistent(h), x = None \/ l \in h.logins PROVE Consistent(r)
  <2>1. ASSUME NEW m \in Logins \ r.logins, NEW t \in Slots PROVE r.file[m][t] = None
    BY <1>1, <1>4, <1>7 DEF Consistent
  <2> QED
    BY <1>1, <1>7, <2>1 DEF Consistent
<1> QED
  BY <1>1, <1>4, <1>6, <1>7 DEF r

LEMMA SetKeyring ==
    ASSUME NEW k \in Secrets, NEW l \in Logins, NEW s \in Slots, NEW x \in Secret \union {None}
    PROVE  LET r == [k EXCEPT ![l][s] = x] IN
           /\ r \in Secrets
           /\ \A m \in Logins, t \in Slots :
                r[m][t] = IF m = l /\ t = s THEN x ELSE k[m][t]
BY DEF Secrets

LEMMA ReadOrder ==
    ASSUME NEW h \in Hosts, NEW forced \in Stores \union {None},
           NEW o, o = read_order(h, forced)
    PROVE  /\ o \in Seq(Stores) /\ o # <<>>
           /\ \A i \in DOMAIN o : o[i] = "keyring" => i = 1
<1>1. CASE forced # None
  <2>1. o = <<forced>> /\ forced \in Stores
    BY <1>1 DEF read_order
  <2> QED
    BY <2>1
<1>2. CASE forced = None /\ h.store \in {"keyring", None}
  <2>1. o = <<"keyring", "file", "env">>
    BY <1>2 DEF read_order, Stores
  <2> QED
    BY <2>1 DEF Stores
<1>3. CASE forced = None /\ h.store = "file"
  <2>1. o = <<"file", "env">>
    BY <1>3 DEF read_order, Stores
  <2> QED
    BY <2>1 DEF Stores
<1>4. CASE forced = None /\ h.store = "env"
  <2>1. o = <<"env">>
    BY <1>4 DEF read_order, Stores
  <2> QED
    BY <2>1 DEF Stores
<1>5. h.store \in {"keyring", "file", "env", None}
  BY DEF Hosts, Stores
<1> QED
  BY <1>1, <1>2, <1>3, <1>4, <1>5

-----------------------------------------------------------------------------
(* Commands.                                                               *)

LEMMA Ops ==
    /\ NoCmd.op = "none" /\ NoCmd \notin Lookups \union Storing \union Logouts
    /\ \A c \in Lookups : c.op = "lookup"
    /\ \A c \in Storing : c.op \in {"login", "renew"}
    /\ \A c \in Logouts : c.op = "logout"
BY DEF NoCmd, Lookups, Storing, Logouts

LEMMA Turn ==
    ASSUME NEW S, NEW q \in Seq(S), q # <<>>
    PROVE  /\ Head(q) \in S /\ Head(q) = q[1] /\ Tail(q) \in Seq(S)
           /\ Len(q) >= 1 /\ Len(Tail(q)) = Len(q) - 1
           /\ \A i \in 1..Len(Tail(q)) : i + 1 \in 1..Len(q) /\ Tail(q)[i] = q[i + 1]
BY HeadTailProperties, EmptySeq

(* Neither hosts.toml nor the keyring changes, and the last result is the  *)
(* same or forgotten.                                                      *)
LEMMA Unwritten ==
    ASSUME IInv, UNCHANGED <<disk, keyring>>, last' \in {last, NoCmd}
    PROVE  ActiveListed' /\ Remembered' /\ FailurePaidOnce'
<1> USE DEF IInv
<1>1. ActiveListed'
  BY DEF ActiveListed, Consistent
<1>2. CASE last' = last
  BY <1>1, <1>2 DEF Remembered, FailurePaidOnce, read_order
<1>3. CASE last' = NoCmd
  BY <1>1, <1>3, Ops DEF Remembered, FailurePaidOnce
<1> QED
  BY <1>2, <1>3

LEMMA InitIInv == Init => IInv
<1> SUFFICES ASSUME Init PROVE IInv
  OBVIOUS
<1>1. TypeOK
  <2>1. disk \in Hosts /\ mem \in Hosts /\ keyring \in Secrets /\ latest \in Secrets
    BY NoHostType DEF Init
  <2>2. cleared \in [Logins -> 0..MaxSecrets] /\ secrets \in 0..MaxSecrets /\ runs \in 0..MaxRuns
    BY DEF Init
  <2> QED
    BY <2>1, <2>2 DEF Init, TypeOK, Secrets
<1>2. Commands /\ LookingUp /\ Renewing /\ LoggingOut /\ Copied
  BY Ops DEF Init, Commands, LookingUp, Renewing, LoggingOut, Copied
<1>3. Numbered /\ Held /\ NoResurrection
  BY DEF Init, Numbered, Held, NoResurrection, NoHost, NoSecrets
<1>4. ActiveListed /\ Consistent(mem) /\ Remembered /\ FailurePaidOnce
  BY NoHostType, Ops DEF Init, ActiveListed, Remembered, FailurePaidOnce
<1> QED
  BY <1>1, <1>2, <1>3, <1>4 DEF IInv

-----------------------------------------------------------------------------
(* A lookup.                                                               *)

LEMMA BeginLookupKeeps == ASSUME IInv, BeginLookup PROVE IInv'
<1> USE DEF IInv
<1>1. PICK l \in disk.logins, s \in Slots, forced \in Overrides, env \in SUBSET EnvSlots :
        Begin([op |-> "lookup", login |-> l, slot |-> s, forced |-> forced, env |-> env,
               failed |-> FALSE, todo |-> read_order(disk, forced), result |-> None], "reading")
  BY DEF BeginLookup
<1> DEFINE order == read_order(disk, forced)
<1>2. /\ cmd' = [op |-> "lookup", login |-> l, slot |-> s, forced |-> forced, env |-> env,
                 failed |-> FALSE, todo |-> order, result |-> None]
      /\ pc = "idle" /\ pc' = "reading" /\ last' = NoCmd /\ runs' = runs + 1 /\ runs < MaxRuns
      /\ UNCHANGED <<disk, keyring, secrets, latest, cleared>> /\ mem' = disk /\ dirty' = FALSE
  BY <1>1 DEF Begin, BeginLookup
<1>3. disk \in Hosts /\ l \in Logins /\ forced \in Stores \union {None}
  BY DEF TypeOK, Hosts
<1>4. order \in Seq(Stores) /\ \A i \in DOMAIN order : order[i] = "keyring" => i = 1
  BY <1>3, ReadOrder
<1> HIDE DEF order
<1>5. cmd' \in Lookups
  BY <1>2, <1>3, <1>4 DEF Lookups
<1>6. TypeOK'
  <2>1. runs' \in 0..MaxRuns
    BY <1>2 DEF TypeOK
  <2>2. UNCHANGED <<disk, keyring, secrets, latest, cleared>> /\ mem' = disk /\ dirty' = FALSE
        /\ pc' = "reading"
    BY <1>2
  <2> QED
    BY <2>1, <2>2 DEF TypeOK
<1>7. Commands'
  BY <1>2, <1>5 DEF Commands
<1>8. cmd'.op = "lookup" /\ cmd'.todo = order /\ cmd'.failed = FALSE
  BY <1>2
<1>9. LookingUp' /\ Renewing' /\ LoggingOut' /\ Copied'
  BY <1>2, <1>4, <1>8 DEF LookingUp, Renewing, LoggingOut, Copied
<1>10. Numbered' /\ NoResurrection'
  BY <1>2 DEF Numbered, NoResurrection
<1>11. cmd.op = "none"
  BY <1>2, Ops DEF Commands
<1>12. Held'
  BY <1>2, <1>8, <1>11 DEF Held
<1>13. Consistent(mem)'
  BY <1>2 DEF ActiveListed, Consistent
<1> QED
  BY <1>2, <1>6, <1>7, <1>9, <1>10, <1>12, <1>13, Unwritten

(* One turn of the loop: what of the invocation it may change.             *)
LEMMA ReadSteps ==
    ASSUME IInv, Read
    PROVE  /\ cmd \in Lookups /\ cmd' \in Lookups /\ cmd'.forced = cmd.forced
           /\ pc = "reading" /\ pc' \in {"reading", "saving"}
           /\ \/ UNCHANGED <<mem, dirty>>
              \/ \E store \in Stores : Remember(store)
           /\ \A i \in DOMAIN cmd'.todo : cmd'.todo[i] = "keyring" => i = 1 /\ ~cmd'.failed
           /\ cmd'.failed /\ cmd.forced = None => mem'.store \in {"file", "env"}
<1> USE DEF IInv
<1>1. cmd \in Lookups /\ pc = "reading" /\ cmd.op = "lookup"
  BY Ops DEF Read, Commands
<1>2. CASE cmd.todo = <<>> /\ pc' = "saving" /\ UNCHANGED <<cmd, mem, dirty>>
  BY <1>1, <1>2 DEF LookingUp
<1>3. CASE cmd.todo # <<>>
  <2> DEFINE store == Head(cmd.todo)
             found == HoldsSecret(store, cmd.login, cmd.slot)
  <2>1. /\ cmd.todo \in Seq(Stores) /\ cmd.login \in Logins /\ cmd.slot \in Slots
        /\ cmd.result \in 0..MaxSecrets \union {None} /\ cmd.failed \in BOOLEAN
        /\ cmd = [op |-> "lookup", login |-> cmd.login, slot |-> cmd.slot, forced |-> cmd.forced,
                  env |-> cmd.env, failed |-> cmd.failed, todo |-> cmd.todo,
                  result |-> cmd.result]
    BY <1>1 DEF Lookups
  <2>2. /\ store \in Stores /\ Tail(cmd.todo) \in Seq(Stores)
        /\ \A i \in DOMAIN Tail(cmd.todo) : Tail(cmd.todo)[i] # "keyring"
    BY <1>1, <1>3, <2>1, Turn DEF LookingUp
  <2>3. cmd.failed => store # "keyring"
    BY <1>1, <1>3, <2>1, Turn DEF LookingUp
  <2>4. found \in 0..MaxSecrets \union {None}
    BY <2>1, <2>2 DEF HoldsSecret, Stores, TypeOK, Hosts, Secret
  <2> HIDE DEF store, found
  <2>5. CASE StoreAnswers(store, found)
    <3>1. /\ cmd' = [cmd EXCEPT !.todo = Tail(@), !.result = found]
          /\ pc' \in {"reading", "saving"}
          /\ UNCHANGED <<mem, dirty>> \/ Remember(store)
      BY <1>1, <2>5 DEF StoreAnswers
    <3>2. cmd' \in Lookups /\ cmd'.failed = cmd.failed /\ cmd'.todo = Tail(cmd.todo)
      BY <1>1, <2>2, <2>4, <3>1 DEF Lookups
    <3>3. cmd.failed /\ cmd.forced = None => mem'.store \in {"file", "env"}
      BY <1>1, <2>2, <2>3, <3>1, SetStore DEF Remember, LookingUp, Stores, TypeOK
    <3> QED
      BY <1>1, <2>2, <3>1, <3>2, <3>3 DEF Lookups
  <2>6. CASE store = "keyring" /\ KeyringUnavailable
    <3>1. cmd' \in Lookups /\ cmd'.todo = Tail(cmd.todo) /\ cmd'.forced = cmd.forced
      BY <1>1, <2>2, <2>6 DEF KeyringUnavailable, Lookups
    <3>2. cmd.forced = None => mem'.store = "file"
      BY <2>6, SetStore DEF KeyringUnavailable, Remember, Stores, TypeOK
    <3> QED
      BY <1>1, <2>2, <2>6, <3>1, <3>2 DEF KeyringUnavailable, Stores
  <2> QED
    BY <1>3, <2>5, <2>6 DEF Read, store, found
<1> QED
  BY <1>2, <1>3 DEF Read

LEMMA ReadKeeps == ASSUME IInv, Read PROVE IInv'
<1> USE DEF IInv
<1>1. /\ cmd \in Lookups /\ cmd' \in Lookups /\ cmd'.forced = cmd.forced
      /\ cmd.op = "lookup" /\ cmd'.op = "lookup"
      /\ pc = "reading" /\ pc' \in {"reading", "saving"}
      /\ UNCHANGED <<disk, keyring, last, secrets, latest, cleared, runs>>
  BY ReadSteps, Ops DEF Read
<1>2. /\ mem' \in Hosts /\ dirty' \in BOOLEAN /\ mem'.file = mem.file /\ Consistent(mem)'
      /\ dirty \/ mem = disk => dirty' \/ mem' = disk
      /\ cmd.forced # None => dirty' = dirty
  <2>1. CASE UNCHANGED <<mem, dirty>>
    BY <2>1 DEF TypeOK, Consistent
  <2>2. ASSUME NEW store \in Stores, Remember(store), cmd.forced = None
        PROVE  /\ mem' \in Hosts /\ dirty' \in BOOLEAN /\ mem'.file = mem.file
               /\ Consistent(mem') /\ (dirty \/ mem = disk => dirty' \/ mem' = disk)
    <3>1. mem' = set_cached_store(mem, store) /\ dirty' = (dirty \/ mem.store # store)
      BY <2>2 DEF Remember
    <3>2. mem \in Hosts /\ dirty \in BOOLEAN
      BY DEF TypeOK
    <3>3. /\ mem' \in Hosts /\ mem'.file = mem.file /\ Consistent(mem')
          /\ mem.store = store => mem' = mem
      BY <3>1, <3>2, SetStore
    <3> QED
      BY <3>1, <3>2, <3>3
  <2>3. Consistent(mem') <=> Consistent(mem)'
    BY DEF Consistent
  <2> QED
    BY <2>1, <2>2, <2>3, ReadSteps DEF Remember
<1>3. TypeOK'
  BY <1>1, <1>2 DEF TypeOK
<1>4. Commands'
  BY <1>1 DEF Commands
<1>5. LookingUp'
  BY <1>1, <1>2, ReadSteps DEF LookingUp
<1>6. Renewing' /\ LoggingOut' /\ Copied'
  BY <1>1, <1>2 DEF Renewing, LoggingOut, Copied
<1>7. Numbered' /\ NoResurrection' /\ Held'
  BY <1>1, <1>2 DEF Numbered, NoResurrection, Held
<1> QED
  BY <1>1, <1>2, <1>3, <1>4, <1>5, <1>6, <1>7, Unwritten

LEMMA Unreported == ASSUME last' = NoCmd PROVE Remembered' /\ FailurePaidOnce'
BY Ops DEF Remembered, FailurePaidOnce

(* An invocation is over.                                                  *)
LEMMA Ended ==
    ASSUME End, last' \in Lookups \union Storing \union {NoCmd}
    PROVE  /\ Commands' /\ LookingUp' /\ Renewing' /\ LoggingOut' /\ Copied'
           /\ mem' \in Hosts /\ Consistent(mem)' /\ cmd'.op = "none"
           /\ \A l \in Logins, s \in Slots : mem'.file[l][s] = None
<1>1. pc' = "idle" /\ cmd' = NoCmd /\ mem' = NoHost /\ cmd'.op = "none"
  BY Ops DEF End
<1>2. Commands'
  BY <1>1 DEF Commands
<1>3. LookingUp' /\ Renewing' /\ LoggingOut' /\ Copied'
  BY <1>1 DEF LookingUp, Renewing, LoggingOut, Copied
<1>4. Consistent(mem)'
  BY <1>1, NoHostType DEF Consistent
<1>5. \A l \in Logins, s \in Slots : mem'.file[l][s] = None
  BY <1>1 DEF NoHost, NoSecrets
<1> QED
  BY <1>1, <1>2, <1>3, <1>4, <1>5, NoHostType

LEMMA SaveLookupKeeps == ASSUME IInv, SaveLookup PROVE IInv'
<1> USE DEF IInv
<1>1. /\ cmd \in Lookups /\ cmd.op = "lookup" /\ pc = "saving" /\ End /\ last' = cmd
      /\ dirty' = FALSE /\ UNCHANGED <<keyring, secrets, latest, cleared, runs>>
  BY Ops DEF SaveLookup, Commands, save_if_dirty
<1>2. disk' = mem
  BY <1>1 DEF SaveLookup, save_if_dirty, LookingUp
<1>3. \A l \in Logins, s \in Slots : disk'.file[l][s] = disk.file[l][s]
  BY <1>1, <1>2 DEF Copied
<1>4. TypeOK'
  BY <1>1, <1>2, Ended DEF TypeOK, End
<1>5. Numbered' /\ NoResurrection'
  BY <1>1, <1>3, Ended DEF Numbered, NoResurrection
<1>6. Held'
  BY <1>1, <1>3, Ended DEF Held
<1>7. ActiveListed'
  BY <1>2 DEF ActiveListed, Consistent
<1>8. Remembered'
  BY <1>1 DEF Remembered
<1>9. FailurePaidOnce'
  <2> SUFFICES ASSUME cmd.failed, cmd.forced = None PROVE Head(read_order(mem, None)) # "keyring"
    BY <1>1, <1>2 DEF FailurePaidOnce, read_order
  <2>1. mem.store = "file" \/ mem.store = "env"
    BY <1>1 DEF LookingUp
  <2>2. read_order(mem, None) = <<"file", "env">> \/ read_order(mem, None) = <<"env">>
    BY <2>1 DEF read_order, Stores
  <2> QED
    BY <2>2
<1> QED
  BY <1>1, <1>4, <1>5, <1>6, <1>7, <1>8, <1>9, Ended

-----------------------------------------------------------------------------
(* A secret is stored.                                                     *)

LEMMA BeginStoreKeeps == ASSUME IInv, BeginStore PROVE IInv'
<1> USE DEF IInv
<1>1. PICK l \in Logins, s \in Slots, op \in {"login", "renew"}, forced \in Overrides,
           insecure \in Insecure :
        /\ secrets < MaxSecrets /\ secrets' = secrets + 1
        /\ Begin([op |-> op, login |-> l, slot |-> s, secret |-> secrets',
                  target |-> Target(forced, insecure)], "storing")
        /\ mem' = add_login(disk, l) /\ dirty' = TRUE
  BY DEF BeginStore
<1>2. /\ cmd' = [op |-> op, login |-> l, slot |-> s, secret |-> secrets',
                 target |-> Target(forced, insecure)]
      /\ pc = "idle" /\ pc' = "storing" /\ last' = NoCmd /\ runs' = runs + 1 /\ runs < MaxRuns
      /\ UNCHANGED <<disk, keyring, latest, cleared>>
  BY <1>1 DEF Begin
<1>3. disk \in Hosts /\ Consistent(disk) /\ secrets \in 0..MaxSecrets /\ runs \in 0..MaxRuns
  BY DEF TypeOK, ActiveListed
<1>4. /\ mem' \in Hosts /\ mem'.logins = disk.logins \union {l} /\ mem'.file = disk.file
      /\ Consistent(mem')
  BY <1>1, <1>3, AddLogin
<1>5. secrets' \in Secret /\ secrets' \in 0..MaxSecrets /\ runs' \in 0..MaxRuns
  BY <1>1, <1>2, <1>3 DEF Secret
<1>6. TypeOK'
  BY <1>1, <1>2, <1>4, <1>5 DEF TypeOK
<1>7. cmd' \in Storing
  <2>1. Target(forced, insecure) \in Stores
    BY DEF Target, Stores
  <2> QED
    BY <1>2, <1>5, <2>1 DEF Storing
<1>8. Commands'
  BY <1>2, <1>7 DEF Commands
<1>9. cmd.op = "none" /\ cmd'.op = op /\ cmd'.login = l /\ cmd'.secret = secrets'
  BY <1>2, Ops DEF Commands
<1>10. Renewing'
  <2>1. \A m \in Logins : cleared[m] < secrets'
    BY <1>1, <1>3 DEF Numbered, Slots, TypeOK
  <2> QED
    BY <1>1, <1>2, <1>4, <1>9, <2>1 DEF Renewing
<1>11. LookingUp' /\ LoggingOut' /\ Copied'
  BY <1>2, <1>4, <1>9 DEF LookingUp, LoggingOut, Copied
<1>12. Numbered'
  BY <1>1, <1>2, <1>3, <1>4 DEF Numbered, NoResurrection, TypeOK, Secret
<1>13. NoResurrection'
  BY <1>2 DEF NoResurrection
<1>14. Held'
  BY <1>2, <1>9 DEF Held
<1>15. Consistent(mem)'
  BY <1>4 DEF Consistent
<1> QED
  BY <1>2, <1>6, <1>8, <1>10, <1>11, <1>12, <1>13, <1>14, <1>15, Unwritten

(* The keyring takes the secret, which is the newest of all.               *)
LEMMA Taken ==
    ASSUME IInv, cmd \in Storing, keyring' = InKeyring
    PROVE  /\ keyring' \in Secrets
           /\ \A l \in Logins, s \in Slots :
                keyring'[l][s] = IF l = cmd.login /\ s = cmd.slot THEN cmd.secret ELSE keyring[l][s]
           /\ UNCHANGED cleared => \A l \in Logins, s \in Slots :
                keyring'[l][s] # None => keyring'[l][s] > cleared'[l]
           /\ UNCHANGED <<disk, latest, cmd>> => Held'
<1> USE DEF IInv
<1>1. /\ cmd.login \in Logins /\ cmd.slot \in Slots /\ cmd.secret \in Secret
      /\ cmd.op \in {"login", "renew"}
  BY DEF Storing
<1>2. /\ keyring' \in Secrets
      /\ \A l \in Logins, s \in Slots :
           keyring'[l][s] = IF l = cmd.login /\ s = cmd.slot THEN cmd.secret ELSE keyring[l][s]
  BY <1>1, SetKeyring DEF InKeyring, TypeOK, Secrets
<1>3. cmd.secret = secrets /\ \A l \in Logins : cleared[l] < secrets
  BY <1>1 DEF Renewing
<1>4. UNCHANGED cleared => \A l \in Logins, s \in Slots :
        keyring'[l][s] # None => keyring'[l][s] > cleared'[l]
  BY <1>2, <1>3 DEF NoResurrection, TypeOK
<1>5. ASSUME UNCHANGED <<disk, latest, cmd>> PROVE Held'
  BY <1>1, <1>2, <1>3, <1>5 DEF Held, Numbered, TypeOK, Secret
<1> QED
  BY <1>2, <1>4, <1>5

LEMMA StoreKeyringKeeps == ASSUME IInv, StoreKeyring PROVE IInv'
<1> USE DEF IInv
<1>1. /\ pc = "storing" /\ cmd \in Storing /\ cmd.op \in {"login", "renew"}
      /\ cmd.login \in Logins /\ cmd.slot \in Slots /\ last = NoCmd
      /\ UNCHANGED <<disk, dirty, last, secrets, latest, cleared, runs>>
  BY Ops DEF StoreKeyring, Commands, Storing
<1>2. mem \in Hosts
  BY DEF TypeOK
<1>3. /\ keyring' \in Secrets
      /\ \A l \in Logins, s \in Slots : keyring'[l][s] # None => keyring'[l][s] > cleared'[l]
  <2>1. CASE keyring' = keyring
    BY <1>1, <2>1 DEF TypeOK, Secrets, NoResurrection
  <2>2. CASE keyring' = InKeyring
    BY <1>1, <2>2, Taken
  <2> QED
    BY <2>1, <2>2 DEF StoreKeyring
<1>4. NoResurrection'
  BY <1>1, <1>3 DEF NoResurrection
<1>5. CASE /\ keyring' = InKeyring /\ mem' = set_cached_store(mem, "keyring")
           /\ pc' = "saving" /\ UNCHANGED cmd
  <2>1. /\ mem' \in Hosts /\ mem'.store = "keyring" /\ mem'.logins = mem.logins
        /\ mem'.file = mem.file /\ Consistent(mem')
    BY <1>2, <1>5, SetStore DEF Stores
  <2>2. TypeOK'
    BY <1>1, <1>3, <1>5, <2>1 DEF TypeOK, Secrets
  <2>3. Commands' /\ LookingUp' /\ LoggingOut' /\ Copied'
    BY <1>1, <1>5, <2>1 DEF Commands, LookingUp, LoggingOut, Copied
  <2>4. Renewing'
    BY <1>1, <1>5, <2>1, Taken DEF Renewing
  <2>5. Numbered' /\ Held'
    BY <1>1, <1>5, <2>1, Taken DEF Numbered
  <2>6. Consistent(mem)' /\ ActiveListed'
    BY <1>1, <2>1 DEF ActiveListed, Consistent
  <2> QED
    BY <1>1, <1>4, <2>2, <2>3, <2>4, <2>5, <2>6, Unreported
<1>6. CASE /\ keyring' \in {keyring, InKeyring} /\ cmd' = [cmd EXCEPT !.target = "file"]
           /\ UNCHANGED <<pc, mem>>
  <2>1. /\ cmd' \in Storing /\ cmd'.op = cmd.op /\ cmd'.login = cmd.login
        /\ cmd'.slot = cmd.slot /\ cmd'.secret = cmd.secret
    BY <1>1, <1>6 DEF Storing, Stores
  <2>2. TypeOK'
    BY <1>1, <1>3, <1>6 DEF TypeOK, Secrets
  <2>3. Commands' /\ LookingUp' /\ LoggingOut' /\ Copied'
    BY <1>1, <1>6, <2>1 DEF Commands, LookingUp, LoggingOut, Copied
  <2>4. Renewing' /\ Numbered'
    BY <1>1, <1>6, <2>1 DEF Renewing, Numbered
  <2>5. Held'
    <3>1. cmd.secret = secrets
      BY <1>1 DEF Renewing
    <3>2. ASSUME NEW l \in Logins, NEW s \in Slots, latest[l][s] # None
          PROVE  \/ keyring'[l][s] # None /\ keyring'[l][s] >= latest[l][s]
                 \/ disk.file[l][s] # None /\ disk.file[l][s] >= latest[l][s]
      <4>1. \/ keyring[l][s] # None /\ keyring[l][s] >= latest[l][s]
            \/ disk.file[l][s] # None /\ disk.file[l][s] >= latest[l][s]
        BY <1>1, <3>2 DEF Held
      <4>2. latest[l][s] <= secrets /\ latest[l][s] \in Nat /\ secrets \in Nat
        BY <3>2 DEF Numbered, TypeOK, Secret
      <4>3. cmd.secret # None
        BY <1>1 DEF Storing, Secret
      <4> QED
        BY <1>1, <1>6, <3>1, <4>1, <4>2, <4>3, Taken
    <3> QED
      BY <1>1, <3>2 DEF Held
  <2>6. Consistent(mem)' /\ ActiveListed'
    BY <1>1, <1>6 DEF ActiveListed, Consistent
  <2> QED
    BY <1>1, <1>4, <2>2, <2>3, <2>4, <2>5, <2>6, Unreported
<1> QED
  BY <1>5, <1>6 DEF StoreKeyring

LEMMA StoreFileKeeps == ASSUME IInv, StoreFile PROVE IInv'
<1> USE DEF IInv
<1>1. /\ pc = "storing" /\ pc' = "saving" /\ cmd \in Storing /\ cmd.op \in {"login", "renew"}
      /\ cmd.login \in Logins /\ cmd.slot \in Slots /\ cmd.secret \in Secret /\ last = NoCmd
      /\ UNCHANGED <<disk, keyring, dirty, cmd, last, secrets, latest, cleared, runs>>
  BY Ops DEF StoreFile, Commands, Storing
<1> DEFINE h == [mem EXCEPT !.file[cmd.login][cmd.slot] = cmd.secret]
<1>2. cmd.login \in mem.logins /\ mem \in Hosts /\ Consistent(mem)
  BY <1>1 DEF Renewing, TypeOK
<1>3. /\ h \in Hosts /\ h.logins = mem.logins /\ Consistent(h)
      /\ \A l \in Logins, s \in Slots :
           h.file[l][s] = IF l = cmd.login /\ s = cmd.slot THEN cmd.secret ELSE mem.file[l][s]
  BY <1>1, <1>2, SetFile
<1>4. mem' = set_cached_store(h, "file")
  BY DEF StoreFile
<1> HIDE DEF h
<1>5. /\ mem' \in Hosts /\ mem'.store = "file" /\ mem'.logins = h.logins
      /\ mem'.file = h.file /\ Consistent(mem')
  BY <1>3, <1>4, SetStore DEF Stores
<1>6. TypeOK'
  BY <1>1, <1>5 DEF TypeOK
<1>7. Commands' /\ LookingUp' /\ LoggingOut'
  BY <1>1 DEF Commands, LookingUp, LoggingOut
<1>8. Copied'
  BY <1>1, <1>3, <1>5 DEF Copied
<1>9. Renewing'
  BY <1>1, <1>3, <1>5 DEF Renewing
<1>10. Numbered'
  BY <1>1, <1>3, <1>5 DEF Numbered, Renewing
<1>11. NoResurrection' /\ Held'
  BY <1>1 DEF NoResurrection, Held
<1>12. Consistent(mem)' /\ ActiveListed'
  BY <1>1, <1>5 DEF ActiveListed, Consistent
<1> QED
  BY <1>1, <1>6, <1>7, <1>8, <1>9, <1>10, <1>11, <1>12, Unreported

LEMMA StoreEnvKeeps == ASSUME IInv, StoreEnv PROVE IInv'
<1> USE DEF IInv
<1>1. /\ pc = "storing" /\ cmd.op \in {"login", "renew"} /\ last = NoCmd /\ End
      /\ dirty' = FALSE /\ UNCHANGED <<disk, keyring, last, secrets, latest, cleared, runs>>
  BY Ops DEF StoreEnv, Commands
<1>2. TypeOK'
  BY <1>1, Ended DEF TypeOK, End
<1>3. Numbered' /\ NoResurrection' /\ Held'
  BY <1>1, Ended DEF Numbered, NoResurrection, Held
<1> QED
  BY <1>1, <1>2, <1>3, Ended, Unwritten

LEMMA SaveStoreKeeps == ASSUME IInv, SaveStore PROVE IInv'
<1> USE DEF IInv
<1>1. /\ pc = "saving" /\ cmd \in Storing /\ cmd.op \in {"login", "renew"}
      /\ cmd.login \in Logins /\ cmd.slot \in Slots /\ cmd.secret \in Secret
      /\ latest' = [latest EXCEPT ![cmd.login][cmd.slot] = cmd.secret] /\ last' = cmd
      /\ dirty' = FALSE /\ UNCHANGED <<keyring, secrets, cleared, runs>>
  BY Ops DEF SaveStore, Commands, Storing, save_if_dirty
<1>2. disk' = mem
  BY <1>1 DEF SaveStore, save_if_dirty, Renewing
<1>3. \/ mem.store = "keyring" /\ keyring[cmd.login][cmd.slot] = cmd.secret
      \/ mem.store = "file" /\ mem.file[cmd.login][cmd.slot] = cmd.secret
  BY <1>1 DEF Renewing
<1>4. /\ latest' \in Secrets
      /\ \A l \in Logins, s \in Slots :
           latest'[l][s] = IF l = cmd.login /\ s = cmd.slot THEN cmd.secret ELSE latest[l][s]
  BY <1>1, SetKeyring DEF TypeOK, Secrets
<1>5. \A l \in Logins, s \in Slots :
        (l = cmd.login /\ s = cmd.slot) \/ mem.file[l][s] = disk.file[l][s]
  BY <1>1 DEF Copied
<1>6. NoResurrection' /\ ActiveListed'
  BY <1>1, <1>2 DEF NoResurrection, Numbered, ActiveListed, Consistent
<1>7. Held'
  <2> SUFFICES ASSUME NEW l \in Logins, NEW s \in Slots, latest'[l][s] # None
               PROVE  \/ keyring[l][s] # None /\ keyring[l][s] >= latest'[l][s]
                      \/ mem.file[l][s] # None /\ mem.file[l][s] >= latest'[l][s]
    BY <1>1, <1>2 DEF Held
  <2>1. CASE l = cmd.login /\ s = cmd.slot
    BY <1>1, <1>3, <1>4, <2>1 DEF Secret
  <2>2. CASE ~(l = cmd.login /\ s = cmd.slot)
    BY <1>1, <1>4, <1>5, <2>2 DEF Held
  <2> QED
    BY <2>1, <2>2
<1>8. Remembered' /\ FailurePaidOnce'
  BY <1>1, <1>2, <1>3 DEF Remembered, FailurePaidOnce
<1>9. \A l \in Logins, s \in Slots :
        cleared'[l] <= secrets' /\ (latest'[l][s] # None => latest'[l][s] <= secrets')
  BY <1>1, <1>4 DEF Numbered, Renewing, TypeOK, Secret
<1>10. CASE cmd.op = "login"
  <2>1. pc' = "selecting" /\ UNCHANGED <<cmd, mem>>
    BY <1>10 DEF SaveStore
  <2>2. TypeOK'
    BY <1>1, <1>2, <1>4, <2>1 DEF TypeOK, Secrets
  <2>3. Commands' /\ LookingUp' /\ LoggingOut' /\ Copied'
    BY <1>1, <1>2, <2>1 DEF Commands, LookingUp, LoggingOut, Copied
  <2>4. Renewing'
    BY <1>1, <1>2, <1>3, <2>1 DEF Renewing
  <2>5. Numbered' /\ Consistent(mem)'
    BY <1>1, <1>9, <2>1 DEF Numbered, Consistent
  <2> QED
    BY <1>6, <1>7, <1>8, <2>2, <2>3, <2>4, <2>5
<1>11. CASE cmd.op # "login"
  <2>1. End
    BY <1>11 DEF SaveStore
  <2>2. TypeOK'
    BY <1>1, <1>2, <1>4, <2>1, Ended DEF TypeOK, Secrets, End
  <2>3. Numbered'
    BY <1>1, <1>9, <2>1, Ended DEF Numbered
  <2> QED
    BY <1>1, <1>6, <1>7, <1>8, <2>1, <2>2, <2>3, Ended
<1> QED
  BY <1>10, <1>11

LEMMA SelectKeeps == ASSUME IInv, Select PROVE IInv'
<1> USE DEF IInv
<1>1. /\ pc = "selecting" /\ cmd \in Storing /\ cmd.op \in {"login", "renew"} /\ End
      /\ last = cmd /\ disk = mem /\ cmd.login \in mem.logins
      /\ UNCHANGED <<keyring, dirty, last, secrets, latest, cleared, runs>>
  BY Ops DEF Select, Commands, Renewing
<1>2. disk' = [mem EXCEPT !.active = cmd.login] /\ cmd.login \in Logins
  BY <1>1 DEF Select, Storing
<1>3. /\ disk' \in Hosts /\ disk'.store = disk.store /\ disk'.file = disk.file
      /\ disk'.logins = disk.logins /\ disk'.active = cmd.login
  BY <1>1, <1>2 DEF TypeOK, Hosts
<1>4. TypeOK'
  BY <1>1, <1>3, Ended DEF TypeOK, End
<1>5. Numbered' /\ NoResurrection' /\ Held'
  BY <1>1, <1>3, Ended DEF Numbered, NoResurrection, Held
<1>6. ActiveListed'
  BY <1>1, <1>2, <1>3 DEF ActiveListed, Consistent
<1>7. Remembered' /\ FailurePaidOnce'
  BY <1>1, <1>3 DEF Remembered, FailurePaidOnce
<1> QED
  BY <1>1, <1>4, <1>5, <1>6, <1>7, Ended

-----------------------------------------------------------------------------
(* A login is logged out.                                                  *)

LEMMA Order ==
    /\ ForgetOrder \in Seq([store : {"keyring", "file"}, slot : Slots]) /\ Len(ForgetOrder) = 4
    /\ ForgetOrder[1] = [store |-> "keyring", slot |-> "api"]
    /\ ForgetOrder[2] = [store |-> "keyring", slot |-> "web"]
    /\ ForgetOrder[3] = [store |-> "file", slot |-> "api"]
    /\ ForgetOrder[4] = [store |-> "file", slot |-> "web"]
<1>1. /\ [store |-> "keyring", slot |-> "api"] \in [store : {"keyring", "file"}, slot : Slots]
      /\ [store |-> "keyring", slot |-> "web"] \in [store : {"keyring", "file"}, slot : Slots]
      /\ [store |-> "file", slot |-> "api"] \in [store : {"keyring", "file"}, slot : Slots]
      /\ [store |-> "file", slot |-> "web"] \in [store : {"keyring", "file"}, slot : Slots]
  BY DEF Slots
<1> QED
  BY <1>1 DEF ForgetOrder

LEMMA BeginLogoutKeeps == ASSUME IInv, BeginLogout PROVE IInv'
<1> USE DEF IInv
<1>1. PICK l \in disk.logins :
        Begin([op |-> "logout", login |-> l, failed |-> FALSE, todo |-> ForgetOrder], "forgetting")
  BY DEF BeginLogout
<1>2. /\ cmd' = [op |-> "logout", login |-> l, failed |-> FALSE, todo |-> ForgetOrder]
      /\ pc = "idle" /\ pc' = "forgetting" /\ last' = NoCmd /\ runs' = runs + 1 /\ runs < MaxRuns
      /\ UNCHANGED <<disk, keyring, latest, cleared, secrets>> /\ mem' = disk /\ dirty' = FALSE
  BY <1>1 DEF Begin, BeginLogout
<1>3. l \in Logins /\ runs' \in 0..MaxRuns
  BY <1>2 DEF TypeOK, Hosts
<1>4. cmd' \in Logouts /\ cmd'.op = "logout" /\ cmd'.login = l /\ cmd'.todo = ForgetOrder
  BY <1>2, <1>3, Order DEF Logouts
<1>5. TypeOK'
  BY <1>2, <1>3 DEF TypeOK
<1>6. Commands' /\ LookingUp' /\ Renewing' /\ Copied'
  BY <1>2, <1>4 DEF Commands, LookingUp, Renewing, Copied
<1>7. LoggingOut'
  <2>1. Len(cmd'.todo) = 4 /\ \A i \in 1..4 : cmd'.todo[i] = ForgetOrder[4 - 4 + i]
    BY <1>4, Order
  <2>2. \A i \in 1..Len(cmd'.todo) : cmd'.todo[i] = ForgetOrder[4 - Len(cmd'.todo) + i]
    BY <2>1
  <2>3. Len(cmd'.todo) <= 4 /\ ~(Len(cmd'.todo) < 4) /\ ~(Len(cmd'.todo) < 3)
    BY <2>1
  <2>4. pc' # "removing"
    BY <1>2
  <2> QED
    BY <2>2, <2>3, <2>4 DEF LoggingOut
<1>8. cmd.op = "none"
  BY <1>2, Ops DEF Commands
<1>9. Numbered' /\ NoResurrection' /\ Held'
  BY <1>2, <1>8 DEF Numbered, NoResurrection, Held
<1>10. Consistent(mem)'
  BY <1>2 DEF ActiveListed, Consistent
<1> QED
  BY <1>2, <1>5, <1>6, <1>7, <1>9, <1>10, Unwritten

(* The rest of an order is an order.                                       *)
LEMMA Rest ==
    ASSUME NEW S, NEW q \in Seq(S), q # <<>>,
           \A i \in 1..Len(q) : q[i] = ForgetOrder[4 - Len(q) + i]
    PROVE  /\ Len(q) \in Nat \ {0} /\ Len(Tail(q)) = Len(q) - 1 /\ Tail(q) \in Seq(S)
           /\ Head(q) \in S /\ Head(q) = ForgetOrder[4 + 1 - Len(q)]
           /\ \A i \in 1..(Len(q) - 1) : Tail(q)[i] = ForgetOrder[4 - (Len(q) - 1) + i]
<1>1. /\ Head(q) \in S /\ Head(q) = q[1] /\ Tail(q) \in Seq(S)
      /\ Len(q) >= 1 /\ Len(Tail(q)) = Len(q) - 1
      /\ \A i \in 1..Len(Tail(q)) : i + 1 \in 1..Len(q) /\ Tail(q)[i] = q[i + 1]
  BY Turn
<1>2. Len(q) \in Nat
  BY LenProperties
<1> DEFINE len == Len(q)
<1> HIDE DEF len
<1>3. 4 - len + 1 = 4 + 1 - len /\ 1 \in 1..len
  BY <1>1, <1>2 DEF len
<1>4. Head(q) = ForgetOrder[4 + 1 - len]
  BY <1>1, <1>3 DEF len
<1>5. ASSUME NEW i \in 1..(len - 1) PROVE Tail(q)[i] = ForgetOrder[4 - (len - 1) + i]
  <2>1. i + 1 \in 1..len /\ 4 - len + (i + 1) = 4 - (len - 1) + i
    BY <1>2, <1>5 DEF len
  <2>2. Tail(q)[i] = q[i + 1]
    BY <1>1, <1>5 DEF len
  <2>3. q[i + 1] = ForgetOrder[4 - len + (i + 1)]
    BY <2>1 DEF len
  <2> QED
    BY <2>1, <2>2, <2>3
<1> QED
  BY <1>1, <1>2, <1>4, <1>5 DEF len

(* One turn of the loop: the head of todo is forgotten.                    *)
LEMMA ForgetSteps ==
    ASSUME IInv, Forget
    PROVE  LET left == Len(cmd.todo)
               store == ForgetOrder[5 - left].store
               slot == ForgetOrder[5 - left].slot
               gone == [keyring EXCEPT ![cmd.login][slot] = None]
           IN  /\ cmd \in Logouts /\ cmd' \in Logouts /\ cmd'.login = cmd.login
               /\ left \in 1..4 /\ slot \in Slots /\ Len(cmd'.todo) = left - 1
               /\ \A i \in 1..(left - 1) : cmd'.todo[i] = ForgetOrder[4 - (left - 1) + i]
               /\ \/ /\ store = "keyring" /\ UNCHANGED <<mem, dirty>>
                     /\ \/ keyring' = gone /\ cmd'.failed = cmd.failed
                        \/ keyring' \in {keyring, gone} /\ cmd'.failed = TRUE
                  \/ /\ store = "file" /\ UNCHANGED keyring /\ cmd'.failed = cmd.failed
                     /\ mem' = [mem EXCEPT !.file[cmd.login][slot] = None] /\ dirty' = TRUE
<1> USE DEF IInv
<1> DEFINE left == Len(cmd.todo)
           kind == [store : {"keyring", "file"}, slot : Slots]
<1>1. cmd \in Logouts /\ cmd.op = "logout" /\ cmd.todo \in Seq(kind) /\ cmd.todo # <<>>
  BY Ops DEF Forget, Commands, Logouts
<1>2. left <= 4 /\ \A i \in 1..left : cmd.todo[i] = ForgetOrder[4 - left + i]
  BY <1>1 DEF LoggingOut
<1> HIDE DEF kind
<1>3. /\ left \in Nat \ {0} /\ Len(Tail(cmd.todo)) = left - 1 /\ Tail(cmd.todo) \in Seq(kind)
      /\ Head(cmd.todo) \in kind /\ Head(cmd.todo) = ForgetOrder[4 + 1 - left]
      /\ \A i \in 1..(left - 1) : Tail(cmd.todo)[i] = ForgetOrder[4 - (left - 1) + i]
  BY <1>1, <1>2, Rest
<1> HIDE DEF left
<1>4. 4 + 1 - left = 5 - left /\ left \in 1..4
  BY <1>2, <1>3
<1>5. Head(cmd.todo) = ForgetOrder[5 - left] /\ ForgetOrder[5 - left] \in kind
  BY <1>3, <1>4
<1>6. \/ cmd' = [cmd EXCEPT !.todo = Tail(@)]
      \/ cmd' = [cmd EXCEPT !.todo = Tail(@), !.failed = TRUE]
  BY DEF Forget
<1>7. cmd' \in Logouts /\ cmd'.login = cmd.login /\ cmd'.todo = Tail(cmd.todo)
  <2>1. CASE cmd' = [cmd EXCEPT !.todo = Tail(@)]
    BY <1>1, <1>3, <2>1 DEF Logouts, kind
  <2>2. CASE cmd' = [cmd EXCEPT !.todo = Tail(@), !.failed = TRUE]
    BY <1>1, <1>3, <2>2 DEF Logouts, kind
  <2> QED
    BY <1>6, <2>1, <2>2
<1>8. /\ cmd' = [cmd EXCEPT !.todo = Tail(@)] => cmd'.failed = cmd.failed
      /\ cmd' = [cmd EXCEPT !.todo = Tail(@), !.failed = TRUE] => cmd'.failed = TRUE
  BY <1>1 DEF Logouts
<1>9. ForgetOrder[5 - left].slot \in Slots
  BY <1>5 DEF kind
<1>10. LET store == ForgetOrder[5 - left].store
           slot == ForgetOrder[5 - left].slot
           gone == [keyring EXCEPT ![cmd.login][slot] = None]
       IN  \/ /\ store = "keyring" /\ UNCHANGED <<mem, dirty>>
              /\ \/ keyring' = gone /\ cmd'.failed = cmd.failed
                 \/ keyring' \in {keyring, gone} /\ cmd'.failed = TRUE
           \/ /\ store = "file" /\ UNCHANGED keyring /\ cmd'.failed = cmd.failed
              /\ mem' = [mem EXCEPT !.file[cmd.login][slot] = None] /\ dirty' = TRUE
  BY <1>5, <1>8 DEF Forget
<1> QED
  BY <1>1, <1>3, <1>4, <1>7, <1>9, <1>10 DEF left

LEMMA ForgetKeeps == ASSUME IInv, Forget PROVE IInv'
<1> USE DEF IInv
<1> DEFINE left == Len(cmd.todo)
           store == ForgetOrder[5 - left].store
           slot == ForgetOrder[5 - left].slot
           gone == [keyring EXCEPT ![cmd.login][slot] = None]
           cut == [mem EXCEPT !.file[cmd.login][slot] = None]
<1>1. /\ cmd \in Logouts /\ cmd' \in Logouts /\ cmd'.login = cmd.login /\ cmd.login \in Logins
      /\ cmd.op = "logout" /\ cmd'.op = "logout" /\ cmd.failed \in BOOLEAN
      /\ left \in 1..4 /\ slot \in Slots /\ Len(cmd'.todo) = left - 1
      /\ \A i \in 1..(left - 1) : cmd'.todo[i] = ForgetOrder[4 - (left - 1) + i]
      /\ pc = "forgetting" /\ last = NoCmd
      /\ UNCHANGED <<disk, pc, last, secrets, latest, cleared, runs>>
  BY ForgetSteps, Ops DEF Forget, Logouts, Commands
<1>2. \/ /\ store = "keyring" /\ UNCHANGED <<mem, dirty>>
         /\ \/ keyring' = gone /\ cmd'.failed = cmd.failed
            \/ keyring' \in {keyring, gone} /\ cmd'.failed = TRUE
      \/ /\ store = "file" /\ UNCHANGED keyring /\ cmd'.failed = cmd.failed
         /\ mem' = cut /\ dirty' = TRUE
  BY ForgetSteps
<1>3. /\ gone \in Secrets
      /\ \A l \in Logins, s \in Slots :
           gone[l][s] = IF l = cmd.login /\ s = slot THEN None ELSE keyring[l][s]
  BY <1>1, SetKeyring DEF TypeOK, Secrets
<1>4. /\ cut \in Hosts /\ Consistent(cut)
      /\ \A l \in Logins, s \in Slots :
           cut.file[l][s] = IF l = cmd.login /\ s = slot THEN None ELSE mem.file[l][s]
  <2>1. mem \in Hosts /\ cmd.login \in Logins /\ slot \in Slots /\ Consistent(mem)
    BY <1>1 DEF TypeOK
  <2> HIDE DEF slot
  <2> QED
    BY <2>1, SetFile
<1>5. LoggingOut'
  <2>1. /\ left = 4 => store = "keyring" /\ slot = "api"
        /\ left = 3 => store = "keyring" /\ slot = "web"
        /\ left \in {1, 2} => store = "file"
    <3> HIDE DEF left
    <3>1. left = 4 => 5 - left = 1
      OBVIOUS
    <3>2. left = 3 => 5 - left = 2
      OBVIOUS
    <3>3. left \in {1, 2} => 5 - left \in {3, 4}
      OBVIOUS
    <3> QED
      BY <3>1, <3>2, <3>3, Order
  <2> HIDE DEF left, store, slot, gone
  <2>2. /\ ~cmd.failed /\ left < 4 => keyring[cmd.login]["api"] = None
        /\ ~cmd.failed /\ left < 3 => keyring[cmd.login]["web"] = None
    BY <1>1 DEF LoggingOut, left
  <2>3. CASE cmd'.failed = TRUE
    BY <1>1, <2>3 DEF LoggingOut
  <2>4. CASE store = "keyring" /\ keyring' = gone /\ cmd'.failed = cmd.failed
    <3>1. CASE left = 4 /\ slot = "api"
      <4>1. keyring'[cmd.login]["api"] = None
        BY <1>1, <1>3, <2>4, <3>1
      <4> QED
        BY <1>1, <3>1, <4>1 DEF LoggingOut
    <3>2. CASE left = 3 /\ slot = "web"
      <4>1. keyring'[cmd.login]["web"] = None
        BY <1>1, <1>3, <2>4, <3>2
      <4>2. keyring'[cmd.login]["api"] = keyring[cmd.login]["api"]
        BY <1>1, <1>3, <2>4, <3>2 DEF Slots
      <4> QED
        BY <1>1, <2>2, <2>4, <3>2, <4>1, <4>2 DEF LoggingOut
    <3> QED
      BY <1>1, <2>1, <2>4, <3>1, <3>2
  <2>5. CASE store = "file" /\ keyring' = keyring /\ cmd'.failed = cmd.failed
    <3>1. left \in {1, 2}
      BY <1>1, <2>1, <2>5
    <3> QED
      BY <1>1, <2>2, <2>5, <3>1 DEF LoggingOut
  <2> QED
    BY <1>2, <2>3, <2>4, <2>5
<1> HIDE DEF gone, cut, store, slot, left
<1>6. keyring' \in Secrets /\ mem' \in Hosts /\ dirty' \in BOOLEAN /\ Consistent(mem')
  BY <1>2, <1>3, <1>4 DEF TypeOK, Secrets
<1>7. \A l \in Logins, s \in Slots :
        /\ keyring'[l][s] # None => keyring'[l][s] = keyring[l][s]
        /\ mem'.file[l][s] # None => mem'.file[l][s] = mem.file[l][s]
        /\ l # cmd.login => keyring'[l][s] = keyring[l][s] /\ mem'.file[l][s] = mem.file[l][s]
  BY <1>2, <1>3, <1>4
<1>8. TypeOK'
  BY <1>1, <1>6 DEF TypeOK, Secrets
<1>9. Commands' /\ LookingUp' /\ Renewing'
  BY <1>1 DEF Commands, LookingUp, Renewing
<1>10. Copied'
  BY <1>1, <1>7 DEF Copied
<1>11. Numbered' /\ NoResurrection'
  BY <1>1, <1>7 DEF Numbered, NoResurrection
<1>12. Held'
  BY <1>1, <1>7 DEF Held
<1>13. ActiveListed' /\ Consistent(mem)'
  BY <1>1, <1>6 DEF ActiveListed, Consistent
<1> QED
  BY <1>1, <1>5, <1>8, <1>9, <1>10, <1>11, <1>12, <1>13, Unreported

LEMMA SaveForgottenKeeps == ASSUME IInv, SaveForgotten PROVE IInv'
<1> USE DEF IInv
<1>1. /\ pc = "forgetting" /\ pc' = "removing" /\ cmd.todo = <<>> /\ last = NoCmd
      /\ cmd \in Logouts /\ cmd.op = "logout" /\ cmd.login \in Logins
      /\ disk' = (IF dirty THEN mem ELSE disk) /\ dirty' = FALSE
      /\ latest' = [latest EXCEPT ![cmd.login] = NoSecrets[cmd.login]]
      /\ UNCHANGED <<keyring, mem, cmd, last, secrets, cleared, runs>>
  BY Ops DEF SaveForgotten, save_if_dirty, Commands, Logouts
<1>2. disk' \in Hosts /\ Consistent(disk')
  BY <1>1 DEF TypeOK, ActiveListed
<1>3. \A l \in Logins, s \in Slots :
        /\ disk'.file[l][s] # None => disk'.file[l][s] > cleared[l]
        /\ l # cmd.login => disk'.file[l][s] = disk.file[l][s]
  BY <1>1 DEF Numbered, NoResurrection, Copied
<1>4. /\ latest' \in Secrets
      /\ \A l \in Logins, s \in Slots :
           latest'[l][s] = IF l = cmd.login THEN None ELSE latest[l][s]
  BY <1>1, NoHostType DEF TypeOK, Secrets, NoSecrets
<1>5. TypeOK'
  BY <1>1, <1>2, <1>4 DEF TypeOK, Secrets
<1>6. Commands' /\ LookingUp' /\ Renewing'
  BY <1>1 DEF Commands, LookingUp, Renewing
<1>7. LoggingOut'
  <2>1. \A s \in Slots : latest'[cmd.login][s] = None
    BY <1>1, <1>4
  <2>2. Len(cmd.todo) = 0
    BY <1>1
  <2> QED
    BY <1>1, <2>1, <2>2 DEF LoggingOut
<1>8. Copied'
  BY <1>1 DEF Copied
<1>9. Numbered' /\ NoResurrection' /\ Held'
  BY <1>1, <1>3, <1>4 DEF Numbered, NoResurrection, Held
<1>10. ActiveListed' /\ Consistent(mem)'
  BY <1>1, <1>2 DEF ActiveListed, Consistent
<1> QED
  BY <1>1, <1>5, <1>6, <1>7, <1>8, <1>9, <1>10, Unreported

LEMMA RemoveKeeps == ASSUME IInv, Remove PROVE IInv'
<1> USE DEF IInv
<1>1. /\ pc = "removing" /\ End /\ cmd \in Logouts /\ cmd.op = "logout" /\ cmd.login \in Logins
      /\ last = NoCmd /\ disk' = remove_login(mem, cmd.login)
      /\ cleared' = (IF cmd.failed THEN cleared ELSE [cleared EXCEPT ![cmd.login] = secrets])
      /\ UNCHANGED <<keyring, dirty, last, secrets, latest, runs>>
  BY Ops DEF Remove, Commands, Logouts
<1>2. /\ disk' \in Hosts /\ Consistent(disk')
      /\ \A l \in Logins, s \in Slots :
           disk'.file[l][s] = IF l = cmd.login THEN None ELSE mem.file[l][s]
  BY <1>1, RemoveLogin DEF TypeOK
<1>3. \A l \in Logins, s \in Slots : l # cmd.login => mem.file[l][s] = disk.file[l][s]
  BY <1>1 DEF Copied
<1>4. /\ cleared' \in [Logins -> 0..MaxSecrets]
      /\ \A l \in Logins : cleared'[l] <= secrets /\ (l # cmd.login => cleared'[l] = cleared[l])
      /\ cmd.failed => cleared' = cleared
  BY <1>1 DEF TypeOK, Numbered, Slots
<1>5. /\ ~cmd.failed => \A s \in Slots : keyring[cmd.login][s] = None
      /\ \A s \in Slots : latest[cmd.login][s] = None
  BY <1>1 DEF LoggingOut, Slots
<1>6. TypeOK'
  BY <1>1, <1>2, <1>4, Ended DEF TypeOK, End
<1>7. Numbered'
  BY <1>1, <1>4, Ended DEF Numbered
<1>8. NoResurrection'
  BY <1>1, <1>2, <1>3, <1>4, <1>5 DEF NoResurrection
<1>9. Held'
  BY <1>1, <1>2, <1>3, <1>5, Ended DEF Held
<1>10. ActiveListed'
  BY <1>2 DEF ActiveListed, Consistent
<1> QED
  BY <1>1, <1>6, <1>7, <1>8, <1>9, <1>10, Ended, Unreported

LEMMA CrashKeeps == ASSUME IInv, Crash PROVE IInv'
<1> USE DEF IInv
<1>1. /\ pc # "idle" /\ End /\ dirty' = FALSE /\ last' = NoCmd
      /\ UNCHANGED <<disk, keyring, secrets, cleared, runs>>
  BY DEF Crash
<1>2. cmd.op = "logout" => cmd.login \in Logins
  BY <1>1, Ops DEF Commands, Logouts, TypeOK
<1>3. /\ latest' \in Secrets
      /\ \A l \in Logins, s \in Slots :
           latest'[l][s] = IF cmd.op = "logout" /\ l = cmd.login THEN None ELSE latest[l][s]
  BY <1>2, NoHostType DEF Crash, TypeOK, Secrets, NoSecrets
<1>4. TypeOK'
  BY <1>1, <1>3, Ended DEF TypeOK, Secrets, End
<1>5. Numbered' /\ NoResurrection'
  BY <1>1, <1>3, Ended DEF Numbered, NoResurrection
<1>6. Held'
  BY <1>1, <1>3, Ended DEF Held
<1> QED
  BY <1>1, <1>4, <1>5, <1>6, Ended, Unwritten

LEMMA StutterKeeps == ASSUME IInv, UNCHANGED vars PROVE IInv'
<1> USE DEF IInv
<1>1. UNCHANGED <<disk, keyring, mem, dirty, pc, cmd, last, secrets, latest, cleared, runs>>
  BY DEF vars
<1>2. TypeOK' /\ Commands' /\ LookingUp' /\ Renewing' /\ Copied'
  BY <1>1 DEF TypeOK, Commands, LookingUp, Renewing, Copied
<1>3. LoggingOut'
  BY <1>1 DEF LoggingOut
<1>4. Numbered' /\ NoResurrection' /\ Held' /\ Consistent(mem)'
  BY <1>1 DEF Numbered, NoResurrection, Held, Consistent
<1> QED
  BY <1>1, <1>2, <1>3, <1>4, Unwritten

LEMMA NextKeeps == IInv /\ [Next]_vars => IInv'
<1> SUFFICES ASSUME IInv, [Next]_vars PROVE IInv'
  OBVIOUS
<1>1. CASE BeginLookup \/ Read \/ SaveLookup
  BY <1>1, BeginLookupKeeps, ReadKeeps, SaveLookupKeeps
<1>2. CASE BeginStore \/ StoreKeyring \/ StoreFile \/ StoreEnv \/ SaveStore \/ Select
  BY <1>2, BeginStoreKeeps, StoreKeyringKeeps, StoreFileKeeps, StoreEnvKeeps, SaveStoreKeeps,
     SelectKeeps
<1>3. CASE BeginLogout \/ Forget \/ SaveForgotten \/ Remove
  BY <1>3, BeginLogoutKeeps, ForgetKeeps, SaveForgottenKeeps, RemoveKeeps
<1>4. CASE Crash
  BY <1>4, CrashKeeps
<1>5. CASE UNCHANGED vars
  BY <1>5, StutterKeeps
<1> QED
  BY <1>1, <1>2, <1>3, <1>4, <1>5 DEF Next

-----------------------------------------------------------------------------
(* What is in the first store of the order is found.                       *)
LEMMA FirstFound ==
    ASSUME TypeOK, NEW l \in Logins, NEW s \in Slots, NEW x \in Secret,
           \/ disk.store = "keyring" /\ keyring[l][s] = x
           \/ disk.store = "file" /\ disk.file[l][s] = x
    PROVE  Finds(l, s) = x
<1> DEFINE order == read_order(disk, None)
           At(store) == CASE store = "keyring" -> keyring[l][s]
                          [] store = "file" -> disk.file[l][s]
                          [] store = "env" -> None
           hits == {i \in DOMAIN order : At(order[i]) # None}
           first == CHOOSE i \in hits : \A j \in hits : i <= j
<1>1. x # None
  BY DEF Secret
<1>2. order[1] = disk.store /\ DOMAIN order \subseteq 1..3 /\ 1 \in DOMAIN order
  <2>1. CASE disk.store = "keyring"
    <3>1. order = <<"keyring", "file", "env">>
      BY <2>1 DEF read_order, Stores
    <3> HIDE DEF order
    <3> QED
      BY <2>1, <3>1
  <2>2. CASE disk.store = "file"
    <3>1. order = <<"file", "env">>
      BY <2>2 DEF read_order, Stores
    <3> HIDE DEF order
    <3> QED
      BY <2>2, <3>1
  <2> QED
    BY <2>1, <2>2
<1>3. At(order[1]) = x
  BY <1>2
<1> HIDE DEF order, At
<1>4. 1 \in hits /\ hits \subseteq 1..3
  BY <1>1, <1>2, <1>3
<1> HIDE DEF hits
<1>5. first \in hits /\ \A j \in hits : first <= j
  <2>1. \E i \in hits : \A j \in hits : i <= j
    BY <1>4
  <2> QED
    BY <2>1
<1>6. first = 1
  <2> HIDE DEF first
  <2> QED
    BY <1>4, <1>5
<1>7. Finds(l, s) = IF hits = {} THEN None ELSE At(order[first])
  BY DEF Finds, hits, At, order
<1> HIDE DEF first
<1> QED
  BY <1>3, <1>4, <1>6, <1>7

(* IInv holds in every state, for any number of logins and invocations.    *)
THEOREM Inductive == Spec => []IInv
BY InitIInv, NextKeeps, PTL DEF Spec

(* Every variable keeps its type.                                          *)
THEOREM TypeCorrect == Spec => []TypeOK
<1>1. IInv => TypeOK
  BY DEF IInv
<1> QED
  BY <1>1, Inductive, PTL

(* Whenever the process dies, hosts.toml names an active login if it lists *)
(* any, and one that it lists (add_login, remove_login).                   *)
THEOREM HostsConsistent == Spec => []ActiveListed
<1>1. IInv => ActiveListed
  BY DEF IInv
<1> QED
  BY <1>1, Inductive, PTL

(* What store_in reported stored is what Credentials::secret finds next.   *)
THEOREM StoredFound == Spec => []StoredIsFound
<1>1. IInv => StoredIsFound
  <2> SUFFICES ASSUME IInv, last.op \in {"login", "renew"}
               PROVE  Finds(last.login, last.slot) = last.secret
    BY DEF StoredIsFound
  <2>1. last \in Storing
    BY Ops DEF IInv, Commands
  <2>2. last.login \in Logins /\ last.slot \in Slots /\ last.secret \in Secret
    BY <2>1 DEF Storing
  <2> QED
    BY <2>2, FirstFound DEF IInv, Remembered
<1> QED
  BY <1>1, Inductive, PTL

(* A login that is not being logged out keeps its last secret or a newer   *)
(* one in some store, whenever the process dies (store_in).                *)
THEOREM NeverWithout == Spec => []NeverLeftWithout
<1>1. IInv => NeverLeftWithout
  BY DEF IInv, Held, NeverLeftWithout
<1> QED
  BY <1>1, Inductive, PTL

(* After a logout without warnings no older secret of the login comes back *)
(* (forget, remove_login).                                                 *)
THEOREM LogoutFinal == Spec => []NoResurrection
<1>1. IInv => NoResurrection
  BY DEF IInv
<1> QED
  BY <1>1, Inductive, PTL

(* A lookup that met a keyring out of reach sends the next one elsewhere   *)
(* (secret, set_cached_store).                                             *)
THEOREM FailureRemembered == Spec => []FailurePaidOnce
<1>1. IInv => FailurePaidOnce
  BY DEF IInv
<1> QED
  BY <1>1, Inductive, PTL

(* A lookup under GEA_CREDENTIAL_STORE does not change hosts.toml (secret, *)
(* save_if_dirty).                                                         *)
THEOREM OverrideForgotten == Spec => OverrideNotRemembered
<1>1. ASSUME IInv, Next, cmd.op = "lookup", cmd.forced # None PROVE UNCHANGED disk
  <2> USE DEF IInv
  <2>1. pc # "idle" /\ cmd \notin Storing \union Logouts
    BY <1>1, Ops DEF Commands
  <2>2. pc \in {"reading", "saving"}
    BY <1>1, <2>1 DEF Commands, TypeOK
  <2>3. ~dirty
    BY <1>1 DEF LookingUp
  <2>4. CASE Read \/ SaveLookup \/ Crash
    BY <2>3, <2>4 DEF Read, SaveLookup, save_if_dirty, Crash
  <2>5. CASE SaveStore
    BY <1>1, <2>5 DEF SaveStore
  <2> QED
    BY <1>1, <2>2, <2>4, <2>5 DEF Next, BeginLookup, BeginStore, BeginLogout, Begin, StoreKeyring,
       StoreFile, StoreEnv, Select, Forget, SaveForgotten, Remove
<1>2. IInv /\ [Next]_vars => [cmd.op = "lookup" /\ cmd.forced # None => UNCHANGED disk]_vars
  BY <1>1
<1> QED
  BY <1>2, Inductive, PTL DEF Spec, OverrideNotRemembered
=============================================================================
