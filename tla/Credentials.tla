---------------------------- MODULE Credentials ----------------------------
(***************************************************************************)
(* Provider credentials: the stored row of one provider, the decrypted     *)
(* cache of each process (src/lib/enrichment/secrets.ts), the settings     *)
(* actions that write the row, and the lookups that rotate over the keys   *)
(* the cache holds (providers/abuseipdb.ts).  The application loads its    *)
(* cache on pages and actions, the worker when it starts and on an         *)
(* interval; loads are not kept apart.                                     *)
(***************************************************************************)
EXTENDS Environment, FiniteSets

CONSTANTS
  Secrets,     \* what an admin may store
  Unreadable,  \* a stored payload that does not decrypt any more
  NoSecret,    \* no row, no cache entry
  KeysIn,      \* how many keys the comma list of a secret holds
  EnvKeys,     \* how many keys the environment gives
  Loads,       \* settings actions and loads, each in a process:
  LoadIn,
  Application, \* the process the settings actions run in; the others load
  Lookups,     \* AbuseIPDB lookups, each in a process:
  LookupIn,
  MaxTurns     \* bound: keys taken by a process

Procs == {LoadIn[l] : l \in Loads} \cup {LookupIn[k] : k \in Lookups}

ASSUME CredentialAssumption ==
  /\ KeysIn \in [Secrets -> Nat] /\ EnvKeys \in Nat /\ MaxTurns \in Nat
  /\ Unreadable \notin Secrets /\ NoSecret \notin Secrets \cup {Unreadable}

VARIABLES
  stored,   \* the ProviderCredential row
  caches,   \* each process's cache
  loads,    \* the actions and loads in progress
  fresh,    \* history: processes that loaded the stored row, with no load of
            \* an older reading beside
  turn,     \* nextKeyIndex of each process
  lookups,  \* the lookups
  picks     \* history: how often each key was taken since the count changed

credentialVars == <<stored, caches, loads, fresh, turn, lookups, picks>>

Idle == [st |-> "idle"]

CredentialInit ==
  /\ stored \in {NoSecret, Unreadable}
  /\ caches = [p \in Procs |-> NoSecret]
  /\ loads = [l \in Loads |-> Idle]
  /\ fresh = {}
  /\ turn = [p \in Procs |-> 0]
  /\ lookups = [k \in Lookups |-> Idle]
  /\ picks = [p \in Procs |-> <<>>]
-----------------------------------------------------------------------------
(* The settings actions and the loads.                                     *)

\* The row changed: no earlier reading is the stored row any more.
Aged == [l \in Loads |-> IF loads[l].st = "hold" THEN [loads[l] EXCEPT !.now = FALSE]
                         ELSE loads[l]]
Changed(l, to) ==
  /\ stored' = to
  /\ loads' = [Aged EXCEPT ![l] = [st |-> "load"]]
  /\ fresh' = {}

\* setProviderCredential: findUnique, ...
FindCredential(l, v) ==
  /\ loads[l] = Idle /\ LoadIn[l] = Application
  /\ loads' = [loads EXCEPT ![l] = [st |-> "write", secret |-> v, exists |-> stored # NoSecret]]
  /\ Upset
  /\ UNCHANGED <<stored, caches, fresh, turn, lookups, picks>>

\* ... then update or create; either is rejected when another action created
\* or deleted the row meanwhile.
WriteCredential(l) ==
  /\ loads[l].st = "write"
  /\ IF loads[l].exists = (stored # NoSecret)
     THEN Changed(l, loads[l].secret)
     ELSE loads' = [loads EXCEPT ![l] = Idle] /\ UNCHANGED <<stored, fresh>>
  /\ Calm
  /\ UNCHANGED <<caches, turn, lookups, picks>>

\* clearProviderCredential: a missing row is an error.
ClearCredential(l) ==
  /\ loads[l] = Idle /\ LoadIn[l] = Application /\ stored # NoSecret
  /\ Changed(l, NoSecret)
  /\ Upset
  /\ UNCHANGED <<caches, turn, lookups, picks>>

Beside(l) == {o \in Loads \ {l} : loads[o].st = "hold" /\ LoadIn[o] = LoadIn[l]}

\* loadCredentialCache: findMany, by an action that has written or on its own;
\* ...
ReadCredentials(l) ==
  /\ loads[l].st \in {"idle", "load"}
  /\ loads' = [loads EXCEPT ![l] =
       [st |-> "hold", seen |-> stored, now |-> TRUE,
        alone |-> \A o \in Beside(l) : loads[o].now]]
  /\ Calm
  /\ UNCHANGED <<stored, caches, fresh, turn, lookups, picks>>

\* ... then a fresh map without what does not decrypt replaces the cache.
\* (KeepingOld adds to the map that was there.)
KeepingOld(l) ==
  IF loads[l].seen \in Secrets THEN loads[l].seen ELSE caches[LoadIn[l]]
Decrypted(l) == IF loads[l].seen \in Secrets THEN loads[l].seen ELSE NoSecret

StoreCache(l) ==
  /\ loads[l].st = "hold"
  /\ caches' = [caches EXCEPT ![LoadIn[l]] = Decrypted(l)]
  /\ fresh' = IF loads[l].now /\ loads[l].alone THEN fresh \cup {LoadIn[l]} ELSE fresh
  /\ loads' = [loads EXCEPT ![l] = Idle]
  /\ Calm
  /\ UNCHANGED <<stored, turn, lookups, picks>>

\* A statement fails: the worker logs it, an action reports it.
LoadFails(l) ==
  /\ loads[l] # Idle
  /\ loads' = [loads EXCEPT ![l] = Idle]
  /\ Upset
  /\ UNCHANGED <<stored, caches, fresh, turn, lookups, picks>>
\* A process dies with its cache, its index and what it was doing; it comes
\* up with a load (main, the pages that show or use a credential).
ProcessDies(p) ==
  /\ Upset
  /\ caches' = [caches EXCEPT ![p] = NoSecret]
  /\ loads' = [l \in Loads |-> IF LoadIn[l] = p THEN Idle ELSE loads[l]]
  /\ fresh' = fresh \ {p}
  /\ turn' = [turn EXCEPT ![p] = 0]
  /\ lookups' = [k \in Lookups |-> IF LookupIn[k] = p THEN Idle ELSE lookups[k]]
  /\ picks' = [picks EXCEPT ![p] = <<>>]
  /\ UNCHANGED stored
-----------------------------------------------------------------------------
(* abuseIpDbProvider.lookup.                                               *)

\* getSecretList: the cached value, else the environment's.
KeyCount(p) == IF caches[p] = NoSecret THEN EnvKeys ELSE KeysIn[caches[p]]

\* The key of the attempt; the index moves on whatever the answer will be.
\* (OnlyOnce moves it on for the first attempt only.)
OnlyOnce(k, n, tried) == IF tried = {} THEN turn[LookupIn[k]] + 1 ELSE turn[LookupIn[k]]
Advanced(k, n, tried) == turn[LookupIn[k]] + 1

Counted(p, key, n) ==
  [i \in 0 .. n - 1 |->
     (IF DOMAIN picks[p] = 0 .. n - 1 THEN picks[p][i] ELSE 0)
       + IF i = key THEN 1 ELSE 0]

TakeKey(k, n, left, tried, alone) ==
  LET p == LookupIn[k]
      key == turn[p] % n
  IN  /\ turn[p] < MaxTurns
      /\ turn' = [turn EXCEPT ![p] = Advanced(k, n, tried)]
      /\ picks' = [picks EXCEPT ![p] = Counted(p, key, n)]
      /\ lookups' = [o \in Lookups |->
           IF o = k THEN [st |-> "asked", n |-> n, left |-> left - 1,
                          tried |-> tried \cup {key}, alone |-> alone]
           ELSE IF lookups[o].st = "asked" /\ LookupIn[o] = p
                THEN [lookups[o] EXCEPT !.alone = FALSE]
                ELSE lookups[o]]

Alone(k) == \A o \in Lookups \ {k} : lookups[o].st = "asked" => LookupIn[o] # LookupIn[k]

\* Without a key the lookup throws.
StartLookup(k) ==
  /\ lookups[k].st \in {"idle", "exhausted"}
  /\ KeyCount(LookupIn[k]) > 0
  /\ LET n == KeyCount(LookupIn[k]) IN TakeKey(k, n, n, {}, Alone(k))
  /\ Calm
  /\ UNCHANGED <<stored, caches, loads, fresh>>

\* 429: the next key, while attempts are left; then "on all keys".
KeySpent(k) ==
  /\ lookups[k].st = "asked"
  /\ IF lookups[k].left > 0
     THEN TakeKey(k, lookups[k].n, lookups[k].left, lookups[k].tried, lookups[k].alone)
     ELSE /\ lookups' = [lookups EXCEPT ![k].st = "exhausted"]
          /\ UNCHANGED <<turn, picks>>
  /\ Calm
  /\ UNCHANGED <<stored, caches, loads, fresh>>

\* A result, or an error that is no 429.
KeyAnswers(k) ==
  /\ lookups[k].st = "asked"
  /\ lookups' = [lookups EXCEPT ![k] = Idle]
  /\ Calm
  /\ UNCHANGED <<stored, caches, loads, fresh, turn, picks>>

LoadStep(l) == ReadCredentials(l) \/ StoreCache(l)

CredentialNext ==
  \/ \E l \in Loads :
       \/ \E v \in Secrets : FindCredential(l, v)
       \/ WriteCredential(l)
       \/ ClearCredential(l)
       \/ LoadStep(l)
       \/ LoadFails(l)
  \/ \E p \in Procs : ProcessDies(p)
  \/ \E k \in Lookups : StartLookup(k) \/ KeySpent(k) \/ KeyAnswers(k)
-----------------------------------------------------------------------------
View == IF stored \in Secrets THEN stored ELSE NoSecret

\* Once a process has loaded the stored row, its cache is what the row
\* decrypts to until the row changes again, unless a load that had read an
\* older row was under way beside it.
FreshCache == \A p \in fresh : caches[p] = View

\* After the last change of the row the cache of a process that loads at
\* intervals (the worker) becomes what the row says, and stays so.
CachesConverge ==
  <>[](\A l \in Loads : LoadIn[l] # Application => caches[LoadIn[l]] = View)

\* "Exhausted on all keys" is said only after every key was tried, when no
\* other lookup of the process was using the same index.
AllKeysTried ==
  \A k \in Lookups : lookups[k].st = "exhausted" /\ lookups[k].alone =>
    lookups[k].tried = 0 .. lookups[k].n - 1

\* "Load spreads evenly": however lookups overlap, fail or give up, two keys
\* of an unchanged list are taken equally often, up to one.
LoadSpreads ==
  \A p \in Procs : \A i, j \in DOMAIN picks[p] : picks[p][i] <= picks[p][j] + 1

\* Rotation over the keys of a provider: none is skipped, none is favoured.
KeysRotate == AllKeysTried /\ LoadSpreads
=============================================================================
