----------------------------- MODULE ApiAccess -----------------------------
(***************************************************************************)
(* The public API's gate: requireApiKey (src/lib/api/auth.ts) and the      *)
(* fixed-window counter of src/lib/api/rate-limit.ts, kept in Redis by an  *)
(* INCR and, for the first request of a window, a PEXPIRE as a second      *)
(* command.  A request may be cut off, or Redis may fail, in between.      *)
(***************************************************************************)
EXTENDS Environment, FiniteSets

CONSTANTS
  ApiKeys,      \* API keys
  KeyExpires,   \* expiresAt of each key
  Requests,     \* requests
  RequestKey,   \* the key a request bears
  InScope,      \* the requests whose route the key's scopes allow
  ApiLimit,     \* requests per window
  ApiWindow     \* length of a window

ASSUME ApiAssumption ==
  /\ ApiLimit \in Nat \ {0} /\ ApiWindow \in Nat \ {0}
  /\ RequestKey \in [Requests -> ApiKeys]
  /\ InScope \subseteq Requests

VARIABLES
  revoked,    \* ApiKey.revoked
  ownerOn,    \* the owners' User.active
  counters,   \* Redis: counter of each key and window
  requests,   \* the requests
  endless     \* history: counters whose first request did not reach PEXPIRE

apiVars == <<revoked, ownerOn, counters, requests, endless>>

Buckets == 0 .. MaxClock \div ApiWindow
NoEnd == MaxClock + ApiWindow + 1000
NoCounter == [n |-> 0, dies |-> NoEnd]
Arriving == [st |-> "arriving"]
Key(r) == RequestKey[r]

ApiInit ==
  /\ revoked = {}
  /\ ownerOn = TRUE
  /\ counters = [k \in ApiKeys |-> [b \in Buckets |-> NoCounter]]
  /\ requests = [r \in Requests |-> Arriving]
  /\ endless = {}
-----------------------------------------------------------------------------
Bucket(t) == t \div ApiWindow

\* The start of the next window.  (ResetOnBoundary lacks the millisecond that
\* makes it so when a request comes exactly at a window's start.)
CeilDiv(t) == (t + ApiWindow - 1) \div ApiWindow
ResetOnBoundary(t) == CeilDiv(t) * ApiWindow
ResetAt(t) == CeilDiv(t + 1) * ApiWindow

Ttl1(t) == IF ResetAt(t) - t > 1 THEN ResetAt(t) - t ELSE 1

\* Revoked, expired, the owner deactivated, or no such scope: 401 and 403.
Admitted(r) ==
  /\ Key(r) \notin revoked
  /\ clock <= KeyExpires[Key(r)]
  /\ ownerOn
  /\ r \in InScope

\* The key is looked up; the limiter reads the clock.
Authenticate(r) ==
  /\ requests[r] = Arriving
  /\ requests' = [requests EXCEPT ![r] =
       IF Admitted(r) THEN [st |-> "incr", at |-> clock] ELSE [st |-> "refused"]]
  /\ Calm
  /\ UNCHANGED <<revoked, ownerOn, counters, endless>>

Verdict(r, n) == IF n <= ApiLimit THEN "granted" ELSE "limited"

\* The first request of a window sets its end.  (FirstFromZero expects INCR
\* to return the count before it.)
FirstFromZero(n) == n = 0
First(n) == n = 1

\* INCR.
Incr(r) ==
  /\ requests[r].st = "incr"
  /\ LET b == Bucket(requests[r].at)
         n == counters[Key(r)][b].n + 1
     IN  /\ counters' = [counters EXCEPT ![Key(r)][b].n = n]
         /\ requests' = [requests EXCEPT ![r].st =
              IF First(n) THEN "pexpire" ELSE Verdict(r, n)]
  /\ Calm
  /\ UNCHANGED <<revoked, ownerOn, endless>>

\* PEXPIRE: without effect when the counter is gone.
PExpire(r) ==
  /\ requests[r].st = "pexpire"
  /\ LET b == Bucket(requests[r].at)
     IN  counters' = IF counters[Key(r)][b] = NoCounter THEN counters
           ELSE [counters EXCEPT ![Key(r)][b].dies = clock + Ttl1(requests[r].at)]
  /\ requests' = [requests EXCEPT ![r].st = Verdict(r, 1)]
  /\ Calm
  /\ UNCHANGED <<revoked, ownerOn, endless>>

\* Redis fails, before or after the command took effect: the request is
\* served without a count.
RedisFails(r) ==
  /\ requests[r].st \in {"incr", "pexpire"}
  /\ requests' = [requests EXCEPT ![r].st = "unmetered"]
  /\ endless' = IF requests[r].st = "pexpire"
                THEN endless \cup {<<Key(r), Bucket(requests[r].at)>>} ELSE endless
  /\ Upset
  /\ UNCHANGED <<revoked, ownerOn, counters>>

\* The process dies.
RequestDies(r) ==
  /\ requests[r].st \in {"incr", "pexpire"}
  /\ requests' = [requests EXCEPT ![r].st = "lost"]
  /\ endless' = IF requests[r].st = "pexpire"
                THEN endless \cup {<<Key(r), Bucket(requests[r].at)>>} ELSE endless
  /\ Upset
  /\ UNCHANGED <<revoked, ownerOn, counters>>

\* revokeApiKey.
RevokeKey(k) ==
  /\ k \notin revoked
  /\ revoked' = revoked \cup {k}
  /\ Upset
  /\ UNCHANGED <<ownerOn, counters, requests, endless>>

DeactivateOwner ==
  /\ ownerOn
  /\ ownerOn' = FALSE
  /\ Upset
  /\ UNCHANGED <<revoked, counters, requests, endless>>

\* Redis drops what has expired as the clock moves on.
ApiPass ==
  /\ Pass
  /\ counters' = [k \in ApiKeys |-> [b \in Buckets |->
       IF counters[k][b].dies <= clock + 1 THEN NoCounter ELSE counters[k][b]]]
  /\ UNCHANGED <<revoked, ownerOn, requests, endless>>

ApiNext ==
  \/ \E r \in Requests :
       Authenticate(r) \/ Incr(r) \/ PExpire(r) \/ RedisFails(r) \/ RequestDies(r)
  \/ \E k \in ApiKeys : RevokeKey(k)
  \/ DeactivateOwner
-----------------------------------------------------------------------------
Of(k, b, S) ==
  {r \in Requests : requests[r].st \in S /\ Key(r) = k /\ Bucket(requests[r].at) = b}

\* No open window grants a key more than its limit, and none has to count
\* less than it granted: whatever delays and failures there are between the
\* reading of the clock, INCR and PEXPIRE, a counter outlives its window.
WindowHeld ==
  \A k \in ApiKeys, b \in Buckets : b = Bucket(clock) =>
    /\ Cardinality(Of(k, b, {"granted"})) <= ApiLimit
    /\ Cardinality(Of(k, b, {"granted", "limited"})) <= counters[k][b].n

\* A counter stays in Redis for ever only if the request that created it was
\* cut off before its PEXPIRE.
CountersEnd ==
  \A k \in ApiKeys, b \in Buckets :
    counters[k][b] # NoCounter /\ counters[k][b].dies = NoEnd =>
      <<k, b>> \in endless \/ Of(k, b, {"pexpire"}) # {}
=============================================================================
