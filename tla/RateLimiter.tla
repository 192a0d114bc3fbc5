----------------------------- MODULE RateLimiter -----------------------------
(***************************************************************************)
(* The per-provider quota limiter of src/lib/enrichment/limiter.ts.        *)
(*                                                                         *)
(* A caller of consumeToken reads its clock, derives the two Redis keys    *)
(* (minute bucket, UTC day bucket) and their time to live from that        *)
(* reading, and sends one Lua script.  The script runs atomically, but     *)
(* later than the reading: the window the keys name may have ended by      *)
(* then.  A window is named here by the instant it ends, which identifies  *)
(* it exactly as the bucket number or the ISO date in the key does.        *)
(***************************************************************************)
EXTENDS Integers, FiniteSets

CONSTANTS
  Providers,  \* limiter keys: EnrichmentProvider.name
  Callers,    \* concurrent consumeToken calls (worker slots, lookup requests)
  MinuteLen,  \* ticks in the code's 60_000 ms
  DayLen,     \* ticks in a UTC day, a multiple of MinuteLen
  Quotas,     \* the quotas each provider's getter may return; 0 is "no limit"
  MaxLag,     \* bound: ticks between a caller's clock reading and its script
  MaxTime     \* bound: the model's clock stops here

Windows == {"minute", "day"}

ASSUME LenAssumption ==
  /\ MinuteLen \in Nat \ {0}
  /\ DayLen \in Nat \ {0}
  /\ MinuteLen <= DayLen
ASSUME BoundAssumption == MaxLag \in Nat /\ MaxTime \in Nat
ASSUME CallersAssumption == IsFiniteSet(Callers)
ASSUME QuotasAssumption ==
  \A p \in Providers : Quotas[p] \subseteq [Windows -> Nat]

VARIABLES
  now,      \* the clock every process reads
  quota,    \* what provider.quota returns at this moment (keys come and go)
  used,     \* Redis: the counter under a key; 0 when the key is absent
  expires,  \* Redis: the instant the key expires (0 when it is absent)
  calls,    \* the consumeToken calls in progress
  spent     \* history: tokens ever granted under a key

vars == <<now, quota, used, expires, calls, spent>>

WindowLen(w) == IF w = "minute" THEN MinuteLen ELSE DayLen

Ends == 1 .. (MaxTime + DayLen)
Keys == Providers \X Windows \X Ends

\* What is left of the minute; the milliseconds until the next UTC midnight.
\* (TtlOfOtherWindow and TtlInverted are the slips the runs must notice.)
TtlInverted(w, t) == (t % WindowLen(w)) - WindowLen(w)
TtlOfOtherWindow(w, t) ==
  LET n == IF w = "day" THEN MinuteLen ELSE DayLen IN n - (t % n)
Ttl(w, t) == WindowLen(w) - (t % WindowLen(w))

WindowEnd(w, t) == t + (WindowLen(w) - (t % WindowLen(w)))

\* The key of window w that a call on provider p derives from reading t.
Key(p, w, t) == <<p, w, WindowEnd(w, t)>>
EndOf(k) == k[3]

Idle == [st |-> "idle"]
Sent(p, t, q) == [st |-> "sent", prov |-> p, at |-> t, lim |-> q]
Granted(p) == [st |-> "granted", prov |-> p]
Refused(p, w, t, u) ==
  [st |-> "refused", prov |-> p, win |-> w, at |-> t, until |-> u]

QuotaOf(p) == Quotas[p]
AnyQuota == UNION {QuotaOf(p) : p \in Providers}
CallState ==
  {Idle}
  \cup [st : {"sent"}, prov : Providers, at : 0 .. MaxTime, lim : [Windows -> Nat]]
  \cup [st : {"granted"}, prov : Providers]
  \cup [st : {"refused"}, prov : Providers, win : Windows, at : 0 .. MaxTime,
        until : Nat]

TypeOK ==
  /\ now \in 0 .. MaxTime
  /\ quota \in [Providers -> AnyQuota]
  /\ \A p \in Providers : quota[p] \in QuotaOf(p)
  /\ used \in [Keys -> Nat]
  /\ expires \in [Keys -> Nat]
  /\ calls \in [Callers -> CallState]
  /\ \A c \in Callers :
       calls[c].st = "sent" => calls[c].lim \in QuotaOf(calls[c].prov)
  /\ spent \in [Keys -> Nat]

Init ==
  /\ now = 0
  /\ quota \in [Providers -> AnyQuota]
  /\ \A p \in Providers : quota[p] \in QuotaOf(p)
  /\ used = [k \in Keys |-> 0]
  /\ expires = [k \in Keys |-> 0]
  /\ calls = [c \in Callers |-> Idle]
  /\ spent = [k \in Keys |-> 0]
-----------------------------------------------------------------------------
(* The clock and the environment.                                          *)

\* Time passes; Redis drops the keys whose time to live ran out.
Tick ==
  /\ now < MaxTime
  /\ \A c \in Callers : calls[c].st = "sent" => now - calls[c].at < MaxLag
  /\ now' = now + 1
  /\ used' = [k \in Keys |-> IF expires[k] <= now + 1 THEN 0 ELSE used[k]]
  /\ expires' = [k \in Keys |-> IF expires[k] <= now + 1 THEN 0 ELSE expires[k]]
  /\ UNCHANGED <<quota, calls, spent>>

\* A credential is added or removed: the quota getter answers differently.
ChangeQuota(p) ==
  /\ \E q \in QuotaOf(p) : q # quota[p] /\ quota' = [quota EXCEPT ![p] = q]
  /\ UNCHANGED <<now, used, expires, calls, spent>>
-----------------------------------------------------------------------------
(* consumeToken.                                                           *)

Unlimited(q) == \A w \in Windows : q[w] = 0

\* The early return: no configured quota means no limiting.
GrantUnlimited(c, p) ==
  /\ calls[c] = Idle
  /\ Unlimited(quota[p])
  /\ calls' = [calls EXCEPT ![c] = Granted(p)]
  /\ UNCHANGED <<now, quota, used, expires, spent>>

\* Reads the clock and the quota, derives keys and ttls, sends the script.
Send(c, p) ==
  /\ calls[c] = Idle
  /\ ~Unlimited(quota[p])
  /\ calls' = [calls EXCEPT ![c] = Sent(p, now, quota[p])]
  /\ UNCHANGED <<now, quota, used, expires, spent>>

KeyOf(c, w) == Key(calls[c].prov, w, calls[c].at)

FullOffByOne(c, w) ==
  calls[c].lim[w] > 0 /\ used[KeyOf(c, w)] > calls[c].lim[w]
Full(c, w) ==
  calls[c].lim[w] > 0 /\ used[KeyOf(c, w)] >= calls[c].lim[w]

\* The day window is examined first, then the minute.
BlockedBy(c, w) ==
  \/ w = "day" /\ Full(c, "day")
  \/ w = "minute" /\ ~Full(c, "day") /\ Full(c, "minute")

\* The script returns {code, PTTL}: the caller may come back at `until`.
Refuse(c) ==
  /\ calls[c].st = "sent"
  /\ \E w \in Windows :
       /\ BlockedBy(c, w)
       /\ calls' = [calls EXCEPT ![c] =
            Refused(calls[c].prov, w, calls[c].at, expires[KeyOf(c, w)])]
  /\ UNCHANGED <<now, quota, used, expires, spent>>

Charged(c) == {KeyOf(c, w) : w \in {v \in Windows : calls[c].lim[v] > 0}}

\* INCR both counters; the first increment sets the key's time to live.
ExpiryAfter(c) ==
  [k \in Keys |-> IF k \in Charged(c) /\ used[k] = 0
                    THEN now + Ttl(k[2], calls[c].at) ELSE expires[k]]

Consume(c) ==
  /\ calls[c].st = "sent"
  /\ \A w \in Windows : ~Full(c, w)
  /\ used' = [k \in Keys |-> IF k \in Charged(c) THEN used[k] + 1 ELSE used[k]]
  /\ expires' = ExpiryAfter(c)
  /\ spent' = [k \in Keys |-> IF k \in Charged(c) THEN spent[k] + 1 ELSE spent[k]]
  /\ calls' = [calls EXCEPT ![c] = Granted(calls[c].prov)]
  /\ UNCHANGED <<now, quota>>

\* The caller takes its answer; or its process dies before or after the
\* script ran, and a token it was granted is simply gone.
Return(c) ==
  /\ calls[c].st # "idle"
  /\ calls' = [calls EXCEPT ![c] = Idle]
  /\ UNCHANGED <<now, quota, used, expires, spent>>
-----------------------------------------------------------------------------
Next ==
  \/ Tick
  \/ \E p \in Providers : ChangeQuota(p)
  \/ \E c \in Callers :
       \/ \E p \in Providers : GrantUnlimited(c, p) \/ Send(c, p)
       \/ Refuse(c)
       \/ Consume(c)
       \/ Return(c)

Spec == Init /\ [][Next]_vars
-----------------------------------------------------------------------------
(* Properties.                                                             *)

\* While a window is open, the tokens granted in it stay within a quota the
\* provider was configured with, however the callers' clock readings and
\* scripts interleave ("two workers cannot both see 1 token left and both
\* spend it").
QuotaRespected ==
  \A k \in Keys : now < EndOf(k) /\ spent[k] > 0 =>
    \E q \in QuotaOf(k[1]) : spent[k] <= q[k[2]]

\* Scripts that arrive after their window ended find the counter expired and
\* start a fresh one; what that can cost the old window is at most one token
\* per call in flight.
OvershootBounded ==
  \A k \in Keys : spent[k] > 0 =>
    \E q \in QuotaOf(k[1]) : spent[k] <= q[k[2]] + Cardinality(Callers)

\* "A refusal reports when a token frees up": the instant it reports is never
\* inside the exhausted window, and at most the lag of one call past its end.
RetryAtReset ==
  \A c \in Callers : calls[c].st = "refused" =>
    LET end == WindowEnd(calls[c].win, calls[c].at)
    IN  end <= calls[c].until /\ calls[c].until <= end + MaxLag

\* "Atomically checks both windows and consumes one token from each only if
\* both have room": to everybody else the limiter is one that reads no clock
\* early and forgets no counter - a token is taken at once, from windows of
\* one provider that have room if they are still open.
LimitsOf(k) == {q[k[2]] : q \in QuotaOf(k[1])}
Tokens == INSTANCE TokenWindow WITH
  Slots <- Keys,
  Limits <- LimitsOf,
  time <- now,
  granted <- spent
GrantsTokens == Tokens!WindowSpec
=============================================================================
