-------------------------- MODULE RateLimiterProofs --------------------------
(***************************************************************************)
(* What the limiter guarantees for every set of providers and callers,     *)
(* every quota, every window length and every bound.  The argument:        *)
(*   - a live counter outlives its window (LiveCounter), because its time  *)
(*     to live is measured from the script, which runs after the clock     *)
(*     reading the window's end was computed from;                         *)
(*   - so inside its window the counter has never been dropped and equals  *)
(*     the tokens granted (CountExact), and no counter passes a quota      *)
(*     (CountBounded);                                                     *)
(*   - after the window only calls already in flight can still charge it,  *)
(*     each at most once (LateCharges).                                    *)
(***************************************************************************)
EXTENDS RateLimiter, FiniteSetTheorems, TLAPS

\* No call is older than the lag, nor sent in the future.
CallsTimely ==
  \A c \in Callers : calls[c].st = "sent" =>
    calls[c].at <= now /\ now - calls[c].at <= MaxLag

LiveCounter ==
  \A k \in Keys : used[k] > 0 =>
    EndOf(k) <= expires[k] /\ expires[k] <= EndOf(k) + MaxLag

CountExact == \A k \in Keys : now < EndOf(k) => spent[k] = used[k]

CountBounded ==
  \A k \in Keys : used[k] > 0 => \E q \in QuotaOf(k[1]) : used[k] <= q[k[2]]

\* The calls that may still charge key k.
InFlight(k) == {c \in Callers : calls[c].st = "sent" /\ k \in Charged(c)}

LateCharges ==
  \A k \in Keys : EndOf(k) <= now =>
    \E q \in QuotaOf(k[1]) :
      spent[k] + Cardinality(InFlight(k)) <= q[k[2]] + Cardinality(Callers)

IInv == /\ TypeOK
        /\ CallsTimely
        /\ LiveCounter
        /\ CountExact
        /\ CountBounded
        /\ LateCharges
        /\ RetryAtReset

-----------------------------------------------------------------------------
\* The remainder of a window that is left is between one tick and all of it.
LEMMA WindowArithmetic ==
  ASSUME NEW w \in Windows, NEW t \in Nat
  PROVE  /\ WindowLen(w) \in Nat \ {0}
         /\ t % WindowLen(w) \in 0 .. (WindowLen(w) - 1)
         /\ Ttl(w, t) \in 1 .. DayLen
         /\ WindowEnd(w, t) = t + Ttl(w, t)
<1>1. WindowLen(w) \in Nat \ {0} /\ WindowLen(w) <= DayLen
  BY LenAssumption DEF WindowLen, Windows
<1>2. t % WindowLen(w) \in 0 .. (WindowLen(w) - 1)
  BY <1>1
<1>3. Ttl(w, t) = WindowLen(w) - (t % WindowLen(w))
  BY DEF Ttl
<1>4. Ttl(w, t) \in 1 .. DayLen
  BY <1>1, <1>2, <1>3, LenAssumption
<1>5. WindowEnd(w, t) = t + Ttl(w, t)
  BY <1>3 DEF WindowEnd
<1>. QED
  BY <1>1, <1>2, <1>4, <1>5

\* The key a call derives names a window that is open at its clock reading.
LEMMA KeyIsOpen ==
  ASSUME NEW p \in Providers, NEW w \in Windows, NEW t \in 0 .. MaxTime
  PROVE  /\ Key(p, w, t) \in Keys
         /\ Key(p, w, t)[1] = p /\ Key(p, w, t)[2] = w
         /\ EndOf(Key(p, w, t)) = t + Ttl(w, t)
         /\ t < EndOf(Key(p, w, t))
<1>1. t \in Nat
  BY BoundAssumption
<1>2. WindowEnd(w, t) = t + Ttl(w, t) /\ Ttl(w, t) \in 1 .. DayLen
  BY <1>1, WindowArithmetic
<1>3. WindowEnd(w, t) \in Ends
  BY <1>1, <1>2, BoundAssumption, LenAssumption DEF Ends
<1>. QED
  BY <1>1, <1>2, <1>3, LenAssumption DEF Key, EndOf, Keys

\* A sent call charges one key per limited window, all of them real keys.
LEMMA SentCall ==
  ASSUME TypeOK, NEW c \in Callers, calls[c].st = "sent"
  PROVE  /\ calls[c].prov \in Providers
         /\ calls[c].at \in 0 .. MaxTime
         /\ calls[c].lim \in [Windows -> Nat]
         /\ calls[c].lim \in QuotaOf(calls[c].prov)
         /\ \A w \in Windows : KeyOf(c, w) \in Keys
         /\ \A k \in Charged(c) : /\ k \in Keys
                                 /\ k = KeyOf(c, k[2])
                                 /\ k[1] = calls[c].prov
                                 /\ calls[c].lim[k[2]] > 0
                                 /\ EndOf(k) = calls[c].at + Ttl(k[2], calls[c].at)
                                 /\ Ttl(k[2], calls[c].at) \in 1 .. DayLen
<1>1. calls[c] \in [st : {"sent"}, prov : Providers, at : 0 .. MaxTime,
                    lim : [Windows -> Nat]]
  BY DEF TypeOK, CallState, Idle
<1>2. calls[c].lim \in QuotaOf(calls[c].prov)
  BY DEF TypeOK
<1>3. \A w \in Windows : /\ KeyOf(c, w) \in Keys
                         /\ KeyOf(c, w)[1] = calls[c].prov
                         /\ KeyOf(c, w)[2] = w
                         /\ EndOf(KeyOf(c, w)) = calls[c].at + Ttl(w, calls[c].at)
  BY <1>1, KeyIsOpen DEF KeyOf
<1>4. \A w \in Windows : Ttl(w, calls[c].at) \in 1 .. DayLen
  BY <1>1, WindowArithmetic, BoundAssumption
<1>5. ASSUME NEW k \in Charged(c)
      PROVE  /\ k \in Keys
             /\ k = KeyOf(c, k[2])
             /\ k[1] = calls[c].prov
             /\ calls[c].lim[k[2]] > 0
             /\ EndOf(k) = calls[c].at + Ttl(k[2], calls[c].at)
             /\ Ttl(k[2], calls[c].at) \in 1 .. DayLen
  <2>1. PICK w \in Windows : calls[c].lim[w] > 0 /\ k = KeyOf(c, w)
    BY DEF Charged
  <2>. QED
    BY <2>1, <1>3, <1>4
<1>. QED
  BY <1>1, <1>2, <1>3, <1>5

\* The calls in flight for a key are a finite set, no larger than Callers.
LEMMA InFlightFinite ==
  ASSUME NEW k
  PROVE  /\ IsFiniteSet(InFlight(k))
         /\ Cardinality(InFlight(k)) \in Nat
         /\ Cardinality(Callers) \in Nat
         /\ Cardinality(InFlight(k)) <= Cardinality(Callers)
<1>1. InFlight(k) \subseteq Callers
  BY DEF InFlight
<1>. QED
  BY <1>1, CallersAssumption, FS_Subset, FS_CardinalityType

THEOREM InitInv == Init => IInv
<1>. SUFFICES ASSUME Init PROVE IInv
  OBVIOUS
<1>1. TypeOK
  BY QuotasAssumption, BoundAssumption DEF Init, TypeOK, CallState, Idle, AnyQuota, QuotaOf
<1>2. CallsTimely /\ LiveCounter /\ CountExact /\ CountBounded /\ RetryAtReset
  BY DEF Init, CallsTimely, LiveCounter, CountExact, CountBounded, RetryAtReset, Idle
<1>3. \A k \in Keys : EndOf(k) > now
  BY DEF Init, Keys, Ends, EndOf
<1>4. LateCharges
  BY <1>1, <1>3, BoundAssumption, LenAssumption DEF LateCharges, TypeOK, Keys, Ends, EndOf
<1>. QED
  BY <1>1, <1>2, <1>4 DEF IInv

\* Time passing drops expired counters; none of them can be of an open window.
LEMMA TickInv == IInv /\ Tick => IInv'
<1>. SUFFICES ASSUME IInv, Tick PROVE IInv'
  OBVIOUS
<1>. USE DEF IInv
<1>1. /\ now \in Nat /\ now' = now + 1 /\ now' \in 0 .. MaxTime
      /\ used \in [Keys -> Nat] /\ expires \in [Keys -> Nat] /\ spent \in [Keys -> Nat]
      /\ \A k \in Keys : EndOf(k) \in Nat
  BY BoundAssumption, LenAssumption DEF Tick, TypeOK, Keys, Ends, EndOf
<1>2. \A k \in Keys :
        /\ used'[k] = IF expires[k] <= now + 1 THEN 0 ELSE used[k]
        /\ expires'[k] = IF expires[k] <= now + 1 THEN 0 ELSE expires[k]
        /\ spent'[k] = spent[k]
  BY <1>1 DEF Tick
<1>3. TypeOK'
  BY <1>1 DEF Tick, TypeOK
<1>4. CallsTimely'
  <2>. SUFFICES ASSUME NEW c \in Callers, calls[c].st = "sent"
                PROVE  calls[c].at <= now' /\ now' - calls[c].at <= MaxLag
    BY DEF CallsTimely, Tick
  <2>1. calls[c].at \in Nat /\ calls[c].at <= now /\ now - calls[c].at < MaxLag
    BY SentCall, BoundAssumption DEF CallsTimely, Tick
  <2>. QED
    BY <2>1, <1>1, BoundAssumption
<1>5. LiveCounter'
  BY <1>1, <1>2 DEF LiveCounter
<1>6. CountExact'
  BY <1>1, <1>2 DEF CountExact, LiveCounter
<1>7. CountBounded'
  BY <1>1, <1>2 DEF CountBounded, QuotaOf
<1>8. LateCharges'
  <2>. SUFFICES ASSUME NEW k \in Keys, EndOf(k) <= now'
                PROVE  \E q \in QuotaOf(k[1]) :
                         spent[k] + Cardinality(InFlight(k)') <= q[k[2]] + Cardinality(Callers)
    BY DEF LateCharges, Tick
  <2>1. InFlight(k)' = InFlight(k)
    BY DEF InFlight, Tick, Charged, KeyOf
  <2>2. CASE EndOf(k) <= now
    BY <2>1, <2>2 DEF LateCharges
  <2>3. CASE now < EndOf(k)
    <3>1. spent[k] = used[k]
      BY <2>3 DEF CountExact
    <3>2. \A q \in QuotaOf(k[1]) : q[k[2]] \in Nat
      BY QuotasAssumption DEF QuotaOf, Keys
    <3>3. \E q \in QuotaOf(k[1]) : spent[k] <= q[k[2]]
      <4>1. CASE used[k] > 0
        BY <4>1, <3>1 DEF CountBounded
      <4>2. CASE used[k] = 0
        <5>1. k[1] \in Providers
          BY DEF Keys
        <5>2. quota[k[1]] \in QuotaOf(k[1])
          BY <5>1 DEF TypeOK
        <5>. QED
          BY <5>2, <4>2, <3>1, <3>2
      <4>. QED
        BY <4>1, <4>2, <1>1
    <3>. QED
      BY <3>2, <3>3, <2>1, <1>1, InFlightFinite
  <2>. QED
    BY <2>2, <2>3, <1>1
<1>9. RetryAtReset'
  BY DEF RetryAtReset, Tick
<1>. QED
  BY <1>3, <1>4, <1>5, <1>6, <1>7, <1>8, <1>9

\* Steps that touch no counter and put no call in flight.
LEMMA QuietInv ==
  ASSUME IInv, UNCHANGED <<now, used, expires, spent>>, TypeOK', RetryAtReset',
         \A c \in Callers : calls'[c].st = "sent" => calls'[c] = calls[c]
  PROVE  IInv'
<1>. USE DEF IInv
<1>1. CallsTimely'
  BY DEF CallsTimely
<1>2. LiveCounter' /\ CountExact' /\ CountBounded'
  BY DEF LiveCounter, CountExact, CountBounded
<1>3. LateCharges'
  <2>. SUFFICES ASSUME NEW k \in Keys, EndOf(k) <= now
                PROVE  \E q \in QuotaOf(k[1]) :
                         spent[k] + Cardinality(InFlight(k)') <= q[k[2]] + Cardinality(Callers)
    BY DEF LateCharges
  <2>1. InFlight(k)' \subseteq InFlight(k)
    BY DEF InFlight, Charged, KeyOf
  <2>2. /\ Cardinality(InFlight(k)') \in Nat /\ Cardinality(InFlight(k)) \in Nat
        /\ Cardinality(InFlight(k)') <= Cardinality(InFlight(k))
    BY <2>1, InFlightFinite, FS_Subset, FS_CardinalityType
  <2>3. PICK q \in QuotaOf(k[1]) :
          spent[k] + Cardinality(InFlight(k)) <= q[k[2]] + Cardinality(Callers)
    BY DEF LateCharges
  <2>4. q[k[2]] \in Nat /\ spent[k] \in Nat
    BY QuotasAssumption DEF QuotaOf, Keys, TypeOK
  <2>. QED
    BY <2>2, <2>3, <2>4, InFlightFinite
<1>. QED
  BY <1>1, <1>2, <1>3

LEMMA ChangeQuotaInv ==
  ASSUME IInv, NEW p \in Providers, ChangeQuota(p)
  PROVE  IInv'
<1>1. TypeOK'
  BY QuotasAssumption DEF IInv, TypeOK, ChangeQuota, AnyQuota, QuotaOf
<1>2. RetryAtReset'
  BY DEF IInv, RetryAtReset, ChangeQuota
<1>. QED
  BY <1>1, <1>2, QuietInv DEF ChangeQuota

LEMMA GrantUnlimitedInv ==
  ASSUME IInv, NEW c \in Callers, NEW p \in Providers, GrantUnlimited(c, p)
  PROVE  IInv'
<1>1. TypeOK'
  BY DEF IInv, TypeOK, GrantUnlimited, CallState, Granted
<1>2. /\ RetryAtReset'
      /\ \A d \in Callers : calls'[d].st = "sent" => calls'[d] = calls[d]
  BY DEF IInv, TypeOK, RetryAtReset, GrantUnlimited, Granted
<1>. QED
  BY <1>1, <1>2, QuietInv DEF GrantUnlimited

LEMMA ReturnInv ==
  ASSUME IInv, NEW c \in Callers, Return(c)
  PROVE  IInv'
<1>1. TypeOK'
  BY DEF IInv, TypeOK, Return, CallState, Idle
<1>2. /\ RetryAtReset'
      /\ \A d \in Callers : calls'[d].st = "sent" => calls'[d] = calls[d]
  BY DEF IInv, TypeOK, RetryAtReset, Return, Idle
<1>. QED
  BY <1>1, <1>2, QuietInv DEF Return

\* A new call charges only windows that are still open.
LEMMA SendInv ==
  ASSUME IInv, NEW c \in Callers, NEW p \in Providers, Send(c, p)
  PROVE  IInv'
<1>. USE DEF IInv
<1>1. /\ now \in 0 .. MaxTime /\ quota[p] \in [Windows -> Nat]
      /\ quota[p] \in QuotaOf(p)
  BY QuotasAssumption DEF TypeOK, QuotaOf
<1>2. /\ calls' = [calls EXCEPT ![c] = Sent(p, now, quota[p])]
      /\ UNCHANGED <<now, quota, used, expires, spent>>
  BY DEF Send
<1>3. TypeOK'
  BY <1>1, <1>2 DEF TypeOK, CallState, Sent
<1>4. CallsTimely'
  BY <1>1, <1>2, BoundAssumption DEF TypeOK, CallsTimely, Sent
<1>5. LiveCounter' /\ CountExact' /\ CountBounded'
  BY <1>2 DEF LiveCounter, CountExact, CountBounded
<1>6. RetryAtReset'
  BY <1>2 DEF TypeOK, RetryAtReset, Sent
<1>7. LateCharges'
  <2>. SUFFICES ASSUME NEW k \in Keys, EndOf(k) <= now
                PROVE  \E q \in QuotaOf(k[1]) :
                         spent[k] + Cardinality(InFlight(k)') <= q[k[2]] + Cardinality(Callers)
    BY <1>2 DEF LateCharges
  <2>1. ASSUME NEW d \in InFlight(k)' PROVE d \in InFlight(k)
    <3>1. CASE d # c
      BY <3>1, <1>2, <2>1 DEF InFlight, Charged, KeyOf, TypeOK
    <3>2. CASE d = c
      <4>1. calls'[c] = Sent(p, now, quota[p])
        BY <1>2 DEF TypeOK
      <4>2. PICK w \in Windows : k = Key(p, w, now)
        BY <2>1, <3>2, <4>1 DEF InFlight, Charged, KeyOf, Sent
      <4>3. now < EndOf(k)
        BY <4>2, <1>1, KeyIsOpen
      <4>. QED
        BY <4>3, <1>1, BoundAssumption DEF Keys, Ends, EndOf
    <3>. QED
      BY <3>1, <3>2
  <2>2. /\ Cardinality(InFlight(k)') \in Nat /\ Cardinality(InFlight(k)) \in Nat
        /\ Cardinality(InFlight(k)') <= Cardinality(InFlight(k))
    BY <2>1, InFlightFinite, FS_Subset, FS_CardinalityType
  <2>3. PICK q \in QuotaOf(k[1]) :
          spent[k] + Cardinality(InFlight(k)) <= q[k[2]] + Cardinality(Callers)
    BY DEF LateCharges
  <2>4. q[k[2]] \in Nat /\ spent[k] \in Nat
    BY QuotasAssumption DEF QuotaOf, Keys, TypeOK
  <2>. QED
    BY <2>2, <2>3, <2>4, InFlightFinite
<1>. QED
  BY <1>3, <1>4, <1>5, <1>6, <1>7

\* A refusal repeats the expiry of a live counter.
LEMMA RefuseInv ==
  ASSUME IInv, NEW c \in Callers, Refuse(c)
  PROVE  IInv'
<1>. USE DEF IInv
<1>1. PICK w \in Windows :
        /\ BlockedBy(c, w)
        /\ calls' = [calls EXCEPT ![c] =
              Refused(calls[c].prov, w, calls[c].at, expires[KeyOf(c, w)])]
  BY DEF Refuse
<1>2. /\ calls[c].st = "sent" /\ Full(c, w)
      /\ UNCHANGED <<now, quota, used, expires, spent>>
  BY <1>1 DEF Refuse, BlockedBy
<1>3. /\ calls[c].prov \in Providers /\ calls[c].at \in 0 .. MaxTime
      /\ calls[c].lim[w] \in Nat /\ KeyOf(c, w) \in Keys
      /\ EndOf(KeyOf(c, w)) = WindowEnd(w, calls[c].at)
  BY <1>2, SentCall DEF KeyOf, Key, EndOf
<1>4. used[KeyOf(c, w)] > 0
  BY <1>2, <1>3 DEF Full, TypeOK
<1>5. /\ WindowEnd(w, calls[c].at) <= expires[KeyOf(c, w)]
      /\ expires[KeyOf(c, w)] <= WindowEnd(w, calls[c].at) + MaxLag
      /\ expires[KeyOf(c, w)] \in Nat
  BY <1>3, <1>4 DEF LiveCounter, TypeOK
<1>6. TypeOK'
  BY <1>1, <1>2, <1>3, <1>5 DEF TypeOK, CallState, Refused
<1>7. RetryAtReset'
  BY <1>1, <1>2, <1>5 DEF RetryAtReset, TypeOK, Refused
<1>8. \A d \in Callers : calls'[d].st = "sent" => calls'[d] = calls[d]
  BY <1>1 DEF TypeOK, Refused
<1>. QED
  BY <1>2, <1>6, <1>7, <1>8, QuietInv

\* The script charges open windows within the quota, and an ended window
\* only in exchange for a call that was in flight for it.
LEMMA ConsumeInv ==
  ASSUME IInv, NEW c \in Callers, Consume(c)
  PROVE  IInv'
<1>. USE DEF IInv
<1>. DEFINE T(k) == Ttl(k[2], calls[c].at)
<1>1. /\ calls[c].st = "sent"
      /\ \A w \in Windows : ~Full(c, w)
      /\ calls' = [calls EXCEPT ![c] = Granted(calls[c].prov)]
      /\ UNCHANGED <<now, quota>>
  BY DEF Consume
<1>2. /\ \A k \in Charged(c) : /\ k \in Keys /\ k = KeyOf(c, k[2])
                              /\ k[1] = calls[c].prov /\ calls[c].lim[k[2]] > 0
                              /\ EndOf(k) = calls[c].at + T(k)
                              /\ T(k) \in 1 .. DayLen
      /\ calls[c].prov \in Providers /\ calls[c].at \in Nat
      /\ calls[c].lim \in [Windows -> Nat]
      /\ calls[c].lim \in QuotaOf(calls[c].prov)
  BY <1>1, SentCall, BoundAssumption
<1>3. /\ now \in Nat /\ MaxLag \in Nat /\ DayLen \in Nat
      /\ calls[c].at <= now /\ now - calls[c].at <= MaxLag
      /\ used \in [Keys -> Nat] /\ expires \in [Keys -> Nat] /\ spent \in [Keys -> Nat]
      /\ \A k \in Keys : EndOf(k) \in Nat /\ k[1] \in Providers /\ k[2] \in Windows
  BY <1>1, BoundAssumption, LenAssumption DEF TypeOK, CallsTimely, Keys, Ends, EndOf
<1>4. \A k \in Keys :
        /\ used'[k] = IF k \in Charged(c) THEN used[k] + 1 ELSE used[k]
        /\ expires'[k] = IF k \in Charged(c) /\ used[k] = 0 THEN now + T(k) ELSE expires[k]
        /\ spent'[k] = IF k \in Charged(c) THEN spent[k] + 1 ELSE spent[k]
  BY DEF Consume, ExpiryAfter
<1>5. \A k \in Charged(c) : used[k] < calls[c].lim[k[2]]
  BY <1>1, <1>2, <1>3 DEF Full
<1>6. TypeOK'
  <2>1. used' \in [Keys -> Nat] /\ spent' \in [Keys -> Nat]
    BY <1>3 DEF Consume
  <2>2. expires' \in [Keys -> Nat]
    <3>1. expires' = [k \in Keys |-> IF k \in Charged(c) /\ used[k] = 0
                                      THEN now + T(k) ELSE expires[k]]
      BY DEF Consume, ExpiryAfter
    <3>2. \A k \in Keys : (IF k \in Charged(c) /\ used[k] = 0
                             THEN now + T(k) ELSE expires[k]) \in Nat
      BY <1>2, <1>3
    <3>. QED
      BY <3>1, <3>2
  <2>3. /\ calls' \in [Callers -> CallState]
        /\ \A d \in Callers :
             calls'[d].st = "sent" => calls'[d].lim \in QuotaOf(calls'[d].prov)
    BY <1>1, <1>2 DEF TypeOK, CallState, Granted
  <2>. QED
    BY <1>1, <2>1, <2>2, <2>3 DEF TypeOK
<1>7. CallsTimely'
  BY <1>1 DEF CallsTimely, TypeOK, Granted
<1>8. LiveCounter'
  <2>. SUFFICES ASSUME NEW k \in Keys, used'[k] > 0
                PROVE  EndOf(k) <= expires'[k] /\ expires'[k] <= EndOf(k) + MaxLag
    BY DEF LiveCounter
  <2>1. CASE k \in Charged(c) /\ used[k] = 0
    BY <2>1, <1>2, <1>3, <1>4
  <2>2. CASE ~(k \in Charged(c) /\ used[k] = 0)
    BY <2>2, <1>3, <1>4 DEF LiveCounter
  <2>. QED
    BY <2>1, <2>2
<1>9. CountExact'
  BY <1>1, <1>3, <1>4 DEF CountExact
<1>10. CountBounded'
  <2>. SUFFICES ASSUME NEW k \in Keys, used'[k] > 0
                PROVE  \E q \in QuotaOf(k[1]) : used'[k] <= q[k[2]]
    BY DEF CountBounded, QuotaOf
  <2>1. CASE k \in Charged(c)
    BY <2>1, <1>2, <1>3, <1>4, <1>5
  <2>2. CASE k \notin Charged(c)
    BY <2>2, <1>4 DEF CountBounded
  <2>. QED
    BY <2>1, <2>2
<1>11. RetryAtReset'
  BY <1>1 DEF RetryAtReset, TypeOK, Granted
<1>12. LateCharges'
  <2>. SUFFICES ASSUME NEW k \in Keys, EndOf(k) <= now
                PROVE  \E q \in QuotaOf(k[1]) :
                         spent'[k] + Cardinality(InFlight(k)') <= q[k[2]] + Cardinality(Callers)
    BY <1>1 DEF LateCharges, QuotaOf
  <2>1. PICK q \in QuotaOf(k[1]) :
          spent[k] + Cardinality(InFlight(k)) <= q[k[2]] + Cardinality(Callers)
    BY DEF LateCharges
  <2>2. q[k[2]] \in Nat
    BY <1>3, QuotasAssumption DEF QuotaOf
  <2>3. InFlight(k)' = InFlight(k) \ {c}
    <3>1. ASSUME NEW d \in Callers, d # c
          PROVE  d \in InFlight(k)' <=> d \in InFlight(k)
      BY <3>1, <1>1 DEF InFlight, Charged, KeyOf, TypeOK
    <3>2. c \notin InFlight(k)'
      BY <1>1 DEF InFlight, Granted, TypeOK
    <3>3. InFlight(k)' \subseteq Callers /\ InFlight(k) \subseteq Callers
      BY DEF InFlight
    <3>. QED
      BY <3>1, <3>2, <3>3
  <2>4. CASE k \in Charged(c)
    <3>1. c \in InFlight(k)
      BY <2>4, <1>1 DEF InFlight
    <3>2. Cardinality(InFlight(k)') = Cardinality(InFlight(k)) - 1
      BY <3>1, <2>3, InFlightFinite, FS_RemoveElement
    <3>3. spent'[k] = spent[k] + 1
      BY <2>4, <1>4
    <3>. QED
      BY <3>2, <3>3, <2>1, <2>2, <1>3, InFlightFinite
  <2>5. CASE k \notin Charged(c)
    <3>1. InFlight(k)' = InFlight(k)
      BY <2>5, <2>3 DEF InFlight
    <3>. QED
      BY <3>1, <2>5, <2>1, <1>4
  <2>. QED
    BY <2>4, <2>5
<1>. QED
  BY <1>6, <1>7, <1>8, <1>9, <1>10, <1>11, <1>12

LEMMA NextInv == IInv /\ [Next]_vars => IInv'
<1>. SUFFICES ASSUME IInv, [Next]_vars PROVE IInv'
  OBVIOUS
<1>1. CASE Tick
  BY <1>1, TickInv
<1>2. CASE \E p \in Providers : ChangeQuota(p)
  BY <1>2, ChangeQuotaInv
<1>3. ASSUME NEW c \in Callers, NEW p \in Providers,
             GrantUnlimited(c, p) \/ Send(c, p)
      PROVE  IInv'
  BY <1>3, GrantUnlimitedInv, SendInv
<1>4. ASSUME NEW c \in Callers, Refuse(c) \/ Consume(c) \/ Return(c)
      PROVE  IInv'
  BY <1>4, RefuseInv, ConsumeInv, ReturnInv
<1>5. CASE UNCHANGED vars
  <2>1. TypeOK' /\ RetryAtReset'
    BY <1>5 DEF vars, IInv, TypeOK, RetryAtReset
  <2>. QED
    BY <2>1, <1>5, QuietInv DEF vars
<1>. QED
  BY <1>1, <1>2, <1>3, <1>4, <1>5 DEF Next

\* The strengthening is an invariant of every behaviour of the limiter.
THEOREM InductiveInvariant == Spec => []IInv
<1>. QED
  BY InitInv, NextInv, PTL DEF Spec
-----------------------------------------------------------------------------
\* Every variable of the limiter keeps its type; in particular no counter,
\* expiry or retry instant is ever negative.
THEOREM TypeCorrect == Spec => []TypeOK
<1>1. IInv => TypeOK
  BY DEF IInv
<1>. QED
  BY <1>1, InductiveInvariant, PTL

\* In an open window no provider is granted more tokens than a quota it was
\* configured with, for any number of callers, windows and quota changes.
THEOREM QuotaIsRespected == Spec => []QuotaRespected
<1>1. IInv => QuotaRespected
  BY DEF IInv, QuotaRespected, CountExact, CountBounded
<1>. QED
  BY <1>1, InductiveInvariant, PTL

\* Over its whole life a window never costs more than its quota plus one
\* token for each call that can be in flight when it ends.
THEOREM OvershootIsBounded == Spec => []OvershootBounded
<1>1. IInv => OvershootBounded
  <2>. USE DEF IInv
  <2>. SUFFICES ASSUME IInv, NEW k \in Keys, spent[k] > 0
                PROVE  \E q \in QuotaOf(k[1]) :
                         spent[k] <= q[k[2]] + Cardinality(Callers)
    BY DEF OvershootBounded
  <2>1. /\ \A q \in QuotaOf(k[1]) : q[k[2]] \in Nat
        /\ spent[k] \in Nat /\ EndOf(k) \in Nat /\ now \in Nat
    BY QuotasAssumption, BoundAssumption, LenAssumption
       DEF QuotaOf, Keys, Ends, EndOf, TypeOK
  <2>2. CASE now < EndOf(k)
    <3>1. PICK q \in QuotaOf(k[1]) : spent[k] <= q[k[2]]
      BY <2>2 DEF CountExact, CountBounded
    <3>. QED
      BY <3>1, <2>1, InFlightFinite
  <2>3. CASE EndOf(k) <= now
    <3>1. PICK q \in QuotaOf(k[1]) :
            spent[k] + Cardinality(InFlight(k)) <= q[k[2]] + Cardinality(Callers)
      BY <2>3 DEF LateCharges
    <3>. QED
      BY <3>1, <2>1, InFlightFinite
  <2>. QED
    BY <2>1, <2>2, <2>3
<1>. QED
  BY <1>1, InductiveInvariant, PTL

\* A refused caller is told to come back neither inside the window that
\* refused it nor later than one call's lag after that window's end.
THEOREM RetryIsAtReset == Spec => []RetryAtReset
<1>1. IInv => RetryAtReset
  BY DEF IInv
<1>. QED
  BY <1>1, InductiveInvariant, PTL

\* A script that grants charges keys of one provider, one per window, each of
\* which had room if its window is still open.
LEMMA ConsumeGrants ==
  ASSUME IInv, IInv', NEW c \in Callers, Consume(c)
  PROVE  Tokens!Grant \/ UNCHANGED <<now, spent>>
<1>1. /\ calls[c].st = "sent"
      /\ \A w \in Windows : ~Full(c, w)
      /\ now' = now
  BY DEF Consume
<1>2. /\ \A k \in Charged(c) : /\ k \in Keys /\ k = KeyOf(c, k[2])
                              /\ k[1] = calls[c].prov /\ calls[c].lim[k[2]] > 0
      /\ calls[c].lim \in [Windows -> Nat]
      /\ calls[c].lim \in QuotaOf(calls[c].prov)
  BY <1>1, SentCall DEF IInv
<1>3. /\ used \in [Keys -> Nat] /\ spent \in [Keys -> Nat] /\ spent' \in [Keys -> Nat]
      /\ \A k \in Keys : k[1] \in Providers /\ k[2] \in Windows
  BY DEF IInv, TypeOK, Keys
<1>4. \A k \in Keys : spent'[k] = IF k \in Charged(c) THEN spent[k] + 1 ELSE spent[k]
  BY DEF Consume
<1>5. \A k \in Charged(c) : used[k] < calls[c].lim[k[2]]
  BY <1>1, <1>2, <1>3 DEF Full
<1>. DEFINE Took == {k \in Keys : spent'[k] # spent[k]}
<1>6. Took = Charged(c)
  BY <1>2, <1>3, <1>4
<1>7. \A k \in Took :
        /\ spent'[k] = spent[k] + 1
        /\ now < k[3] => \E n \in LimitsOf(k) : spent[k] < n
  <2>. SUFFICES ASSUME NEW k \in Charged(c), now < k[3]
                PROVE  spent[k] < calls[c].lim[k[2]] /\ calls[c].lim[k[2]] \in LimitsOf(k)
    BY <1>2, <1>4, <1>6
  <2>1. spent[k] = used[k]
    BY <1>2 DEF IInv, CountExact, EndOf
  <2>. QED
    BY <2>1, <1>2, <1>5 DEF LimitsOf
<1>8. \A k, m \in Took : k # m => k[1] = m[1] /\ k[2] # m[2]
  BY <1>2, <1>6
<1>9. CASE spent' = spent
  BY <1>1, <1>9
<1>10. CASE spent' # spent
  BY <1>1, <1>3, <1>7, <1>8, <1>10 DEF Tokens!Grant, Tokens!Took
<1>. QED
  BY <1>9, <1>10

\* The limiter, with its clock readings that age in flight and its counters
\* that Redis forgets, implements the limiter without either, for any
\* providers, callers, quotas and window lengths.
THEOREM LimiterGrantsTokens == Spec => GrantsTokens
<1>1. Init => Tokens!Begun
  BY DEF Init, Tokens!Begun
<1>2. IInv /\ IInv' /\ [Next]_vars => [Tokens!Elapse \/ Tokens!Grant]_<<now, spent>>
  <2>. SUFFICES ASSUME IInv, IInv', [Next]_vars
                PROVE  Tokens!Elapse \/ Tokens!Grant \/ UNCHANGED <<now, spent>>
    OBVIOUS
  <2>1. CASE Tick
    BY <2>1 DEF Tick, Tokens!Elapse
  <2>2. CASE \E p \in Providers : ChangeQuota(p)
    BY <2>2 DEF ChangeQuota
  <2>3. ASSUME NEW c \in Callers, NEW p \in Providers,
               GrantUnlimited(c, p) \/ Send(c, p)
        PROVE  UNCHANGED <<now, spent>>
    BY <2>3 DEF GrantUnlimited, Send
  <2>4. ASSUME NEW c \in Callers, Refuse(c) \/ Return(c)
        PROVE  UNCHANGED <<now, spent>>
    BY <2>4 DEF Refuse, Return
  <2>5. ASSUME NEW c \in Callers, Consume(c)
        PROVE  Tokens!Grant \/ UNCHANGED <<now, spent>>
    BY <2>5, ConsumeGrants
  <2>6. CASE UNCHANGED vars
    BY <2>6 DEF vars
  <2>. QED
    BY <2>1, <2>2, <2>3, <2>4, <2>5, <2>6 DEF Next
<1>. QED
  BY <1>1, <1>2, InductiveInvariant, PTL DEF Spec, GrantsTokens, Tokens!WindowSpec
=============================================================================
