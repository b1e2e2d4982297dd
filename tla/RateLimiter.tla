----------------------------- MODULE RateLimiter -----------------------------
(***************************************************************************)
(* The token bucket of rate_limiter.rs, against a clock that ticks Hz      *)
(* times per second.  A rate of r bytes per second credits r Hz-ths of a   *)
(* byte with every tick, so tokens are counted in Hz-ths and are exact.    *)
(* What a refill credits is the time since the last one at the rate it     *)
(* finds, whatever the rate was meanwhile: set_kbps does not refill.  The  *)
(* limiter lives inside SenderRuntime and is only reached under its mutex: *)
(* no call comes while acquire is looping.                                 *)
(***************************************************************************)
EXTENDS Integers

CONSTANTS
  Rates,         \* values bytes_per_sec may take (kbps * 125)
  InitialRate,   \* the rate RateLimiter::new is given
  Datagrams,     \* sizes acquire is called with
  Hz,            \* ticks of the clock per second
  MaxIdle,       \* bound: ticks after which `elapsed` saturates
  MaxGranted,    \* bound: bytes granted in one window of observation
  MaxWindow      \* bound: ticks after which `since` saturates

\* After Hz ticks the bucket is full and after Hz * n a sleep for n bytes is over,
\* so a longer time is the same to acquire; after MaxWindow ticks a rate other
\* than zero has earned all that can be granted in the window.
ASSUME RateLimiterAssumption ==
  /\ Rates \subseteq Nat /\ InitialRate \in Rates
  /\ Datagrams \subseteq Nat \ {0}
  /\ Hz \in Nat \ {0} /\ MaxGranted \in Nat
  /\ MaxIdle \in Nat /\ Hz <= MaxIdle /\ \A n \in Datagrams : Hz * n <= MaxIdle
  /\ MaxWindow \in Nat /\ \A r \in Rates \ {0} : Hz * MaxGranted <= r * MaxWindow

VARIABLES
  rate,          \* bytes_per_sec
  tokens,        \* tokens in the bucket, in Hz-ths of a byte
  elapsed,       \* ticks since `last`
  demand,        \* n of the acquire(n) in progress, 0 if none
  granted,       \* history: bytes granted in the window, which opens with a call
  since          \* of set_kbps, and the ticks since then

vars == <<rate, tokens, elapsed, demand, granted, since>>

\* burst_bytes = bytes_per_sec.max(1.0)
BurstOf(r) == IF r >= 1 THEN r ELSE 1
Burst == BurstOf(rate)

Capped(x, bound) == IF x <= bound THEN x ELSE bound

\* Mutated form: the bucket has no rim.
RefilledUncapped == tokens + elapsed * rate

\* Mutated form: the bucket never fills to the rim.
RefilledBelowRim == Capped(tokens + elapsed * rate, Hz * Burst - 1)

\* The bucket after refill.
Refilled == Capped(tokens + elapsed * rate, Hz * Burst)

Init ==
  /\ rate = InitialRate
  /\ tokens = Hz * Burst
  /\ elapsed = 0
  /\ demand = 0
  /\ granted = 0 /\ since = 0

\* Time passes, in calls and between them.
Tick ==
  /\ elapsed' = Capped(elapsed + 1, MaxIdle)
  /\ since' = Capped(since + 1, MaxWindow)
  /\ UNCHANGED <<rate, tokens, demand, granted>>

\* set_kbps: the rate and the rim change, the bucket keeps its tokens and `last`.
\* The window that is observed opens here; send_next makes this call before every
\* packet, and one that repeats the rate changes nothing, so a window may also
\* go on over it.
set_kbps(r) ==
  /\ demand = 0
  /\ rate' = r
  /\ granted' = 0 /\ since' = 0
  /\ UNCHANGED <<tokens, elapsed, demand>>

\* Mutated form: refill leaves `last` as it was.
acquireKeepsLast(n) ==
  /\ demand = 0
  /\ granted + n <= MaxGranted
  /\ demand' = n
  /\ tokens' = Refilled
  /\ UNCHANGED <<rate, elapsed, granted, since>>

\* acquire(n) is called: its loop up to the first refill.
acquire(n) ==
  /\ demand = 0
  /\ granted + n <= MaxGranted
  /\ demand' = n
  /\ tokens' = Refilled /\ elapsed' = 0
  /\ UNCHANGED <<rate, granted, since>>

\* Mutated form: `tokens + 1 >= n`.
GrantShort ==
  /\ demand # 0
  /\ tokens + Hz >= Hz * demand
  /\ tokens' = tokens - Hz * demand
  /\ demand' = 0
  /\ granted' = granted + demand
  /\ UNCHANGED <<rate, elapsed, since>>

\* Enough tokens: consume them and return.
Grant ==
  /\ demand # 0
  /\ tokens >= Hz * demand
  /\ tokens' = tokens - Hz * demand
  /\ demand' = 0
  /\ granted' = granted + demand
  /\ UNCHANGED <<rate, elapsed, since>>

\* Too few: a sleep of at least needed / max(bytes_per_sec, 1) seconds is over, and
\* the loop refills.
SleepAndRefill ==
  /\ demand # 0
  /\ tokens < Hz * demand
  /\ elapsed * BurstOf(rate) >= Hz * demand - tokens
  /\ tokens' = Refilled /\ elapsed' = 0
  /\ UNCHANGED <<rate, demand, granted, since>>

Next ==
  \/ Tick
  \/ \E r \in Rates : set_kbps(r)
  \/ \E n \in Datagrams : acquire(n)
  \/ Grant
  \/ SleepAndRefill

Spec == Init /\ [][Next]_vars

\* Time goes on, acquire is a loop in a running thread, and a sleep ends.
FairSpec == Spec /\ WF_vars(Tick) /\ WF_vars(Grant) /\ WF_vars(SleepAndRefill)
-----------------------------------------------------------------------------
\* Type invariant: in particular no grant drives the bucket below empty.
TypeOK ==
  /\ rate \in Rates
  /\ tokens \in Nat
  /\ elapsed \in 0 .. MaxIdle
  /\ demand \in Datagrams \cup {0}
  /\ granted \in 0 .. MaxGranted
  /\ since \in 0 .. MaxWindow

\* "allowing a burst equal to one second's worth of traffic": over any stretch of
\* time with one rate in force, what acquire lets through is at most one second
\* of that rate more than the rate comes to in the time, whatever the bucket
\* held when the rate was set and however long the limiter was idle before, at
\* a lower rate or a higher one, and however stalls and oversleeps fall in it.
Paced == Hz * granted <= Hz * Burst + rate * since

\* Only what fits in one second of the rate in force is ever let through, even
\* right after the rate was lowered under a fuller bucket.
GrantFitsBurst == [][demand # 0 /\ demand' = 0 => demand <= Burst]_vars

\* An acquire of what fits in one second of the rate in force returns, whatever
\* the bucket held when it was called.
FittingAcquireReturns ==
  \A n \in Datagrams : demand = n /\ n <= Burst ~> demand = 0

\* Every acquire returns: "very low kbps configurations (e.g. 30 kbit/s on TDRSS)
\* work without surprises".
AcquireReturns == \A n \in Datagrams : demand = n ~> demand = 0
=============================================================================
