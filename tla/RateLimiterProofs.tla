-------------------------- MODULE RateLimiterProofs --------------------------
(***************************************************************************)
(* The token bucket keeps its promise for every rate, datagram size, clock *)
(* and schedule of idle spells, rate changes and oversleeps.               *)
(***************************************************************************)
EXTENDS RateLimiter, TLAPS

\* While acquire loops, the bucket was refilled under the rate in force.
LoopBounded == demand # 0 => tokens <= Hz * Burst

\* The demand still fits in the window.
WindowBounded == granted + demand <= MaxGranted

\* Once the window has had a refill: what was granted, what is in the bucket and
\* what the next refill can add come to at most one burst and what the rate
\* earned in the window; unless the window is so old that all may be granted.
Account ==
  demand # 0 \/ granted # 0 =>
    \/ Hz * granted + tokens + elapsed * rate <= Hz * Burst + rate * since
    \/ rate # 0 /\ since = MaxWindow

PacedInv == TypeOK /\ LoopBounded /\ WindowBounded /\ Account

\* A burst is a positive number of bytes, and a full bucket a number of tokens.
LEMMA BurstNat ==
  ASSUME NEW r \in Rates PROVE BurstOf(r) \in Nat \ {0} /\ Hz * BurstOf(r) \in Nat
<1>1. BurstOf(r) \in Nat \ {0} /\ Hz \in Nat
  BY RateLimiterAssumption DEF BurstOf
<1>2. QED
  BY <1>1

\* The types of what the account adds up.
LEMMA Products ==
  ASSUME TypeOK
  PROVE  /\ rate \in Nat /\ tokens \in Nat /\ elapsed \in Nat /\ since \in Nat
         /\ demand \in Nat /\ granted \in Nat /\ Hz \in Nat \ {0}
         /\ Hz * granted \in Nat /\ Hz * demand \in Nat /\ Hz * Burst \in Nat
         /\ elapsed * rate \in Nat /\ rate * since \in Nat
<1>1. /\ rate \in Nat /\ tokens \in Nat /\ elapsed \in Nat /\ since \in Nat
      /\ demand \in Nat /\ granted \in Nat /\ Hz \in Nat \ {0} /\ Hz * Burst \in Nat
  BY BurstNat, RateLimiterAssumption DEF TypeOK, Burst
<1>2. \A x, y \in Nat : x * y \in Nat
  OBVIOUS
<1>3. QED
  BY <1>1, <1>2

\* refill adds at most what the clock credits and never passes the rim.
LEMMA RefillBounds ==
  ASSUME TypeOK
  PROVE  /\ Refilled \in Nat
         /\ Refilled <= Hz * Burst
         /\ Refilled <= tokens + elapsed * rate
<1> DEFINE credit == elapsed * rate
           rim == Hz * Burst
<1>1. credit \in Nat /\ rim \in Nat /\ tokens \in Nat
  BY Products
<1>2. Refilled = IF tokens + credit <= rim THEN tokens + credit ELSE rim
  BY DEF Refilled, Capped
<1> HIDE DEF credit, rim
<1>3. Refilled \in Nat /\ Refilled <= rim /\ Refilled <= tokens + credit
  BY <1>1, <1>2
<1>4. QED
  BY <1>3 DEF credit, rim

\* A fresh limiter has granted nothing and holds one burst.
LEMMA PacedInit == Init => PacedInv
<1> SUFFICES ASSUME Init PROVE PacedInv
  OBVIOUS
<1>1. Hz * Burst \in Nat
  BY BurstNat, RateLimiterAssumption DEF Init, Burst
<1>2. TypeOK
  BY <1>1, RateLimiterAssumption DEF Init, TypeOK
<1>3. LoopBounded /\ WindowBounded /\ Account
  BY RateLimiterAssumption DEF Init, LoopBounded, WindowBounded, Account
<1>4. QED
  BY <1>2, <1>3 DEF PacedInv

\* A tick earns in the window what the next refill will credit.
LEMMA TickKeepsAccount == ASSUME PacedInv, Tick PROVE PacedInv'
<1> DEFINE a == Hz * granted
           b == Hz * Burst
           c == elapsed * rate
           d == rate * since
<1>1. /\ rate \in Nat /\ tokens \in Nat /\ elapsed \in Nat /\ since \in Nat
      /\ a \in Nat /\ b \in Nat /\ c \in Nat /\ d \in Nat
      /\ elapsed <= MaxIdle /\ since <= MaxWindow /\ MaxIdle \in Nat /\ MaxWindow \in Nat
  BY Products, RateLimiterAssumption DEF PacedInv, TypeOK
<1>2. /\ elapsed' \in {elapsed, elapsed + 1} /\ elapsed' <= MaxIdle
      /\ since' = since + 1 \/ (since = MaxWindow /\ since' = since)
      /\ since' <= MaxWindow
  BY <1>1 DEF Tick, Capped
<1>3. UNCHANGED <<rate, tokens, demand, granted>>
  BY DEF Tick
<1>4. TypeOK'
  BY <1>1, <1>2, <1>3 DEF PacedInv, TypeOK
<1>5. LoopBounded' /\ WindowBounded'
  BY <1>3 DEF PacedInv, LoopBounded, WindowBounded, Burst
<1>6. \A x \in Nat : (x + 1) * rate = x * rate + rate /\ rate * (x + 1) = rate * x + rate
  BY <1>1
<1>7. elapsed' * rate' <= c + rate /\ elapsed' * rate' \in Nat
  <2>1. CASE elapsed' = elapsed
    BY <1>1, <1>3, <2>1
  <2>2. CASE elapsed' = elapsed + 1
    <3>1. elapsed' * rate' = c + rate
      BY <1>1, <1>3, <1>6, <2>2
    <3> HIDE DEF c
    <3>2. QED
      BY <1>1, <3>1
  <2>3. QED
    BY <1>2, <2>1, <2>2
<1>8. Account'
  <2>1. CASE ~(demand # 0 \/ granted # 0)
    BY <1>3, <2>1 DEF Account
  <2>2. CASE rate # 0 /\ since = MaxWindow
    BY <1>1, <1>2, <1>3, <2>2 DEF Account
  <2>3. CASE rate = 0 /\ a + tokens + c <= b + d
    <3>1. elapsed' * rate' = 0 /\ c = 0 /\ d = 0 /\ rate' * since' = 0
      <4>1. \A x \in Nat : x * 0 = 0 /\ 0 * x = 0
        OBVIOUS
      <4>2. rate = 0 /\ rate' = 0 /\ elapsed \in Nat /\ elapsed' \in Nat
            /\ since \in Nat /\ since' \in Nat
        BY <1>1, <1>2, <1>3, <1>4, <2>3 DEF TypeOK
      <4>3. QED
        BY <4>1, <4>2
    <3>2. Hz * granted' = a /\ Hz * Burst' = b
      BY <1>3 DEF Burst
    <3> HIDE DEF a, b, c, d
    <3>3. a + tokens + 0 <= b + 0
      BY <2>3, <3>1
    <3>4. QED
      BY <1>3, <3>1, <3>2, <3>3 DEF Account
  <2>4. CASE since' = since + 1 /\ a + tokens + c <= b + d
    <3>1. rate' * since' = d + rate
      BY <1>1, <1>3, <1>6, <2>4
    <3>2. Hz * granted' = a /\ Hz * Burst' = b
      BY <1>3 DEF Burst
    <3> DEFINE e == elapsed' * rate'
    <3>3. e \in Nat /\ e <= c + rate
      BY <1>7
    <3> HIDE DEF a, b, c, d, e
    <3>4. a + tokens + e <= b + (d + rate)
      BY <1>1, <2>4, <3>3
    <3>5. QED
      BY <1>3, <3>1, <3>2, <3>4 DEF Account, e
  <2>5. QED
    BY <1>2, <2>1, <2>2, <2>3, <2>4 DEF PacedInv, Account
<1>9. QED
  BY <1>4, <1>5, <1>8 DEF PacedInv

\* A refill opens the account with at most one burst, or goes on with it.
LEMMA RefillKeepsAccount ==
  ASSUME PacedInv, tokens' = Refilled, elapsed' = 0, demand' # 0,
         demand' \in Datagrams, granted + demand' <= MaxGranted,
         UNCHANGED <<rate, granted, since>>,
         demand = 0 \/ demand' = demand
  PROVE  PacedInv'
<1>1. Refilled \in Nat /\ Refilled <= Hz * Burst /\ Refilled <= tokens + elapsed * rate
  BY RefillBounds DEF PacedInv
<1>2. TypeOK'
  BY <1>1, RateLimiterAssumption DEF PacedInv, TypeOK
<1>3. LoopBounded' /\ WindowBounded'
  BY <1>1 DEF LoopBounded, WindowBounded, Burst
<1>4. Account'
  <2> DEFINE a == Hz * granted
             b == Hz * Burst
             c == elapsed * rate
             d == rate * since
             t == Refilled
  <2>1. a \in Nat /\ b \in Nat /\ c \in Nat /\ d \in Nat /\ tokens \in Nat /\ rate \in Nat
    BY Products DEF PacedInv
  <2>2. t \in Nat /\ t <= b /\ t <= tokens + c
    BY <1>1
  <2>3. /\ Hz * granted' = a /\ Hz * Burst' = b /\ rate' * since' = d
        /\ elapsed' * rate' = 0 /\ tokens' = t
    BY <2>1 DEF Burst
  <2>4. CASE rate # 0 /\ since = MaxWindow
    BY <2>4 DEF Account
  <2>5. CASE demand = 0 /\ granted = 0
    <3>1. a = 0
      BY <2>5, RateLimiterAssumption
    <3> HIDE DEF a, b, c, d, t
    <3>2. a + t + 0 <= b + d
      BY <2>1, <2>2, <3>1
    <3>3. QED
      BY <2>3, <3>2 DEF Account
  <2>6. CASE a + tokens + c <= b + d
    <3> HIDE DEF a, b, c, d, t
    <3>1. a + t + 0 <= b + d
      BY <2>1, <2>2, <2>6
    <3>2. QED
      BY <2>3, <3>1 DEF Account
  <2>7. QED
    BY <2>4, <2>5, <2>6 DEF PacedInv, Account
<1>5. QED
  BY <1>2, <1>3, <1>4 DEF PacedInv

\* A grant moves from the bucket to what was granted.
LEMMA GrantKeepsAccount == ASSUME PacedInv, Grant PROVE PacedInv'
<1> DEFINE a == Hz * granted
           b == Hz * Burst
           c == elapsed * rate
           d == rate * since
           e == Hz * demand
<1>1. /\ a \in Nat /\ b \in Nat /\ c \in Nat /\ d \in Nat /\ e \in Nat
      /\ tokens \in Nat /\ rate \in Nat /\ granted \in Nat /\ demand \in Nat /\ Hz \in Nat
  BY Products DEF PacedInv
<1>2. /\ demand # 0 /\ tokens >= e /\ tokens' = tokens - e /\ demand' = 0
      /\ granted' = granted + demand /\ UNCHANGED <<rate, elapsed, since>>
  BY DEF Grant
<1>3. Hz * granted' = a + e /\ Hz * Burst' = b /\ elapsed' * rate' = c /\ rate' * since' = d
  BY <1>1, <1>2 DEF Burst
<1> HIDE DEF a, b, c, d, e
<1>4. TypeOK'
  BY <1>1, <1>2, RateLimiterAssumption DEF PacedInv, TypeOK, WindowBounded
<1>5. LoopBounded' /\ WindowBounded'
  BY <1>1, <1>2 DEF PacedInv, LoopBounded, WindowBounded
<1>6. Account'
  <2>1. CASE rate # 0 /\ since = MaxWindow
    BY <1>2, <2>1 DEF Account
  <2>2. CASE a + tokens + c <= b + d
    <3>1. (a + e) + (tokens - e) + c <= b + d
      BY <1>1, <2>2
    <3>2. QED
      BY <1>2, <1>3, <3>1 DEF Account
  <2>3. QED
    BY <1>2, <2>1, <2>2 DEF PacedInv, Account, a, b, c, d
<1>7. QED
  BY <1>4, <1>5, <1>6 DEF PacedInv

\* Every call, every turn of acquire and every tick keeps the account.
LEMMA PacedNext == PacedInv /\ [Next]_vars => PacedInv'
<1> SUFFICES ASSUME PacedInv, [Next]_vars PROVE PacedInv'
  OBVIOUS
<1>1. CASE Tick
  BY <1>1, TickKeepsAccount
<1>2. ASSUME NEW r \in Rates, set_kbps(r) PROVE PacedInv'
  <2>1. TypeOK'
    BY <1>2, RateLimiterAssumption DEF PacedInv, TypeOK, set_kbps
  <2>2. LoopBounded' /\ WindowBounded' /\ Account'
    BY <1>2, RateLimiterAssumption DEF LoopBounded, WindowBounded, Account, set_kbps
  <2>3. QED
    BY <2>1, <2>2 DEF PacedInv
<1>3. ASSUME NEW n \in Datagrams, acquire(n) PROVE PacedInv'
  BY <1>3, RefillKeepsAccount, RateLimiterAssumption DEF acquire
<1>4. CASE Grant
  BY <1>4, GrantKeepsAccount
<1>5. CASE SleepAndRefill
  BY <1>5, RefillKeepsAccount DEF SleepAndRefill, PacedInv, TypeOK, WindowBounded
<1>6. CASE UNCHANGED vars
  BY <1>6 DEF vars, PacedInv, TypeOK, LoopBounded, WindowBounded, Account, Burst
<1>7. QED
  BY <1>1, <1>2, <1>3, <1>4, <1>5, <1>6 DEF Next

\* The account bounds what was granted.
LEMMA AccountPaces == ASSUME PacedInv PROVE Paced
<1> DEFINE a == Hz * granted
           b == Hz * Burst
           c == elapsed * rate
           d == rate * since
<1>1. /\ a \in Nat /\ b \in Nat /\ c \in Nat /\ d \in Nat
      /\ tokens \in Nat /\ rate \in Nat /\ granted \in Nat /\ Hz \in Nat
  BY Products DEF PacedInv
<1>2. CASE demand = 0 /\ granted = 0
  <2>1. a = 0
    BY <1>1, <1>2
  <2> HIDE DEF a, b, c, d
  <2>2. a <= b + d
    BY <1>1, <2>1
  <2>3. QED
    BY <2>2 DEF Paced, a, b, d
<1>3. CASE rate # 0 /\ since = MaxWindow
  <2>1. rate \in Rates \ {0} /\ granted <= MaxGranted /\ MaxGranted \in Nat
    BY <1>3, RateLimiterAssumption DEF PacedInv, TypeOK
  <2>2. Hz * MaxGranted <= d
    BY <1>3, <2>1, RateLimiterAssumption
  <2>3. a <= Hz * MaxGranted
    <3>1. PICK k \in Nat : MaxGranted = granted + k
      <4>1. MaxGranted - granted \in Nat /\ MaxGranted = granted + (MaxGranted - granted)
        BY <1>1, <2>1
      <4>2. QED
        BY <4>1
    <3>2. Hz * MaxGranted = a + Hz * k /\ Hz * k \in Nat
      BY <1>1, <3>1
    <3> HIDE DEF a
    <3>3. QED
      BY <1>1, <3>2
  <2>4. Hz * MaxGranted \in Nat
    BY <1>1, <2>1
  <2> HIDE DEF a, b, d
  <2>5. a <= b + d
    BY <1>1, <2>2, <2>3, <2>4
  <2>6. QED
    BY <2>5 DEF Paced, a, b, d
<1>4. CASE a + tokens + c <= b + d
  <2> HIDE DEF a, b, c, d
  <2>1. a <= b + d
    BY <1>1, <1>4
  <2>2. QED
    BY <2>1 DEF Paced, a, b, d
<1>5. QED
  BY <1>2, <1>3, <1>4 DEF PacedInv, Account

\* For all rates, datagram sizes and clocks, and in windows of any length: over a
\* time with one rate in force acquire lets through at most one second of it more
\* than the rate comes to, although set_kbps leaves the old rate's tokens and the
\* time that was not yet credited in the bucket.
THEOREM SenderIsPaced == Spec => []Paced
<1>1. PacedInv => Paced
  BY AccountPaces
<1>2. QED
  BY <1>1, PacedInit, PacedNext, PTL DEF Spec

\* Bucket, demand and the history of one window keep their shape, whatever the
\* rates and whenever they change.
THEOREM LimiterTypes == Spec => []TypeOK
<1>1. PacedInv => TypeOK
  BY DEF PacedInv
<1>2. QED
  BY <1>1, PacedInit, PacedNext, PTL DEF Spec

\* No datagram larger than one second of the rate in force is let through,
\* also when set_kbps lowered the rate under a fuller bucket.
THEOREM GrantsFitBurst == Spec => GrantFitsBurst
<1>1. ASSUME PacedInv, [Next]_vars
      PROVE  [demand # 0 /\ demand' = 0 => demand <= Burst]_vars
  <2>1. CASE Grant
    <3>1. Hz * demand <= Hz * Burst
      BY <1>1, <2>1, Products DEF PacedInv, LoopBounded, Grant
    <3>2. Hz \in Nat \ {0} /\ demand \in Nat /\ Burst \in Nat
      BY <1>1, Products, BurstNat DEF PacedInv, TypeOK, Burst
    <3>3. demand <= Burst
      BY <3>1, <3>2
    <3>4. QED
      BY <3>3
  <2>2. ASSUME NEW r \in Rates, set_kbps(r) PROVE demand = 0
    BY <2>2 DEF set_kbps
  <2>3. ASSUME NEW n \in Datagrams, acquire(n) PROVE demand = 0
    BY <2>3 DEF acquire
  <2>4. CASE SleepAndRefill \/ Tick
    BY <2>4 DEF SleepAndRefill, Tick
  <2>5. QED
    BY <1>1, <2>1, <2>2, <2>3, <2>4 DEF Next
<1>2. QED
  BY <1>1, PacedInit, PacedNext, PTL DEF Spec, GrantFitsBurst
=============================================================================
