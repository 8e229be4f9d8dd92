------------------------- MODULE RateLimiterProofs -------------------------
(***************************************************************************)
(* The token bucket keeps its rate, for every capacity, rate, number of    *)
(* callers and pattern of failures.  The invariant is an account: since    *)
(* any token was given out, the tokens given out, those in the bucket and  *)
(* those that have flowed in but are not booked yet come from what the     *)
(* bucket held at most and what time has let in.  A second account, of a   *)
(* caller who is alone, shows that the waits he is told are enough.        *)
(***************************************************************************)
EXTENDS RateLimiter, TLAPS

Given(i) == Len(grants) - i + 1
Flow == AtLeast0(Now - bucket.lastRefill) * RefillPerMinute
Since(i) == (time - grants[i]) * RefillPerMinute

Account ==
  \A i \in 1..Len(grants) : Given(i) * MinuteMs + bucket.tokens + Flow <= Full + Since(i)

\* Types, as far as the account needs them.
BucketType ==
  /\ time \in Nat /\ behind \in Nat
  /\ bucket \in [tokens : Nat, lastRefill : Int]
  /\ grants \in Seq(Nat)
  /\ bucket.tokens <= Full

IInv == BucketType /\ Account /\ RateKept

-----------------------------------------------------------------------------
(* Arithmetic the solver needs spelled out.                                *)

\* A product grows with its first factor.
LEMMA ProductMonotone ==
  ASSUME NEW a \in Int, NEW b \in Int, NEW r \in Nat, a <= b
  PROVE  a * r <= b * r
  BY Z3

\* One more of something.
LEMMA OneMore ==
  ASSUME NEW a \in Int, NEW r \in Int
  PROVE  (a + 1) * r = a * r + r
  BY Z3

\* Products of integers and naturals have their types.
LEMMA ProductTypes ==
  /\ \A a, b \in Int : a * b \in Int
  /\ \A a, b \in Nat : a * b \in Nat
  BY Z3

\* What can be in the bucket when it is asked.
LEMMA RefilledBounds ==
  ASSUME BucketType
  PROVE  /\ Full \in Nat /\ Flow \in Nat /\ Refilled \in Nat
         /\ Refilled <= Full
         /\ Refilled <= bucket.tokens + Flow
<1>1. Full \in Nat
  BY BucketAssumption, ProductTypes DEF Full
<1>2. AtLeast0(Now - bucket.lastRefill) \in Nat
  BY DEF AtLeast0, Now, BucketType
<1>3. Flow \in Nat
  BY <1>2, BucketAssumption, ProductTypes DEF Flow
<1>4. Refilled = MinOf(Full, bucket.tokens + Flow)
  BY DEF Refilled, Flow
<1> QED
  BY <1>1, <1>3, <1>4 DEF MinOf, BucketType

-----------------------------------------------------------------------------
\* Storing what was refilled, or one token less, books the flow.
LEMMA StoredBooks ==
  ASSUME BucketType, NEW left \in Nat, left <= Full, Stored(left), UNCHANGED <<time, behind>>
  PROVE  /\ bucket' \in [tokens : Nat, lastRefill : Int] /\ bucket'.tokens = left
         /\ Flow' = 0
<1>1. bucket' = [tokens |-> left, lastRefill |-> Now] /\ Now \in Int /\ Now' = Now
  BY DEF Stored, Now, BucketType
<1>2. (Now - bucket.lastRefill)' = 0
  BY <1>1
<1>3. AtLeast0(Now - bucket.lastRefill)' = 0
  BY <1>2 DEF AtLeast0
<1>4. Flow' = 0 * RefillPerMinute
  BY <1>3 DEF Flow
<1> QED
  BY <1>1, <1>4, BucketAssumption

\* A refusal keeps the invariant.
LEMMA RefuseStep ==
  ASSUME IInv, Refuse, UNCHANGED <<time, behind>>
  PROVE  IInv'
<1> USE DEF IInv
<1>1. /\ Full \in Nat /\ Flow \in Nat /\ Refilled \in Nat
      /\ Refilled <= Full /\ Refilled <= bucket.tokens + Flow
  BY RefilledBounds
<1>2. /\ bucket' \in [tokens : Nat, lastRefill : Int] /\ bucket'.tokens = Refilled
      /\ Flow' = 0 /\ grants' = grants
  BY <1>1, StoredBooks DEF Refuse
<1>3. BucketType'
  BY <1>1, <1>2 DEF BucketType, Full
<1>4. Account'
  <2> SUFFICES ASSUME NEW i \in 1..Len(grants)
               PROVE  Given(i) * MinuteMs + Refilled + 0 <= Full + Since(i)
    BY <1>2 DEF Account, Given, Since, Full
  <2>1. Given(i) * MinuteMs + bucket.tokens + Flow <= Full + Since(i)
    BY DEF Account
  <2>2. Given(i) * MinuteMs \in Int /\ Since(i) \in Int
    BY BucketAssumption, ProductTypes DEF Given, Since, BucketType
  <2> QED
    BY <2>1, <2>2, <1>1 DEF BucketType
<1>5. RateKept'
  BY <1>2 DEF RateKept, Full
<1> QED
  BY <1>3, <1>4, <1>5

\* So does giving out a token.
LEMMA GrantStep ==
  ASSUME IInv, Grant, UNCHANGED <<time, behind>>
  PROVE  IInv'
<1> USE DEF IInv
<1> DEFINE n == Len(grants)
<1>1. /\ Full \in Nat /\ Flow \in Nat /\ Refilled \in Nat
      /\ Refilled <= Full /\ Refilled <= bucket.tokens + Flow
      /\ MinuteMs \in Nat /\ Refilled - MinuteMs \in Nat /\ Refilled - MinuteMs <= Full
  BY RefilledBounds, BucketAssumption DEF Grant
<1>2. /\ bucket' \in [tokens : Nat, lastRefill : Int] /\ bucket'.tokens = Refilled - MinuteMs
      /\ Flow' = 0
  BY <1>1, StoredBooks DEF Grant
<1>3. /\ n \in Nat /\ grants' \in Seq(Nat) /\ Len(grants') = n + 1 /\ grants'[n + 1] = time
      /\ \A i \in 1..n : grants'[i] = grants[i]
  BY DEF Grant, BucketType
<1>4. BucketType'
  BY <1>1, <1>2, <1>3 DEF BucketType, Full
<1>5. \A i \in 1..n : Given(i) * MinuteMs \in Int /\ Since(i) \in Int
  BY BucketAssumption, ProductTypes, <1>3 DEF Given, Since, BucketType
<1>6. \A i \in 1..n : (n + 1 - i + 1) * MinuteMs = Given(i) * MinuteMs + MinuteMs
  BY <1>3, <1>1, OneMore DEF Given
<1>7. \A i \in 1..n : Given(i) * MinuteMs + MinuteMs + (Refilled - MinuteMs) <= Full + Since(i)
  BY <1>1, <1>5 DEF Account, BucketType
<1>8. \A i \in 1..n : Since(i) = (time - grants[i]) * RefillPerMinute
  BY DEF Since
<1>9. (time - time) * RefillPerMinute = 0 /\ (n + 1 - (n + 1) + 1) * MinuteMs = MinuteMs
  BY <1>1, <1>3, BucketAssumption DEF BucketType
<1>10. Account'
  <2> SUFFICES ASSUME NEW i \in 1..(n + 1)
               PROVE  (n + 1 - i + 1) * MinuteMs + (Refilled - MinuteMs) + 0
                        <= Full + (time - grants'[i]) * RefillPerMinute
    BY <1>2, <1>3 DEF Account, Given, Since, Full
  <2>1. CASE i \in 1..n
    <3>1. (time - grants'[i]) * RefillPerMinute = Since(i)
      BY <2>1, <1>3, <1>8
    <3>2. (n + 1 - i + 1) * MinuteMs = Given(i) * MinuteMs + MinuteMs
      BY <2>1, <1>6
    <3>3. Given(i) * MinuteMs + MinuteMs + (Refilled - MinuteMs) + 0 <= Full + Since(i)
      BY <2>1, <1>1, <1>5, <1>7
    <3> QED
      BY <3>1, <3>2, <3>3
  <2>2. CASE i = n + 1
    BY <2>2, <1>1, <1>3, <1>9
  <2> QED
    BY <2>1, <2>2, <1>3
<1>11. RateKept'
  <2> SUFFICES ASSUME NEW i \in 1..(n + 1), NEW k \in 1..(n + 1), i <= k
               PROVE  (k - i + 1) * MinuteMs <= Full + (grants'[k] - grants'[i]) * RefillPerMinute
    BY <1>3 DEF RateKept, Full
  <2>1. CASE k \in 1..n
    <3>1. i \in 1..n /\ grants'[k] = grants[k] /\ grants'[i] = grants[i]
      BY <2>1, <1>3
    <3>2. i \in DOMAIN grants /\ k \in DOMAIN grants
      BY <2>1, <3>1 DEF BucketType
    <3>3. (k - i + 1) * MinuteMs <= Full + (grants[k] - grants[i]) * RefillPerMinute
      BY <3>2 DEF RateKept
    <3> QED
      BY <3>1, <3>3
  <2>2. CASE k = n + 1 /\ i \in 1..n
    <3>1. grants'[k] = time /\ grants'[i] = grants[i]
      BY <2>2, <1>3
    <3>2. (k - i + 1) * MinuteMs = Given(i) * MinuteMs + MinuteMs
      BY <2>2, <1>6
    <3>3. (grants'[k] - grants'[i]) * RefillPerMinute = Since(i)
      BY <2>2, <3>1, <1>8
    <3>4. Given(i) * MinuteMs + MinuteMs <= Full + Since(i)
      BY <2>2, <1>1, <1>5, <1>7
    <3> QED
      BY <3>2, <3>3, <3>4
  <2>3. CASE k = n + 1 /\ i = n + 1
    BY <2>3, <1>1, <1>3, <1>9
  <2> QED
    BY <2>1, <2>2, <2>3, <1>3
<1> QED
  BY <1>4, <1>10, <1>11

\* Time lets in as much as it adds to the stretch since a grant.
LEMMA TickStep ==
  ASSUME IInv, Tick
  PROVE  IInv'
<1> USE DEF IInv
<1>1. time' = time + 1 /\ behind' = behind /\ bucket' = bucket /\ grants' = grants
  BY DEF Tick
<1>2. BucketType'
  BY <1>1 DEF BucketType, Full
<1>3. RateKept'
  BY <1>1 DEF RateKept, Full
<1>4. Flow' \in Int /\ Flow \in Int /\ Flow' <= Flow + RefillPerMinute
  <2> DEFINE a == AtLeast0(Now - bucket.lastRefill)
  <2>1. a \in Nat /\ a' \in Nat /\ a' <= a + 1
    BY <1>1 DEF AtLeast0, Now, BucketType
  <2>2. a' * RefillPerMinute <= (a + 1) * RefillPerMinute
    BY <2>1, ProductMonotone, BucketAssumption
  <2>3. (a + 1) * RefillPerMinute = a * RefillPerMinute + RefillPerMinute
    BY <2>1, OneMore, BucketAssumption
  <2>4. a * RefillPerMinute \in Int /\ a' * RefillPerMinute \in Int
    BY <2>1, ProductTypes, BucketAssumption
  <2> QED
    BY <2>2, <2>3, <2>4 DEF Flow
<1>5. Account'
  <2> SUFFICES ASSUME NEW i \in 1..Len(grants)
               PROVE  Given(i) * MinuteMs + bucket.tokens + Flow' <= Full + Since(i)'
    BY <1>1 DEF Account, Given, Full
  <2>1. (time - grants[i] + 1) * RefillPerMinute = Since(i) + RefillPerMinute
    BY OneMore, BucketAssumption DEF Since, BucketType
  <2>2. Since(i)' = Since(i) + RefillPerMinute
    <3>1. time' - grants'[i] = time - grants[i] + 1
      BY <1>1 DEF BucketType
    <3> QED
      BY <2>1, <3>1 DEF Since
  <2>3. Given(i) * MinuteMs \in Int /\ Since(i) \in Int /\ Full \in Int
    BY BucketAssumption, ProductTypes DEF Given, Since, BucketType, Full
  <2>4. Given(i) * MinuteMs + bucket.tokens + Flow <= Full + Since(i)
    BY DEF Account
  <2> QED
    BY <2>1, <2>2, <2>3, <2>4, <1>4, BucketAssumption DEF BucketType
<1> QED
  BY <1>2, <1>3, <1>5

\* A clock that falls back only delays what flows in.
LEMMA FallBackStep ==
  ASSUME IInv, ClockFallsBack
  PROVE  IInv'
<1> USE DEF IInv
<1>1. time' = time /\ behind' = behind + 1 /\ bucket' = bucket /\ grants' = grants
  BY DEF ClockFallsBack
<1>2. BucketType'
  BY <1>1 DEF BucketType, Full
<1>3. RateKept'
  BY <1>1 DEF RateKept, Full
<1>4. Flow' \in Int /\ Flow \in Int /\ Flow' <= Flow
  <2> DEFINE a == AtLeast0(Now - bucket.lastRefill)
  <2>1. a \in Nat /\ a' \in Nat /\ a' <= a
    BY <1>1 DEF AtLeast0, Now, BucketType
  <2>2. a' * RefillPerMinute <= a * RefillPerMinute
    BY <2>1, ProductMonotone, BucketAssumption
  <2>3. a * RefillPerMinute \in Int /\ a' * RefillPerMinute \in Int
    BY <2>1, ProductTypes, BucketAssumption
  <2> QED
    BY <2>2, <2>3 DEF Flow
<1>5. Account'
  <2> SUFFICES ASSUME NEW i \in 1..Len(grants)
               PROVE  Given(i) * MinuteMs + bucket.tokens + Flow' <= Full + Since(i)
    BY <1>1 DEF Account, Given, Since, Full
  <2>1. Given(i) * MinuteMs \in Int /\ Since(i) \in Int /\ Full \in Int
    BY BucketAssumption, ProductTypes DEF Given, Since, BucketType, Full
  <2>2. Given(i) * MinuteMs + bucket.tokens + Flow <= Full + Since(i)
    BY DEF Account
  <2> QED
    BY <2>1, <2>2, <1>4 DEF BucketType
<1> QED
  BY <1>2, <1>3, <1>5

\* Steps that only move a caller.
LEMMA BucketUntouched ==
  ASSUME IInv, UNCHANGED <<time, behind, bucket, grants>>
  PROVE  IInv'
  BY DEF IInv, BucketType, Account, RateKept, Given, Since, Flow, Now, Full

-----------------------------------------------------------------------------
\* The account holds and the rate is kept in every reachable state, for every
\* bucket, whoever asks it and whatever fails (rate-limiter.ts:23-44).
THEOREM AccountInvariant == Spec => []IInv
<1>1. Init => IInv
  <2> SUFFICES ASSUME Init PROVE IInv
    OBVIOUS
  <2>1. BucketType
    BY BucketAssumption, ProductTypes DEF Init, BucketType, Full
  <2>2. Account /\ RateKept
    BY DEF Init, Account, RateKept
  <2> QED
    BY <2>1, <2>2 DEF IInv
<1>2. IInv /\ [Next]_vars => IInv'
  <2> SUFFICES ASSUME IInv, [Next]_vars PROVE IInv'
    OBVIOUS
  <2>1. CASE \E c \in Callers : Begin(c) \/ Wake(c)
    BY <2>1, BucketUntouched DEF Begin, Wake
  <2>2. CASE \E c \in Callers : Ask(c)
    BY <2>2, GrantStep, RefuseStep DEF Ask
  <2>3. CASE \E c \in Callers : AskFails(c)
    BY <2>3, GrantStep, RefuseStep, BucketUntouched DEF AskFails
  <2>4. CASE Tick
    BY <2>4, TickStep
  <2>5. CASE ClockFallsBack
    BY <2>5, FallBackStep
  <2>6. CASE UNCHANGED vars
    BY <2>6, BucketUntouched DEF vars
  <2> QED
    BY <2>1, <2>2, <2>3, <2>4, <2>5, <2>6 DEF Next
<1> QED
  BY <1>1, <1>2, PTL DEF Spec

\* In particular the rate is kept.
THEOREM RateAlwaysKept == Spec => []RateKept
<1>1. IInv => RateKept
  BY DEF IInv
<1> QED
  BY <1>1, AccountInvariant, PTL

-----------------------------------------------------------------------------
(* The callers' part of the types.                                         *)

\* A wait that is rounded up is not negative.
LEMMA CeilDivType ==
  ASSUME NEW a \in Nat, NEW b \in Nat \ {0}
  PROVE  CeilDiv(a, b) \in Nat
<1>1. a + b - 1 \in Nat
  OBVIOUS
<1> QED BY <1>1 DEF CeilDiv

\* A refused caller goes on with a record of its type.
LEMMA WaitsType ==
  ASSUME time \in Nat, caller \in [Callers -> CallerRec], NEW c \in Callers, NEW ms \in Nat
  PROVE  Waits(c, ms) \in CallerRec
<1>1. MinOf(ms, PollCapMs) \in Nat
  BY WaitAssumption DEF MinOf
<1>2. [Idle EXCEPT !.pc = "refused", !.alone = caller[c].alone] \in CallerRec
  BY DEF Idle, CallerRec
<1>3. [caller[c] EXCEPT !.pc = "sleep", !.wake = time + MinOf(ms, PollCapMs)] \in CallerRec
  <2>1. PICK n \in Nat : n = time + MinOf(ms, PollCapMs)
    BY <1>1
  <2> QED BY <2>1 DEF CallerRec
<1> QED BY <1>2, <1>3 DEF Waits

\* What the others see keeps their types.
LEMMA SeenType ==
  ASSUME caller \in [Callers -> CallerRec], NEW c, NEW rec \in CallerRec
  PROVE  Seen(c, rec) \in [Callers -> CallerRec]
BY DEF Seen, CallerRec, Waiting

\* The callers' records have their type.
CallerType == caller \in [Callers -> CallerRec]

\* A caller that is refused is told a wait that is not negative, because the
\* bucket lacked a token.
LEMMA RetryAfterType ==
  ASSUME BucketType, Refuse
  PROVE  /\ Refilled \in Nat /\ MinuteMs - Refilled \in Nat \ {0}
         /\ RetryAfter \in Nat
<1>1. Refilled \in Nat
  BY RefilledBounds
<1>2. MinuteMs - Refilled \in Nat \ {0}
  BY <1>1, BucketAssumption DEF Refuse
<1> QED BY <1>1, <1>2, CeilDivType, BucketAssumption DEF RetryAfter

\* So they have in every reachable state, together with the account.
LEMMA CallersTyped == Spec => [](IInv /\ CallerType)
<1>1. Init => CallerType
  BY DEF Init, CallerRec, Idle, CallerType
<1>2. IInv /\ CallerType /\ [Next]_vars => CallerType'
  <2> SUFFICES ASSUME IInv, CallerType, [Next]_vars PROVE CallerType'
    OBVIOUS
  <2> USE DEF CallerType
  <2>1. Idle \in CallerRec /\ time \in Nat
    BY DEF Idle, CallerRec, IInv, BucketType
  <2>2. ASSUME NEW c \in Callers, Begin(c) PROVE CallerType'
    <3>1. [Idle EXCEPT !.pc = "ask", !.since = time] \in CallerRec
      BY <2>1 DEF Idle, CallerRec
    <3> QED BY <2>2, <3>1 DEF Begin
  <2>3. ASSUME NEW c \in Callers, Ask(c) PROVE CallerType'
    <3>1. CASE caller' = Seen(c, Idle)
      BY <3>1, <2>1, SeenType
    <3>2. CASE Refuse /\ caller' = [caller EXCEPT ![c] = Waits(c, RetryAfter)]
      <4>1. RetryAfter \in Nat
        BY <3>2, RetryAfterType DEF IInv
      <4> QED BY <3>2, <4>1, <2>1, WaitsType
    <3> QED BY <2>3, <3>1, <3>2 DEF Ask
  <2>4. ASSUME NEW c \in Callers, AskFails(c) PROVE CallerType'
    <3>1. PICK rec : /\ rec = [Waits(c, FailedMs) EXCEPT !.alone = FALSE]
                     /\ caller' = Seen(c, rec) \/ caller' = [caller EXCEPT ![c] = rec]
      BY <2>4 DEF AskFails
    <3>2. rec \in CallerRec
      <4>1. Waits(c, FailedMs) \in CallerRec
        BY <2>1, WaitAssumption, WaitsType
      <4> QED BY <4>1, <3>1 DEF CallerRec
    <3> QED BY <3>1, <3>2, SeenType
  <2>5. ASSUME NEW c \in Callers, Wake(c) PROVE CallerType'
    BY <2>5 DEF Wake, CallerRec
  <2> QED BY <2>2, <2>3, <2>4, <2>5 DEF Next, Tick, ClockFallsBack, vars
<1> QED BY <1>1, <1>2, AccountInvariant, PTL DEF Spec

\* Type correctness, which needs the account: a caller that is refused is told
\* a wait that is not negative because the bucket lacked a token
\* (rate-limiter.ts:41, send-queue.ts:25).
THEOREM TypesHold == Spec => []TypeOK
<1>1. IInv /\ CallerType => TypeOK
  BY DEF IInv, BucketType, CallerType, TypeOK
<1> QED BY <1>1, CallersTyped, PTL

-----------------------------------------------------------------------------
(* A caller that waits alone is served.  What has been in the bucket, or    *)
(* has flowed in, since the caller began to wait is still there: it is the  *)
(* caller's share, and a caller that is refused is told to wait for the     *)
(* rest of one token.  The level is taken before it is clamped at either    *)
(* end: a clock that falls back takes from it what it takes from the wait.  *)

Level == bucket.tokens + (Now - bucket.lastRefill) * RefillPerMinute
Waited(c) == (time - caller[c].since - behind) * RefillPerMinute

AloneInv ==
  /\ bucket.lastRefill <= time /\ behind <= MaxBehind
  /\ \A c \in Callers : Waiting(c) /\ caller[c].alone => Waited(c) <= Level

LoneInv == IInv /\ CallerType /\ AloneInv

\* A quotient that is rounded up is the least number of portions that is enough.
LEMMA CeilDivBounds ==
  ASSUME NEW a \in Nat, NEW b \in Nat \ {0}
  PROVE  /\ CeilDiv(a, b) \in Nat
         /\ a <= CeilDiv(a, b) * b
         /\ (CeilDiv(a, b) - 1) * b < a
<1> DEFINE n == a + b - 1
           q == n \div b
<1>1. n \in Nat /\ q \in Nat
  BY Z3
<1>2. q * b <= n /\ n < q * b + b /\ q * b \in Int
  BY <1>1, Z3
<1>3. CeilDiv(a, b) = q
  BY DEF CeilDiv
<1>4. (q - 1) * b = q * b - b
  BY <1>1, Z3
<1> HIDE DEF q
<1> QED
  BY <1>1, <1>2, <1>3, <1>4

\* A refusal stores all that has flowed in: the level does not fall.
LEMMA RefuseKeepsLevel ==
  ASSUME BucketType, Refuse, UNCHANGED <<time, behind>>
  PROVE  Level \in Int /\ Level <= Refilled /\ Level' = Refilled /\ bucket'.lastRefill = Now
<1> DEFINE d == Now - bucket.lastRefill
<1>1. Now \in Int /\ d \in Int /\ AtLeast0(d) \in Nat /\ d <= AtLeast0(d)
  BY DEF BucketType, Now, AtLeast0
<1>2. d * RefillPerMinute \in Int /\ d * RefillPerMinute <= AtLeast0(d) * RefillPerMinute
  BY <1>1, ProductTypes, ProductMonotone, BucketAssumption
<1>3. AtLeast0(d) * RefillPerMinute \in Nat
  BY <1>1, ProductTypes, BucketAssumption
<1>4. Full \in Nat /\ MinuteMs <= Full
  <2>1. 1 * MinuteMs <= Capacity * MinuteMs
    BY BucketAssumption, ProductMonotone
  <2> QED BY <2>1, BucketAssumption, ProductTypes DEF Full
<1>5. Refilled = MinOf(Full, bucket.tokens + AtLeast0(d) * RefillPerMinute)
  BY DEF Refilled
<1>6. Refilled < MinuteMs
  BY DEF Refuse
<1>7. Refilled = bucket.tokens + AtLeast0(d) * RefillPerMinute
  BY <1>3, <1>4, <1>5, <1>6, BucketAssumption DEF MinOf, BucketType
<1>8. Level = bucket.tokens + d * RefillPerMinute
  BY DEF Level
<1>9. Level' = Refilled /\ bucket'.lastRefill = Now
  <2>1. bucket' = [tokens |-> Refilled, lastRefill |-> Now] /\ Now' = Now
    BY DEF Refuse, Stored, Now
  <2>2. (Now - bucket.lastRefill)' = 0
    BY <2>1, <1>1
  <2>3. Level' = Refilled + 0 * RefillPerMinute
    BY <2>1, <2>2 DEF Level
  <2>4. Refilled \in Nat
    BY RefilledBounds
  <2> QED BY <2>1, <2>3, <2>4, BucketAssumption
<1> HIDE DEF d
<1> QED
  BY <1>2, <1>3, <1>7, <1>8, <1>9 DEF BucketType

\* A token that is given out, or a failed call, leaves nobody who waits
\* undisturbed: the invariant is kept because nobody is left to be served.
LEMMA DisturbedWaiters ==
  ASSUME CallerType, NEW c \in Callers, NEW rec \in CallerRec,
         rec.pc \in {"ask", "sleep"} => ~rec.alone,
         caller' = Seen(c, rec), NEW d \in Callers, Waiting(d)'
  PROVE  ~caller'[d].alone
<1>1. CASE d = c
  BY <1>1 DEF Seen, Waiting, CallerType
<1>2. CASE d # c
  <2>1. caller'[d] = [caller[d] EXCEPT !.alone = @ /\ ~Waiting(d)]
    BY <1>2 DEF Seen
  <2>2. PICK r \in CallerRec : r = caller[d]
    BY DEF CallerType
  <2>3. caller'[d].pc = r.pc /\ (Waiting(d) => ~caller'[d].alone)
    BY <2>1, <2>2 DEF CallerRec
  <2> QED
    BY <2>2, <2>3 DEF Waiting
<1> QED
  BY <1>1, <1>2

\* Anyone whose record is as it was, or who has been disturbed, keeps its share
\* while the level does not fall.
LEMMA ShareKept ==
  ASSUME LoneInv, UNCHANGED <<time, behind>>,
         Level \in Int, Level' \in Int, Level <= Level', bucket'.lastRefill <= time,
         \A d \in Callers : Waiting(d)' /\ caller'[d].alone =>
            Waiting(d) /\ caller[d].alone /\ caller'[d].since = caller[d].since
  PROVE  AloneInv'
<1> SUFFICES ASSUME NEW d \in Callers, Waiting(d)', caller'[d].alone
             PROVE  Waited(d)' <= Level'
  BY DEF AloneInv, LoneInv
<1>1. Waited(d) <= Level /\ Waited(d)' = Waited(d)
  BY DEF LoneInv, AloneInv, Waited
<1>2. Waited(d) \in Int
  <2>1. time - caller[d].since - behind \in Int
    BY DEF LoneInv, IInv, BucketType, CallerType, CallerRec
  <2> QED
    BY <2>1, ProductTypes, BucketAssumption DEF Waited
<1> QED
  BY <1>1, <1>2

\* What a caller that got no token goes on with: it sleeps on with the wait it
\* began, or is past its deadline.
LEMMA WaitsKeeps ==
  ASSUME CallerType, IInv, NEW c \in Callers, NEW ms \in Nat
  PROVE  /\ Waits(c, ms).alone = caller[c].alone
         /\ Waits(c, ms).pc = "sleep" => Waits(c, ms).since = caller[c].since
         /\ Waits(c, ms).pc \in {"sleep", "refused"}
         /\ Waits(c, ms).pc = "refused" =>
              time + MinOf(ms, PollCapMs) > caller[c].since + MaxWaitMs[c]
<1> DEFINE w == MinOf(ms, PollCapMs)
<1>1. PICK r \in CallerRec : r = caller[c]
  BY DEF CallerType
<1>2. w \in Nat /\ time \in Nat
  BY WaitAssumption DEF MinOf, IInv, BucketType
<1>3. PICK t \in Nat : t = time + w
  BY <1>2
<1>4. CASE time + w > caller[c].since + MaxWaitMs[c]
  <2>1. Waits(c, ms) = [Idle EXCEPT !.pc = "refused", !.alone = r.alone]
    BY <1>4, <1>1 DEF Waits
  <2> QED
    BY <2>1, <1>1, <1>4 DEF Idle, CallerRec
<1>5. CASE ~(time + w > caller[c].since + MaxWaitMs[c])
  <2>1. Waits(c, ms) = [r EXCEPT !.pc = "sleep", !.wake = t]
    BY <1>5, <1>3, <1>1 DEF Waits
  <2> QED
    BY <2>1, <1>1 DEF CallerRec
<1> QED
  BY <1>4, <1>5

\* Each step keeps the shares of those who wait alone.
LEMMA AloneStep ==
  ASSUME LoneInv, [Next]_vars
  PROVE  AloneInv'
<1> USE DEF LoneInv
<1>1. /\ time \in Nat /\ behind \in Nat /\ MaxBehind \in Nat /\ RefillPerMinute \in Nat
      /\ bucket \in [tokens : Nat, lastRefill : Int] /\ caller \in [Callers -> CallerRec]
  BY BucketAssumption, WaitAssumption DEF IInv, BucketType, CallerType
<1>2. Level \in Int
  <2>1. Now - bucket.lastRefill \in Int
    BY <1>1 DEF Now
  <2> QED
    BY <2>1, <1>1, ProductTypes DEF Level
<1>3. \A d \in Callers : Waited(d) \in Int
  <2> TAKE d \in Callers
  <2>1. time - caller[d].since - behind \in Int
    BY <1>1 DEF CallerRec
  <2> QED
    BY <2>1, <1>1, ProductTypes DEF Waited
<1>4. ASSUME NEW c \in Callers, Begin(c) PROVE AloneInv'
  <2>1. /\ time' = time /\ behind' = behind /\ bucket' = bucket /\ Level' = Level
        /\ caller' = [caller EXCEPT ![c] = [Idle EXCEPT !.pc = "ask", !.since = time]]
    BY <1>4 DEF Begin, Level, Now
  <2> SUFFICES ASSUME NEW d \in Callers, Waiting(d)', caller'[d].alone
               PROVE  Waited(d)' <= Level
    BY <2>1 DEF AloneInv
  <2>2. CASE d = c
    <3>1. caller'[d].since = time
      BY <2>1, <2>2, <1>1 DEF Idle
    <3>2. Waited(d)' = (time - time - behind) * RefillPerMinute
      BY <3>1, <2>1 DEF Waited
    <3>3. time - time - behind <= Now - bucket.lastRefill /\ Now - bucket.lastRefill \in Int
      BY <1>1 DEF AloneInv, Now
    <3>4. (time - time - behind) * RefillPerMinute <= (Now - bucket.lastRefill) * RefillPerMinute
      BY <3>3, <1>1, ProductMonotone
    <3>5. /\ (time - time - behind) * RefillPerMinute \in Int
          /\ (Now - bucket.lastRefill) * RefillPerMinute \in Int
      BY <3>3, <1>1, ProductTypes
    <3> QED
      BY <3>2, <3>4, <3>5, <1>1 DEF Level
  <2>3. CASE d # c
    BY <2>3, <2>1, <1>1 DEF AloneInv, Waited, Waiting
  <2> QED
    BY <2>2, <2>3
<1>5. ASSUME NEW c \in Callers, Wake(c) PROVE AloneInv'
  <2>1. time' = time /\ behind' = behind /\ bucket' = bucket /\ Level' = Level
    BY <1>5 DEF Wake, Level, Now
  <2>2. ASSUME NEW d \in Callers, Waiting(d)', caller'[d].alone
        PROVE  Waiting(d) /\ caller[d].alone /\ caller'[d].since = caller[d].since
    BY <1>5, <2>2, <1>1 DEF Wake, Waiting, CallerRec
  <2> QED
    BY <2>1, <2>2, <1>1, <1>2, ShareKept DEF AloneInv
<1>6. ASSUME NEW c \in Callers, NEW rec \in CallerRec, Grant, UNCHANGED <<time, behind>>,
             rec.pc \in {"ask", "sleep"} => ~rec.alone, caller' = Seen(c, rec)
      PROVE  AloneInv'
  <2>1. \A d \in Callers : Waiting(d)' => ~caller'[d].alone
    BY <1>6, DisturbedWaiters
  <2>2. bucket'.lastRefill = Now
    BY <1>6 DEF Grant, Stored
  <2> QED
    BY <1>6, <2>1, <2>2, <1>1 DEF AloneInv, Now
<1>7. ASSUME NEW c \in Callers, NEW rec \in CallerRec,
             Refuse \/ UNCHANGED <<bucket, grants>>, UNCHANGED <<time, behind>>,
             caller' = [caller EXCEPT ![c] = rec],
             rec.pc \in {"ask", "sleep"} /\ rec.alone => Waiting(c) /\ caller[c].alone /\ rec.since = caller[c].since
      PROVE  AloneInv'
  <2>1. Level' \in Int /\ Level <= Level' /\ bucket'.lastRefill <= time
    <3>1. CASE Refuse
      <4>1. Refilled \in Nat
        BY RefilledBounds DEF IInv
      <4> QED
        BY <4>1, <3>1, <1>7, <1>1, RefuseKeepsLevel DEF IInv, Now
    <3>2. CASE UNCHANGED <<bucket, grants>>
      BY <3>2, <1>7, <1>1, <1>2 DEF AloneInv, Level, Now
    <3> QED
      BY <1>7, <3>1, <3>2
  <2>2. ASSUME NEW d \in Callers, Waiting(d)', caller'[d].alone
        PROVE  Waiting(d) /\ caller[d].alone /\ caller'[d].since = caller[d].since
    BY <1>7, <2>2, <1>1 DEF Waiting
  <2> QED
    BY <2>1, <2>2, <1>7, <1>2, ShareKept
<1>8. ASSUME NEW c \in Callers, Ask(c) PROVE AloneInv'
  <2>1. CASE Grant /\ caller' = Seen(c, Idle)
    <3>1. Idle \in CallerRec /\ Idle.pc = "idle"
      BY DEF Idle, CallerRec
    <3> QED
      BY <1>8, <2>1, <3>1, <1>6 DEF Ask
  <2>2. CASE Refuse /\ caller' = [caller EXCEPT ![c] = Waits(c, RetryAfter)]
    <3>1. RetryAfter \in Nat
      BY <2>2, RetryAfterType DEF IInv
    <3>2. PICK rec \in CallerRec : rec = Waits(c, RetryAfter)
      BY <3>1, <1>1, WaitsType
    <3>3. rec.pc \in {"ask", "sleep"} /\ rec.alone => Waiting(c) /\ caller[c].alone /\ rec.since = caller[c].since
      BY <1>8, <3>1, <3>2, WaitsKeeps DEF Ask, Waiting
    <3> QED
      BY <1>8, <2>2, <3>2, <3>3, <1>7 DEF Ask
  <2> QED
    BY <1>8, <2>1, <2>2 DEF Ask
<1>9. ASSUME NEW c \in Callers, AskFails(c) PROVE AloneInv'
  <2>1. Waits(c, FailedMs) \in CallerRec
    BY <1>1, WaitAssumption, WaitsType
  <2>2. PICK rec \in CallerRec : rec = [Waits(c, FailedMs) EXCEPT !.alone = FALSE]
    BY <2>1 DEF CallerRec
  <2>3. ~rec.alone
    BY <2>1, <2>2 DEF CallerRec
  <2>4. UNCHANGED <<time, behind>>
    BY <1>9 DEF AskFails
  <2>5. CASE Grant /\ caller' = Seen(c, rec)
    BY <2>3, <2>4, <2>5, <1>6
  <2>6. CASE (Refuse \/ UNCHANGED <<bucket, grants>>) /\ caller' = [caller EXCEPT ![c] = rec]
    BY <2>3, <2>4, <2>6, <1>7
  <2> QED
    BY <1>9, <2>2, <2>5, <2>6 DEF AskFails
<1>10. CASE Tick
  <2>1. time' = time + 1 /\ behind' = behind /\ bucket' = bucket /\ caller' = caller
    BY <1>10 DEF Tick
  <2>2. Level' = Level + RefillPerMinute
    <3> DEFINE d == Now - bucket.lastRefill
    <3>1. d \in Int /\ d' = d + 1
      BY <1>1, <2>1 DEF Now
    <3>2. d' * RefillPerMinute = d * RefillPerMinute + RefillPerMinute
      BY <3>1, <1>1, OneMore
    <3>3. Level' = bucket.tokens + d' * RefillPerMinute /\ Level = bucket.tokens + d * RefillPerMinute
      BY <2>1 DEF Level
    <3>4. d * RefillPerMinute \in Int
      BY <3>1, <1>1, ProductTypes
    <3> HIDE DEF d
    <3> QED
      BY <3>2, <3>3, <3>4, <1>1
  <2>3. \A d \in Callers : Waited(d)' = Waited(d) + RefillPerMinute
    <3> TAKE d \in Callers
    <3> DEFINE w == time - caller[d].since - behind
    <3>1. w \in Int /\ w' = w + 1
      BY <1>1, <2>1 DEF CallerRec
    <3>2. Waited(d)' = w' * RefillPerMinute /\ Waited(d) = w * RefillPerMinute
      BY DEF Waited
    <3> HIDE DEF w
    <3> QED
      BY <3>1, <3>2, <1>1, OneMore
  <2> SUFFICES ASSUME NEW d \in Callers, Waiting(d)', caller'[d].alone
               PROVE  Waited(d)' <= Level'
    BY <2>1, <1>1 DEF AloneInv
  <2>4. Waited(d) <= Level
    BY <2>1 DEF AloneInv, Waiting
  <2> QED
    BY <2>2, <2>3, <2>4, <1>1, <1>2, <1>3
<1>11. CASE ClockFallsBack
  <2>1. time' = time /\ behind' = behind + 1 /\ bucket' = bucket /\ caller' = caller /\ behind < MaxBehind
    BY <1>11 DEF ClockFallsBack
  <2>2. Level' + RefillPerMinute = Level /\ Level' \in Int
    <3> DEFINE d == Now - bucket.lastRefill
    <3>1. d' \in Int /\ d = d' + 1
      BY <1>1, <2>1 DEF Now
    <3>2. d * RefillPerMinute = d' * RefillPerMinute + RefillPerMinute
      BY <3>1, <1>1, OneMore
    <3>3. Level' = bucket.tokens + d' * RefillPerMinute /\ Level = bucket.tokens + d * RefillPerMinute
      BY <2>1 DEF Level
    <3>4. d' * RefillPerMinute \in Int
      BY <3>1, <1>1, ProductTypes
    <3> HIDE DEF d
    <3> QED
      BY <3>2, <3>3, <3>4, <1>1
  <2>3. \A d \in Callers : Waited(d)' + RefillPerMinute = Waited(d) /\ Waited(d)' \in Int
    <3> TAKE d \in Callers
    <3> DEFINE w == time - caller[d].since - behind
    <3>1. w' \in Int /\ w = w' + 1
      BY <1>1, <2>1 DEF CallerRec
    <3>2. Waited(d)' = w' * RefillPerMinute /\ Waited(d) = w * RefillPerMinute
      BY DEF Waited
    <3>3. w' * RefillPerMinute \in Int
      BY <3>1, <1>1, ProductTypes
    <3> HIDE DEF w
    <3> QED
      BY <3>1, <3>2, <3>3, <1>1, OneMore
  <2> SUFFICES ASSUME NEW d \in Callers, Waiting(d)', caller'[d].alone
               PROVE  Waited(d)' <= Level'
    BY <2>1, <1>1 DEF AloneInv
  <2>4. Waited(d) <= Level
    BY <2>1 DEF AloneInv, Waiting
  <2>5. Waited(d)' + RefillPerMinute <= Level' + RefillPerMinute /\ Waited(d)' \in Int
    BY <2>2, <2>3, <2>4
  <2> QED
    BY <2>2, <2>5, <1>1
<1>12. CASE UNCHANGED vars
  BY <1>12 DEF vars, AloneInv, Waited, Level, Waiting, Now
<1> QED
  BY <1>4, <1>5, <1>8, <1>9, <1>10, <1>11, <1>12 DEF Next

\* A caller that waits alone, and may wait for a whole token, is not refused for
\* good: what it waited and what it is told to wait make up a token.
LEMMA LonerStep ==
  ASSUME LoneInv, [Next]_vars, NEW c \in Callers,
         Waiting(c), Patient(c), caller'[c].pc = "refused"
  PROVE  ~caller'[c].alone
<1> USE DEF LoneInv
<1>1. /\ time \in Nat /\ behind \in Nat /\ MaxBehind \in Nat /\ behind <= MaxBehind
      /\ RefillPerMinute \in Nat \ {0} /\ MinuteMs \in Nat \ {0}
      /\ bucket \in [tokens : Nat, lastRefill : Int] /\ caller \in [Callers -> CallerRec]
      /\ caller[c].pc \in {"ask", "sleep"} /\ caller[c].since \in Nat
  BY BucketAssumption, WaitAssumption DEF IInv, BucketType, CallerType, AloneInv, Waiting, CallerRec
\* Nobody but the caller itself gives up its wait.
<1>2. ASSUME NEW d, NEW rec, caller' = Seen(d, rec), d # c PROVE FALSE
  <2>1. caller'[c] = [caller[c] EXCEPT !.alone = @ /\ ~Waiting(c)]
    BY <1>2 DEF Seen
  <2>2. PICK r \in CallerRec : r = caller[c]
    BY <1>1
  <2>3. caller'[c].pc = r.pc
    BY <2>1, <2>2 DEF CallerRec
  <2> QED
    BY <2>2, <2>3, <1>1
<1>3. ASSUME NEW d \in Callers, NEW rec, caller' = [caller EXCEPT ![d] = rec], d # c PROVE FALSE
  BY <1>3, <1>1
<1>4. ASSUME caller' = caller PROVE FALSE
  BY <1>4, <1>1
<1>5. PICK d \in Callers : Begin(d) \/ Ask(d) \/ AskFails(d) \/ Wake(d)
  BY <1>4 DEF Next, Tick, ClockFallsBack, vars
<1>6. CASE Begin(d)
  <2>1. caller'[c].pc # "refused"
    <3>1. CASE d = c
      BY <3>1, <1>6, <1>1 DEF Begin
    <3>2. CASE d # c
      BY <3>2, <1>6, <1>3 DEF Begin
    <3> QED
      BY <3>1, <3>2
  <2> QED
    BY <2>1
<1>7. CASE Wake(d)
  BY <1>7, <1>1 DEF Wake, CallerRec
<1>8. CASE AskFails(d)
  <2>1. Waits(d, FailedMs) \in CallerRec
    BY <1>1, WaitAssumption, WaitsType
  <2>2. PICK rec \in CallerRec : rec = [Waits(d, FailedMs) EXCEPT !.alone = FALSE]
    BY <2>1 DEF CallerRec
  <2>3. ~rec.alone
    BY <2>1, <2>2 DEF CallerRec
  <2>4. caller' = Seen(d, rec) \/ caller' = [caller EXCEPT ![d] = rec]
    BY <1>8, <2>2 DEF AskFails
  <2>5. d = c
    BY <2>4, <1>2, <1>3
  <2>6. caller'[c] = rec
    BY <2>4, <2>5, <1>1 DEF Seen
  <2> QED
    BY <2>3, <2>6
<1>9. CASE Ask(d)
  <2>1. CASE caller' = Seen(d, Idle)
    <3>1. d = c
      BY <2>1, <1>2
    <3>2. caller'[c] = Idle
      BY <2>1, <3>1 DEF Seen
    <3> QED
      BY <3>2 DEF Idle
  <2>2. CASE Refuse /\ caller' = [caller EXCEPT ![d] = Waits(d, RetryAfter)]
    <3>1. d = c
      BY <2>2, <1>3
    <3>2. caller'[c] = Waits(c, RetryAfter)
      BY <2>2, <3>1, <1>1
    <3>3. RetryAfter \in Nat /\ Refilled \in Nat /\ MinuteMs - Refilled \in Nat \ {0}
      BY <2>2, RetryAfterType DEF IInv
    <3>4. /\ caller'[c].alone = caller[c].alone
          /\ time + MinOf(RetryAfter, PollCapMs) > caller[c].since + MaxWaitMs[c]
      BY <3>2, <3>3, WaitsKeeps
    <3> SUFFICES ASSUME caller[c].alone PROVE FALSE
      BY <3>4
    <3> DEFINE x == time - caller[c].since - behind
               q == CeilDiv(MinuteMs, RefillPerMinute)
               w == RetryAfter
    <3>5. x * RefillPerMinute <= Refilled
      <4>1. x * RefillPerMinute <= Level
        BY DEF AloneInv, Waited
      <4>2. Level \in Int /\ Level <= Refilled
        BY <2>2, <1>9, RefuseKeepsLevel DEF IInv, Ask
      <4>3. x * RefillPerMinute \in Int
        BY <1>1, ProductTypes
      <4> QED
        BY <4>1, <4>2, <4>3, <3>3
    <3>6. x \in Int /\ w \in Nat /\ q \in Nat
      BY <1>1, <3>3, CeilDivBounds
    <3>7. q <= w - 1 + x
      <4>1. MinOf(RetryAfter, PollCapMs) \in Nat /\ MinOf(RetryAfter, PollCapMs) <= w
        BY <3>3, WaitAssumption DEF MinOf
      <4>2. MaxWaitMs[c] \in Nat /\ MaxWaitMs[c] >= q + MaxBehind
        BY WaitAssumption DEF Patient
      <4> HIDE DEF q, w
      <4> QED
        BY <4>1, <4>2, <3>4, <3>6, <1>1
    <3>8. MinuteMs <= q * RefillPerMinute
      BY <1>1, CeilDivBounds
    <3>9. (w - 1) * RefillPerMinute < MinuteMs - Refilled
      BY <1>1, <3>3, CeilDivBounds DEF RetryAfter
    <3> HIDE DEF x, q, w
    <3>10. q * RefillPerMinute <= (w - 1 + x) * RefillPerMinute
      BY <3>6, <3>7, <1>1, ProductMonotone
    <3>11. (w - 1 + x) * RefillPerMinute = (w - 1) * RefillPerMinute + x * RefillPerMinute
      BY <3>6, <1>1, Z3
    <3>12. /\ q * RefillPerMinute \in Int /\ x * RefillPerMinute \in Int
           /\ (w - 1) * RefillPerMinute \in Int
      BY <3>6, <1>1, ProductTypes
    <3> QED
      BY <3>3, <3>5, <3>8, <3>9, <3>10, <3>11, <3>12, <1>1
  <2> QED
    BY <1>9, <2>1, <2>2 DEF Ask
<1> QED
  BY <1>5, <1>6, <1>7, <1>8, <1>9

\* The shares hold in every reachable state.
LEMMA LoneHolds == Spec => []LoneInv
<1>1. Init => AloneInv
  <2> SUFFICES ASSUME Init PROVE AloneInv
    OBVIOUS
  <2>1. time = 0 /\ behind = 0 /\ bucket.lastRefill = 0 /\ \A c \in Callers : ~Waiting(c)
    BY DEF Init, Waiting, Idle
  <2> QED
    BY <2>1, WaitAssumption DEF AloneInv
<1>2. IInv /\ CallerType /\ AloneInv /\ [Next]_vars => AloneInv'
  BY AloneStep DEF LoneInv
<1> QED
  BY <1>1, <1>2, CallersTyped, PTL DEF Spec, LoneInv

\* So a consumer that waits alone for its credential is never sent away, for
\* every rate, poll interval, rounding and clock that falls back, whatever the
\* others do meanwhile short of taking a token (rate-limiter.ts:42,
\* send-queue.ts:17-31).
THEOREM LonerAlwaysServed == Spec => LonerServed
<1>1. LoneInv /\ [Next]_vars =>
        [\A c \in Callers : Waiting(c) /\ Patient(c) /\ caller'[c].pc = "refused" => ~caller'[c].alone]_vars
  BY LonerStep
<1> QED
  BY <1>1, LoneHolds, PTL DEF Spec, LonerServed

=============================================================================
