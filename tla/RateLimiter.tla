---------------------------- MODULE RateLimiter ----------------------------
(***************************************************************************)
(* The token bucket of app/src/rate-limiter.ts and those who ask it: a     *)
(* consumer that waits for its send slot (waitForSendSlot), and a request  *)
(* that takes no for an answer (takeRateLimit, acquireStoredSmtpTestSlot), *)
(* which is a wait of at most 0 ms.  One bucket is one Durable Object, so  *)
(* its requests are atomic and one after another.                          *)
(*                                                                         *)
(* Levels are counted in the tokens a minute refills divided by the        *)
(* milliseconds of a minute: a token is MinuteMs units, a millisecond      *)
(* refills RefillPerMinute of them.  The code's floating-point sums are    *)
(* taken to be exact.                                                      *)
(***************************************************************************)
EXTENDS Integers, Sequences

CONSTANTS
  Callers,          \* who asks this bucket
  Capacity,         \* tokens the bucket holds
  RefillPerMinute,  \* tokens that flow in per minute
  MinuteMs,         \* 60 000
  MaxWaitMs,        \* of each caller: MAX_WAIT_MS, or 0
  PollCapMs,        \* POLL_INTERVAL_CAP_MS
  FailedMs,         \* wait after a failed call: 1000
  MaxBehind,        \* bound: how far the object's clock may fall back
  MaxTime           \* bound: milliseconds a behaviour lasts

ASSUME BucketAssumption ==
  /\ Capacity \in Nat \ {0} /\ RefillPerMinute \in Nat \ {0} /\ MinuteMs \in Nat \ {0}
ASSUME WaitAssumption ==
  /\ MaxWaitMs \in [Callers -> Nat] /\ PollCapMs \in Nat \ {0} /\ FailedMs \in Nat \ {0}
  /\ MaxBehind \in Nat /\ MaxTime \in Nat

VARIABLES
  time,    \* true time, which is what callers' clocks show
  behind,  \* how far the object's own clock is behind it
  bucket,  \* BucketState; a full one stands for "not stored yet"
  caller,  \* local state of each caller
  grants   \* history: when tokens were given out

vars == <<time, behind, bucket, caller, grants>>

MinOf(a, b) == IF a <= b THEN a ELSE b
AtLeast0(n) == IF n < 0 THEN 0 ELSE n
CeilDiv(a, b) == (a + b - 1) \div b

Full == Capacity * MinuteMs
Idle == [pc |-> "idle", since |-> 0, wake |-> 0, alone |-> TRUE]

Init ==
  /\ time = 0 /\ behind = 0
  /\ bucket = [tokens |-> Full, lastRefill |-> 0]
  /\ caller = [c \in Callers |-> Idle]
  /\ grants = <<>>

-----------------------------------------------------------------------------
(* CredentialRateLimiter.fetch                                             *)

Now == time - behind

\* Variant of Refilled: what flows in is never spilled.
Unspilled == bucket.tokens + AtLeast0(Now - bucket.lastRefill) * RefillPerMinute

Refilled == MinOf(Full, bucket.tokens + AtLeast0(Now - bucket.lastRefill) * RefillPerMinute)

Stored(left) == bucket' = [tokens |-> left, lastRefill |-> Now]

\* Variant of Grant: any rest of a token is a token.
GrantAnyRest ==
  /\ Refilled > 0
  /\ Stored(Refilled - MinuteMs)
  /\ grants' = Append(grants, time)

Grant ==
  /\ Refilled >= MinuteMs
  /\ Stored(Refilled - MinuteMs)
  /\ grants' = Append(grants, time)

\* Variant of Refuse: what has flowed in since the last call is forgotten.
RefuseForgets ==
  /\ Refilled < MinuteMs
  /\ Stored(bucket.tokens)
  /\ UNCHANGED grants

Refuse ==
  /\ Refilled < MinuteMs
  /\ Stored(Refilled)
  /\ UNCHANGED grants

RetryAfter == CeilDiv(MinuteMs - Refilled, RefillPerMinute)

-----------------------------------------------------------------------------
(* The callers.                                                            *)

\* Everyone else who waits has seen a token go.
Waiting(c) == caller[c].pc \in {"ask", "sleep"}
Seen(c, rec) == [d \in Callers |-> IF d = c THEN rec ELSE [caller[d] EXCEPT !.alone = @ /\ ~Waiting(d)]]

Begin(c) ==
  /\ ~Waiting(c)
  /\ caller' = [caller EXCEPT ![c] = [Idle EXCEPT !.pc = "ask", !.since = time]]
  /\ UNCHANGED <<time, behind, bucket, grants>>

\* A refused caller sleeps as long as it was told, within its poll interval,
\* unless that takes it past its deadline.
Waits(c, ms) ==
  LET wait == MinOf(ms, PollCapMs) IN
  IF time + wait > caller[c].since + MaxWaitMs[c] THEN [Idle EXCEPT !.pc = "refused", !.alone = caller[c].alone]
  ELSE [caller[c] EXCEPT !.pc = "sleep", !.wake = time + wait]

Ask(c) ==
  /\ caller[c].pc = "ask"
  /\ \/ Grant /\ caller' = Seen(c, Idle)
     \/ Refuse /\ caller' = [caller EXCEPT ![c] = Waits(c, RetryAfter)]
  /\ UNCHANGED <<time, behind>>

\* The call fails, before or after the object handled it.
AskFails(c) ==
  /\ caller[c].pc = "ask"
  /\ LET rec == [Waits(c, FailedMs) EXCEPT !.alone = FALSE] IN
     \/ Grant /\ caller' = Seen(c, rec)
     \/ (Refuse \/ UNCHANGED <<bucket, grants>>) /\ caller' = [caller EXCEPT ![c] = rec]
  /\ UNCHANGED <<time, behind>>

Wake(c) ==
  /\ caller[c].pc = "sleep" /\ time >= caller[c].wake
  /\ caller' = [caller EXCEPT ![c].pc = "ask"]
  /\ UNCHANGED <<time, behind, bucket, grants>>

-----------------------------------------------------------------------------
Tick ==
  /\ time < MaxTime
  /\ time' = time + 1
  /\ UNCHANGED <<behind, bucket, caller, grants>>

\* The object moves to a machine whose clock is behind the last one's.
ClockFallsBack ==
  /\ behind < MaxBehind
  /\ behind' = behind + 1
  /\ UNCHANGED <<time, bucket, caller, grants>>

Next ==
  \/ \E c \in Callers : Begin(c) \/ Ask(c) \/ AskFails(c) \/ Wake(c)
  \/ Tick
  \/ ClockFallsBack

Spec == Init /\ [][Next]_vars

-----------------------------------------------------------------------------
CallerRec == [pc : {"idle", "ask", "sleep", "refused"}, since : Nat, wake : Nat, alone : BOOLEAN]

\* BucketState and the locals of waitForSendSlot.
TypeOK ==
  /\ time \in Nat /\ behind \in Nat
  /\ bucket \in [tokens : Nat, lastRefill : Int]
  /\ caller \in [Callers -> CallerRec]
  /\ grants \in Seq(Nat)

\* Over any stretch of time the bucket gives out no more than it holds plus
\* what flows in meanwhile, whoever asks, fails or comes back, and however the
\* object's clock falls back (rate-limiter.ts:33-38).
RateKept ==
  \A i, k \in DOMAIN grants :
    i <= k => (k - i + 1) * MinuteMs <= Full + (grants[k] - grants[i]) * RefillPerMinute

\* A consumer that alone waits for its credential, and could wait for a whole
\* token, is not sent away: the wait it is told is enough even when rounding,
\* the poll interval or a clock that fell back cut it short
\* (rate-limiter.ts:42, send-queue.ts:27).
Patient(c) == MaxWaitMs[c] >= CeilDiv(MinuteMs, RefillPerMinute) + MaxBehind

LonerServed ==
  [][\A c \in Callers : Waiting(c) /\ Patient(c) /\ caller'[c].pc = "refused" => ~caller'[c].alone]_vars
=============================================================================
