--------------------------- MODULE Backoff_proofs ---------------------------
(***************************************************************************)
(* Proofs about Backoff, for durations of any width, any policies and any  *)
(* headers.                                                                *)
(***************************************************************************)
EXTENDS TLAPS, Backoff, DataInduction

(* Wrapping around stays within the width and leaves what fits alone.      *)
LEMMA WrapFits == \A x \in Int : Wrap(x) \in Durations
<1> SUFFICES ASSUME NEW x \in Int PROVE Wrap(x) \in Durations
  OBVIOUS
<1>1. Half \in Int /\ Half > 0
  BY WidthAssumption
<1>2. (x + Half) % (2 * Half) \in 0..(2 * Half - 1)
  BY <1>1
<1> QED
  BY <1>1, <1>2 DEF Wrap, Durations

(* A duration is not changed by wrapping around.                           *)
LEMMA WrapIsIdentity == \A x \in Durations : Wrap(x) = x
<1> SUFFICES ASSUME NEW x \in Durations PROVE Wrap(x) = x
  OBVIOUS
<1>1. Half \in Int /\ Half > 0
  BY WidthAssumption
<1>2. (x + Half) \in 0..(2 * Half - 1)
  BY <1>1 DEF Durations
<1>3. \A a \in Int, m \in Int : 0 <= a /\ a < m => a % m = a
  OBVIOUS
<1>4. (x + Half) % (2 * Half) = x + Half
  BY <1>1, <1>2, <1>3
<1> QED
  BY <1>1, <1>4 DEF Wrap, Durations

(* A normalised policy retries, and its delays are positive.               *)
LEMMA NormalizedPolicy ==
  ASSUME NEW p \in Policies
  PROVE  /\ normalized(p) \in [MaxRetries : Nat \ {0}, BaseDelay : Durations,
                               MaxDelay : Durations]
         /\ normalized(p).BaseDelay > 0
         /\ normalized(p).MaxDelay > 0
  BY PoliciesAssumption, DefaultsAssumption, WidthAssumption
     DEF normalized, OrDefault, Durations

(* What Retry-After comes to is a duration; without overflow it is not     *)
(* negative.                                                               *)
LEMMA RetryAfterFits ==
  ASSUME NEW h \in Headers
  PROVE  /\ parseRetryAfter(h) \in Durations
         /\ SaysWhen(h) /\ (h.kind = "seconds" => h.n * Second < Half)
              => parseRetryAfter(h) >= 0
<1>1. h.n \in Durations /\ h.n \in Int /\ Second \in Int /\ Second > 0 /\ Half \in Nat
  BY HeadersAssumption, WidthAssumption DEF Durations
<1>2. h.n * Second \in Int
  BY <1>1
<1>3. parseRetryAfter(h) \in Durations
  BY <1>1, <1>2, WrapFits, WidthAssumption DEF parseRetryAfter, Durations
<1>4. ASSUME h.kind = "seconds", h.n >= 0, h.n * Second < Half
      PROVE  Wrap(h.n * Second) >= 0
  <2>1. h.n * Second >= 0
    BY <1>1, <1>4
  <2>2. h.n * Second \in Durations
    BY <1>1, <1>2, <1>4, <2>1 DEF Durations
  <2> QED
    BY <2>1, <2>2, WrapIsIdentity
<1> QED
  BY <1>1, <1>3, <1>4 DEF parseRetryAfter, SaysWhen

-----------------------------------------------------------------------------
(* A call that has not been answered has slept nothing.                    *)
LEMMA DelayInvInit == Init => DelayInv
<1> SUFFICES ASSUME Init PROVE DelayInv
  OBVIOUS
<1>1. PICK p \in Policies : policy = normalized(p)
  BY DEF Init
<1>2. policy.MaxDelay \in Int /\ 0 <= 0 * policy.MaxDelay
  BY <1>1, NormalizedPolicy DEF Durations
<1> QED
  BY <1>1, <1>2, NormalizedPolicy, WidthAssumption
     DEF Init, DelayInv, DelayWithinMax, Durations

(* What the loop leaves behind, limited, is positive and within the limit; *)
(* so is any draw from it, but for half of one nanosecond.                 *)
LEMMA LimitedInRange ==
  ASSUME DelayInv
  PROVE  /\ Limited \in 1..policy.MaxDelay
         /\ Limited \div 2 \in Nat
         /\ \A r \in 0..(Limited \div 2) :
              (Limited \div 2) + r \in 0..policy.MaxDelay
<1>1. Limited \in 1..policy.MaxDelay
  BY DEF DelayInv, Limited, Durations
<1>2. policy.MaxDelay \in Int
  BY DEF DelayInv, Durations
<1>3. Limited \in Int /\ Limited >= 1 /\ Limited <= policy.MaxDelay
  BY <1>1, <1>2
<1>4. Limited \div 2 \in Nat /\ 2 * (Limited \div 2) <= Limited
  BY <1>3
<1> QED
  BY <1>1, <1>2, <1>3, <1>4

(* Each step preserves the bounds.                                         *)
LEMMA DelayInvStep == DelayInv /\ [Next]_vars => DelayInv'
<1> SUFFICES ASSUME DelayInv, [Next]_vars PROVE DelayInv'
  OBVIOUS
<1>0. policy.MaxDelay \in Int /\ policy.MaxDelay > 0 /\ policy.MaxDelay \in Durations
  BY DEF DelayInv, Durations
<1>1. CASE UNCHANGED vars
  BY <1>1 DEF vars, DelayInv, DelayWithinMax
<1>2. CASE GiveUp \/ Cancelled
  BY <1>2 DEF GiveUp, Cancelled, DelayInv, DelayWithinMax
<1>3. CASE WaitAsTold
  <2>1. PICK h \in Headers : delay' = Least(parseRetryAfter(h), policy.MaxDelay)
    BY <1>3 DEF WaitAsTold
  <2>2. parseRetryAfter(h) \in Durations
    BY RetryAfterFits
  <2>3. delay' \in Durations /\ delay' <= policy.MaxDelay
    BY <1>0, <2>1, <2>2 DEF Least, Durations
  <2> QED
    BY <1>3, <2>3 DEF WaitAsTold, DelayInv, DelayWithinMax
<1>4. CASE StartDoubling
  BY <1>4 DEF StartDoubling, DelayInv, DelayWithinMax
<1>5. CASE Double
  <2>1. d' \in Durations
    BY <1>5, WrapFits DEF Double, DelayInv, Durations
  <2> QED
    BY <1>5, <2>1 DEF Double, DelayInv, DelayWithinMax
<1>6. CASE Jitter
  <2>1. delay' \in 0..policy.MaxDelay
    BY <1>6, LimitedInRange DEF Jitter
  <2>2. delay' \in Durations /\ delay' <= policy.MaxDelay
    BY <1>0, <2>1, WidthAssumption DEF Durations
  <2> QED
    BY <1>6, <2>2 DEF Jitter, DelayInv, DelayWithinMax
<1>7. CASE WakeUp
  <2>1. /\ attempt \in Nat /\ attempt < policy.MaxRetries
        /\ slept \in Nat /\ slept <= attempt * policy.MaxDelay
        /\ delay \in Int /\ delay <= policy.MaxDelay
        /\ policy.MaxRetries \in Nat
    BY <1>7 DEF WakeUp, DelayInv, DelayWithinMax, Durations
  <2>2. attempt' \in 0..policy.MaxRetries
    BY <1>7, <2>1 DEF WakeUp
  <2>3. (attempt + 1) * policy.MaxDelay = attempt * policy.MaxDelay + policy.MaxDelay
    BY <1>0, <2>1
  <2>4. slept' \in Nat /\ slept' <= slept + policy.MaxDelay
    BY <1>0, <1>7, <2>1 DEF WakeUp
  <2>5. attempt * policy.MaxDelay \in Int
    BY <1>0, <2>1
  <2>6. slept' <= attempt' * policy.MaxDelay
    BY <1>0, <1>7, <2>1, <2>3, <2>4, <2>5 DEF WakeUp
  <2> QED
    BY <1>7, <2>2, <2>4, <2>6 DEF WakeUp, DelayInv, DelayWithinMax
<1> QED
  BY <1>1, <1>2, <1>3, <1>4, <1>5, <1>6, <1>7 DEF Next

(* For every width, policy and header: delays within MaxDelay, attempts    *)
(* within MaxRetries.                                                      *)
THEOREM DelaysBounded == Spec => []DelayInv
  BY DelayInvInit, DelayInvStep, PTL DEF Spec

(* A call sleeps no longer than all its retries at the longest delay.      *)
THEOREM TotalSleepBounded == Spec => []SleepIsBounded
<1>1. DelayInv => SleepIsBounded
  <2> SUFFICES ASSUME DelayInv PROVE slept <= policy.MaxRetries * policy.MaxDelay
    BY DEF SleepIsBounded
  <2>1. /\ attempt \in Nat /\ policy.MaxRetries \in Nat /\ attempt <= policy.MaxRetries
        /\ policy.MaxDelay \in Nat
        /\ slept \in Nat /\ slept <= attempt * policy.MaxDelay
    BY DEF DelayInv, Durations
  <2>2. attempt * policy.MaxDelay <= policy.MaxRetries * policy.MaxDelay
    <3>1. (policy.MaxRetries - attempt) * policy.MaxDelay >= 0
      BY <2>1
    <3> QED
      BY <2>1, <3>1
  <2>3. attempt * policy.MaxDelay \in Int /\ policy.MaxRetries * policy.MaxDelay \in Int
    BY <2>1
  <2> QED
    BY <2>1, <2>2, <2>3
<1> QED
  BY <1>1, DelaysBounded, PTL

(* The draw of the jitter never panics, whatever the doubling wrapped to.  *)
THEOREM DrawNeverPanics == Spec => []DrawIsLegal
<1>1. DelayInv => DrawIsLegal
  BY LimitedInRange DEF DrawIsLegal
<1> QED
  BY <1>1, DelaysBounded, PTL

(* The only negative delays are those of a number of seconds that          *)
(* overflows.                                                              *)
THEOREM OnlyOverflowIsNegative == Spec => []NonNegativeDelay
<1>1. Init => NonNegativeDelay
  BY DEF Init, NonNegativeDelay
<1>2. DelayInv /\ NonNegativeDelay /\ [Next]_vars => NonNegativeDelay'
  <2> SUFFICES ASSUME DelayInv, NonNegativeDelay, [Next]_vars
               PROVE  NonNegativeDelay'
    OBVIOUS
  <2>1. CASE WaitAsTold
    <3>1. PICK h \in Headers :
            /\ SaysWhen(h) /\ header' = h
            /\ delay' = Least(parseRetryAfter(h), policy.MaxDelay)
      BY <2>1 DEF WaitAsTold
    <3>2. policy.MaxDelay \in Int /\ policy.MaxDelay > 0
      BY DEF DelayInv, Durations
    <3>3. parseRetryAfter(h) \in Int
      BY RetryAfterFits DEF Durations
    <3> QED
      BY <3>1, <3>2, <3>3, RetryAfterFits DEF NonNegativeDelay, Least
  <2>2. CASE Jitter
    BY <2>2, LimitedInRange DEF Jitter, NonNegativeDelay, DelayInv, Durations
  <2>3. CASE GiveUp \/ StartDoubling \/ Double \/ WakeUp \/ Cancelled
    BY <2>3 DEF GiveUp, StartDoubling, Double, WakeUp, Cancelled, NonNegativeDelay
  <2>4. CASE UNCHANGED vars
    BY <2>4 DEF vars, NonNegativeDelay
  <2> QED
    BY <2>1, <2>2, <2>3, <2>4 DEF Next
<1> QED
  BY <1>1, <1>2, DelaysBounded, PTL DEF Spec

-----------------------------------------------------------------------------
(* Doubling                                                                *)

(* The powers of two are what their recursion says.                        *)
LEMMA PowersDouble ==
    /\ Pow2[0] = 1
    /\ \A n \in Nat : Pow2[n + 1] = 2 * Pow2[n]
<1> DEFINE F(f) == f = [n \in Nat |-> IF n = 0 THEN 1 ELSE 2 * f[n - 1]]
<1>1. \E f : F(f)
  <2> DEFINE g == [n \in Nat |-> [x \in Int |-> 2 * x]]
  <2>1. g \in [Nat -> [Int -> Int]] /\ 1 \in Int
    OBVIOUS
  <2>2. \A n \in Nat, x \in Int : g[n][x] = 2 * x
    OBVIOUS
  <2> HIDE DEF g
  <2>3. PICK f \in [Nat -> Int] : Recurs(1, g, f)
    BY <2>1, Recursion
  <2>4. ASSUME NEW n \in Nat PROVE f[n] = IF n = 0 THEN 1 ELSE 2 * f[n - 1]
    <3>1. CASE n = 0
      BY <2>3, <3>1 DEF Recurs
    <3>2. CASE n # 0
      <4>1. n - 1 \in Nat /\ (n - 1) + 1 = n
        BY <3>2
      <4>2. f[n - 1] \in Int /\ f[(n - 1) + 1] = g[n - 1][f[n - 1]]
        BY <2>3, <4>1 DEF Recurs
      <4> QED
        BY <2>2, <3>2, <4>1, <4>2
    <3> QED
      BY <3>1, <3>2
  <2>5. f = [n \in Nat |-> f[n]]
    BY <2>3
  <2>6. F(f)
    BY <2>4, <2>5
  <2> QED
    BY <2>6
<1>2. F(Pow2)
  BY <1>1 DEF Pow2
<1>3. \A n \in Nat : Pow2[n] = IF n = 0 THEN 1 ELSE 2 * Pow2[n - 1]
  BY <1>2
<1>4. \A n \in Nat : n + 1 \in Nat /\ n + 1 # 0 /\ (n + 1) - 1 = n
  OBVIOUS
<1> HIDE DEF F
<1> QED
  BY <1>3, <1>4

(* They are positive and grow.                                             *)
LEMMA PowersGrow ==
    /\ \A n \in Nat : Pow2[n] \in Nat /\ Pow2[n] >= 1
    /\ \A m \in Nat, n \in Nat : m <= n => Pow2[m] <= Pow2[n]
<1>1. \A n \in Nat : Pow2[n] \in Nat /\ Pow2[n] >= 1
  <2> DEFINE S == {n \in Nat : Pow2[n] \in Nat /\ Pow2[n] >= 1}
  <2>1. 0 \in S
    BY PowersDouble
  <2>2. ASSUME NEW n \in Nat, n \in S PROVE n + 1 \in S
    BY <2>2, PowersDouble
  <2> HIDE DEF S
  <2>3. \A n \in Nat : n \in S
    BY <2>1, <2>2, Induction
  <2> QED
    BY <2>3 DEF S
<1>2. ASSUME NEW m \in Nat PROVE \A n \in Nat : m <= n => Pow2[m] <= Pow2[n]
  <2> DEFINE S == {n \in Nat : m <= n => Pow2[m] <= Pow2[n]}
  <2>1. 0 \in S
    BY <1>1
  <2>2. ASSUME NEW n \in Nat, n \in S PROVE n + 1 \in S
    <3>1. Pow2[n + 1] = 2 * Pow2[n] /\ Pow2[n] \in Nat /\ Pow2[m] \in Nat
      BY <1>1, PowersDouble
    <3>2. CASE m <= n
      BY <2>2, <3>1, <3>2
    <3>3. CASE m = n + 1
      BY <3>1, <3>3, <1>1
    <3> QED
      BY <3>2, <3>3
  <2> HIDE DEF S
  <2>3. \A n \in Nat : n \in S
    BY <2>1, <2>2, Induction
  <2> QED
    BY <2>3 DEF S
<1> QED
  BY <1>1, <1>2

(* While the delay doubles it is a power of two times BaseDelay: if        *)
(* MaxDelay can be doubled so can what is below it, without wrapping.      *)
DoublesBase ==
    pc = "doubling" /\ 2 * policy.MaxDelay <= Half
        => i \in 0..attempt /\ d = policy.BaseDelay * Pow2[i]

(* Every step keeps it.                                                    *)
LEMMA DoublesBaseStep == DelayInv /\ DoublesBase /\ [Next]_vars => DoublesBase'
<1> SUFFICES ASSUME DelayInv, DoublesBase, [Next]_vars,
                    pc' = "doubling", 2 * policy'.MaxDelay <= Half
             PROVE  i' \in 0..attempt' /\ d' = policy'.BaseDelay * Pow2[i']
  BY DEF DoublesBase
<1>1. /\ policy.MaxDelay \in Nat /\ policy.BaseDelay \in Nat /\ policy.BaseDelay > 0
      /\ attempt \in Nat
      /\ Half \in Nat /\ d \in Int
  BY WidthAssumption DEF DelayInv, Durations
<1>2. CASE StartDoubling
  BY <1>1, <1>2, PowersDouble DEF StartDoubling
<1>3. CASE Double
  <2>1. /\ pc = "doubling" /\ i < attempt /\ d < policy.MaxDelay
        /\ i' = i + 1 /\ d' = Wrap(2 * d) /\ UNCHANGED <<policy, attempt>>
    BY <1>3 DEF Double, Doubling
  <2>2. i \in 0..attempt /\ d = policy.BaseDelay * Pow2[i]
    BY <2>1 DEF DoublesBase
  <2>3. Pow2[i] \in Nat /\ Pow2[i + 1] = 2 * Pow2[i]
    BY <1>1, <2>2, PowersDouble, PowersGrow
  <2>4. d >= 0
    BY <1>1, <2>2, <2>3
  <2>5. 2 * d \in Durations
    BY <1>1, <2>1, <2>4 DEF Durations
  <2>6. d' = 2 * d
    BY <2>1, <2>5, WrapIsIdentity
  <2>7. 2 * d = policy.BaseDelay * Pow2[i + 1]
    BY <1>1, <2>2, <2>3
  <2> QED
    BY <1>1, <2>1, <2>2, <2>6, <2>7
<1>4. CASE GiveUp \/ WaitAsTold \/ Jitter \/ WakeUp \/ Cancelled
  BY <1>4 DEF GiveUp, WaitAsTold, Jitter, WakeUp, Cancelled
<1>5. CASE UNCHANGED vars
  BY <1>5 DEF vars, DoublesBase
<1> QED
  BY <1>2, <1>3, <1>4, <1>5 DEF Next

(* When the doubling is over, the limit makes of it what ExponentialDelay  *)
(* says.                                                                   *)
LEMMA LimitedIsFull ==
    ASSUME DelayInv, DoublesBase, pc = "doubling", ~Doubling, 2 * policy.MaxDelay <= Half
    PROVE  Limited = Least(policy.BaseDelay * Pow2[attempt], policy.MaxDelay)
<1>1. /\ policy.MaxDelay \in Nat /\ policy.MaxDelay > 0
      /\ policy.BaseDelay \in Nat /\ policy.BaseDelay > 0
      /\ attempt \in Nat /\ d \in Int
  BY DEF DelayInv, Durations
<1>2. i \in 0..attempt /\ d = policy.BaseDelay * Pow2[i]
  BY DEF DoublesBase
<1>3. /\ Pow2[i] \in Nat /\ Pow2[i] >= 1 /\ Pow2[attempt] \in Nat
      /\ Pow2[i] <= Pow2[attempt]
  BY <1>1, <1>2, PowersGrow
<1> DEFINE B == policy.BaseDelay
           M == policy.MaxDelay
           p == Pow2[i]
           q == Pow2[attempt]
<1>4. B \in Nat /\ B > 0 /\ M \in Nat /\ M > 0 /\ p \in Nat /\ q \in Nat /\ p >= 1 /\ p <= q
      /\ d = B * p
  BY <1>1, <1>2, <1>3
<1>5. i = attempt => p = q
  OBVIOUS
<1>6. i = attempt \/ d >= M
  BY <1>1, <1>2 DEF Doubling
<1>7. Limited = (IF d > M \/ d <= 0 THEN M ELSE d)
  BY DEF Limited
<1> HIDE DEF B, M, p, q
<1>8. d > 0 /\ B * p <= B * q /\ B * q \in Nat
  <2>1. B * p >= 1 /\ B * (q - p) >= 0
    BY <1>4
  <2> QED
    BY <1>4, <2>1
<1>9. Limited = Least(B * q, M)
  BY <1>1, <1>4, <1>5, <1>6, <1>7, <1>8 DEF Least
<1> QED
  BY <1>9 DEF B, M, q

(* The delay before a retry lies between half of and all of BaseDelay      *)
(* doubled once for every retry before, limited by MaxDelay.               *)
THEOREM DelayIsExponential == Spec => []ExponentialDelay
<1>1. Init => DoublesBase /\ ExponentialDelay
  BY DEF Init, DoublesBase, ExponentialDelay
<1>2. DelayInv /\ DoublesBase /\ ExponentialDelay /\ [Next]_vars => ExponentialDelay'
  <2> SUFFICES ASSUME DelayInv, DoublesBase, ExponentialDelay, [Next]_vars
               PROVE  ExponentialDelay'
    OBVIOUS
  <2>1. CASE WaitAsTold
    BY <2>1 DEF WaitAsTold, ExponentialDelay
  <2>2. CASE Jitter
    <3> DEFINE full == Least(policy.BaseDelay * Pow2[attempt], policy.MaxDelay)
    <3>1. /\ pc = "doubling" /\ ~Doubling
          /\ \E r \in 0..(Limited \div 2) : delay' = (Limited \div 2) + r
          /\ UNCHANGED <<policy, attempt, header>>
      BY <2>2 DEF Jitter
    <3>2. ASSUME 2 * policy.MaxDelay <= Half PROVE delay' \in (full \div 2)..full
      <4>1. Limited = full /\ Limited \in 1..policy.MaxDelay
        BY <3>1, <3>2, LimitedIsFull, LimitedInRange
      <4>2. policy.MaxDelay \in Nat
        BY DEF DelayInv, Durations
      <4> HIDE DEF full
      <4>3. full \in Nat /\ full \div 2 \in Nat /\ 2 * (full \div 2) <= full
        BY <4>1, <4>2
      <4>4. PICK r \in 0..(full \div 2) : delay' = (full \div 2) + r
        BY <3>1, <4>1
      <4> QED
        BY <4>3, <4>4
    <3> QED
      BY <3>1, <3>2 DEF ExponentialDelay
  <2>3. CASE GiveUp \/ StartDoubling \/ Double \/ WakeUp \/ Cancelled
    BY <2>3 DEF GiveUp, StartDoubling, Double, WakeUp, Cancelled, ExponentialDelay
  <2>4. CASE UNCHANGED vars
    BY <2>4 DEF vars, ExponentialDelay
  <2> QED
    BY <2>1, <2>2, <2>3, <2>4 DEF Next
<1> QED
  BY <1>1, <1>2, DoublesBaseStep, DelaysBounded, PTL DEF Spec
=============================================================================
