------------------------------- MODULE Backoff -------------------------------
(***************************************************************************)
(* The delays between the attempts of send (src/retry.go:20-118 and        *)
(* src/transport.go:207-226): a policy with its defaults filled in, the    *)
(* exponential delay with its jitter, the server's Retry-After.  Transport *)
(* says when a call is tried again; this module says after how long.       *)
(*                                                                         *)
(* A time.Duration is a signed 64-bit count of nanoseconds: it lies in     *)
(* -Half..Half-1 with Half = 2^63, and sums and products wrap around.      *)
(***************************************************************************)
EXTENDS Integers

CONSTANTS Half,             \* 2^63 in the code
          Second,           \* time.Second
          DefaultRetries,   \* 2
          DefaultBase,      \* 200 * time.Millisecond
          DefaultMax,       \* 5 * time.Second
          Policies,         \* the RetryPolicy values callers pass to WithRetry
          Headers           \* the Retry-After headers the server sends

Durations == -Half..(Half - 1)

ASSUME WidthAssumption ==
    /\ Half \in Nat \ {0}
    /\ Second \in Durations /\ Second > 0
ASSUME DefaultsAssumption ==
    /\ DefaultRetries \in Nat \ {0}
    /\ DefaultBase \in Durations /\ DefaultBase > 0
    /\ DefaultMax \in Durations /\ DefaultMax > 0

(* The delays of a policy as a caller gives it: anything an int and a      *)
(* time.Duration hold.                                                     *)
ASSUME PoliciesAssumption ==
    \A p \in Policies :
        p \in [MaxRetries : Int, BaseDelay : Durations, MaxDelay : Durations]

(* A header that says a number of seconds, a date n nanoseconds from now   *)
(* (time.Until saturates), neither, or that is missing (also when there is *)
(* no response at all).                                                    *)
ASSUME HeadersAssumption ==
    \A h \in Headers :
        /\ h.kind \in {"seconds", "date", "other", "missing"}
        /\ h.n \in Durations

Wrap(x) == ((x + Half) % (2 * Half)) - Half

Least(x, y) == IF x <= y THEN x ELSE y

OrDefault(x, default) == IF x <= 0 THEN default ELSE x

normalized(p) ==
    [MaxRetries |-> OrDefault(p.MaxRetries, DefaultRetries),
     BaseDelay  |-> OrDefault(p.BaseDelay, DefaultBase),
     MaxDelay   |-> OrDefault(p.MaxDelay, DefaultMax)]

SaysWhen(h) == h.kind = "date" \/ (h.kind = "seconds" /\ h.n >= 0)

(* Variant: a date in the past is a negative delay.                        *)
parsePastDate(h) == IF h.kind = "seconds" THEN Wrap(h.n * Second) ELSE h.n

parseRetryAfter(h) ==
    IF h.kind = "seconds" THEN Wrap(h.n * Second)
                          ELSE IF h.n < 0 THEN 0 ELSE h.n

-----------------------------------------------------------------------------
VARIABLES policy,           \* the normalised policy of the client
          attempt,          \* send's loop counter
          header,           \* Retry-After of the last answer
          pc,               \* "request", "doubling", "sleep" or "over"
          i, d,             \* the loop of backoff
          delay,            \* what backoff returned
          slept             \* history: time slept by this call so far

vars == <<policy, attempt, header, pc, i, d, delay, slept>>

Missing == [kind |-> "missing", n |-> 0]

Init ==
    /\ policy \in {normalized(p) : p \in Policies}
    /\ attempt = 0
    /\ header = Missing
    /\ pc = "request"
    /\ i = 0
    /\ d = 0
    /\ delay = 0
    /\ slept = 0

(* Nothing to retry, or no attempt left.                                   *)
GiveUp ==
    /\ pc = "request"
    /\ pc' = "over"
    /\ UNCHANGED <<policy, attempt, header, i, d, delay, slept>>

(* Variant: the server's delay as it is.                                   *)
WaitAsToldUncapped ==
    /\ pc = "request"
    /\ attempt < policy.MaxRetries
    /\ \E h \in Headers :
          /\ SaysWhen(h)
          /\ header' = h
          /\ delay' = parseRetryAfter(h)
    /\ pc' = "sleep"
    /\ UNCHANGED <<policy, attempt, i, d, slept>>

(* A retryable answer that says when: backoff returns at once.             *)
WaitAsTold ==
    /\ pc = "request"
    /\ attempt < policy.MaxRetries
    /\ \E h \in Headers :
          /\ SaysWhen(h)
          /\ header' = h
          /\ delay' = Least(parseRetryAfter(h), policy.MaxDelay)
    /\ pc' = "sleep"
    /\ UNCHANGED <<policy, attempt, i, d, slept>>

(* A retryable answer that does not, or an error.                          *)
StartDoubling ==
    /\ pc = "request"
    /\ attempt < policy.MaxRetries
    /\ \E h \in Headers \cup {Missing} : ~SaysWhen(h) /\ header' = h
    /\ i' = 0
    /\ d' = policy.BaseDelay
    /\ pc' = "doubling"
    /\ UNCHANGED <<policy, attempt, delay, slept>>

(* Variant: one doubling too many.                                         *)
DoublingOnceMore == i <= attempt /\ d < policy.MaxDelay

Doubling == i < attempt /\ d < policy.MaxDelay

Double ==
    /\ pc = "doubling"
    /\ Doubling
    /\ i' = i + 1
    /\ d' = Wrap(2 * d)
    /\ UNCHANGED <<policy, attempt, header, pc, delay, slept>>

(* Variants: the limit is not applied after the loop; a delay that has     *)
(* wrapped around is not noticed.                                          *)
LimitedNever == IF d <= 0 THEN policy.MaxDelay ELSE d
LimitedAbove == IF d > policy.MaxDelay THEN policy.MaxDelay ELSE d

Limited == IF d > policy.MaxDelay \/ d <= 0 THEN policy.MaxDelay ELSE d

(* Half of the delay is fixed, the rest is drawn.                          *)
Jitter ==
    /\ pc = "doubling"
    /\ ~Doubling
    /\ LET half == Limited \div 2
       IN  \E r \in 0..half : delay' = half + r
    /\ pc' = "sleep"
    /\ UNCHANGED <<policy, attempt, header, i, d, slept>>

(* sleepCtx returns nil; a delay that is not positive is no sleep.         *)
WakeUp ==
    /\ pc = "sleep"
    /\ attempt' = attempt + 1
    /\ slept' = slept + IF delay > 0 THEN delay ELSE 0
    /\ pc' = "request"
    /\ UNCHANGED <<policy, header, i, d, delay>>

(* sleepCtx returns the error of the context.                              *)
Cancelled ==
    /\ pc = "sleep"
    /\ pc' = "over"
    /\ UNCHANGED <<policy, attempt, header, i, d, delay, slept>>

Next == \/ GiveUp \/ WaitAsTold \/ StartDoubling \/ Double \/ Jitter
        \/ WakeUp \/ Cancelled

Spec == Init /\ [][Next]_vars

-----------------------------------------------------------------------------
(* Properties                                                              *)

(* No delay exceeds the policy's MaxDelay, whatever the server asks for    *)
(* and however often the delay doubles, overflow included                  *)
(* (src/retry.go:79-90, "单次退避上限").                                         *)
DelayWithinMax == pc = "sleep" => delay <= policy.MaxDelay

Pow2[n \in Nat] == IF n = 0 THEN 1 ELSE 2 * Pow2[n - 1]

(* Without Retry-After, and with a MaxDelay that can be doubled, the delay *)
(* before retry number attempt + 1 lies between half of and all of         *)
(* BaseDelay * 2^attempt, limited by MaxDelay; computed here without       *)
(* overflow and without a loop (src/retry.go:86-95).                       *)
ExponentialDelay ==
    pc = "sleep" /\ ~SaysWhen(header) /\ 2 * policy.MaxDelay <= Half
        => LET full == Least(policy.BaseDelay * Pow2[attempt], policy.MaxDelay)
           IN  delay \in (full \div 2)..full

(* One call never sleeps longer than MaxRetries times MaxDelay, however it *)
(* comes by its delays (src/transport.go:215-224).                         *)
SleepIsBounded == slept <= policy.MaxRetries * policy.MaxDelay

(* Outside the overflow of a number of seconds no delay is negative: what  *)
(* the server asks for in the past is "now" (src/retry.go:110-116).        *)
NonNegativeDelay ==
    pc = "sleep" /\ (header.kind = "seconds" => header.n * Second < Half)
        => delay >= 0

(* The jitter is drawn from a range that is not empty: rand.Int64N panics  *)
(* otherwise, and the doubling may have wrapped around to a negative delay *)
(* before the limit is applied (src/retry.go:87-95).                       *)
DrawIsLegal == pc = "doubling" /\ ~Doubling => Limited \div 2 >= 0

(* README.md:141: "优先尊重 `Retry-After`".  The delay is the one the server asks *)
(* for, within the limit of the policy.                                    *)
RetryAfterHonoured ==
    pc = "sleep" /\ header.kind = "seconds" /\ header.n >= 0
        => delay = Least(header.n * Second, policy.MaxDelay)

(* The inductive invariant behind the bounds.                              *)
DelayInv ==
    /\ policy \in [MaxRetries : Nat \ {0}, BaseDelay : Durations, MaxDelay : Durations]
    /\ policy.BaseDelay > 0 /\ policy.MaxDelay > 0
    /\ attempt \in 0..policy.MaxRetries
    /\ pc \in {"request", "doubling", "sleep", "over"}
    /\ pc \in {"doubling", "sleep"} => attempt < policy.MaxRetries
    /\ d \in Durations
    /\ delay \in Durations
    /\ slept \in Nat /\ slept <= attempt * policy.MaxDelay
    /\ DelayWithinMax
=============================================================================
