------------------------------ MODULE Backoff ------------------------------
(***************************************************************************)
(* How long MakeRequest waits: delayFor, backoffFor, parseRetryAfter and   *)
(* timeoutDuration of pkg/httpclient/client.go, over one call that fails   *)
(* again and again.  Durations and int have Width bits, and Second units   *)
(* make a second; a build has 64 and nanoseconds.  What an attempt is and  *)
(* when it ends is in HttpClient.                                          *)
(***************************************************************************)
EXTENDS Integers, FiniteSetsExt

CONSTANTS
  backoffBase, backoffMax,
  Second,
  Width,
  MaxRetries,
  Headers,    (* the Retry-After values a 429 may carry                    *)
  Timeouts    (* values of opts.Timeout, unsigned                          *)

(* A header is absent, a number of seconds, a date that many units ahead,  *)
(* or text that is neither.                                                *)
Absent == [form |-> "absent", n |-> 0]
Garbage == [form |-> "garbage", n |-> 0]
Seconds(n) == [form |-> "seconds", n |-> n]
Date(n) == [form |-> "date", n |-> n]

Modulus == 2^Width
MaxDuration == Modulus \div 2 - 1
Signed(n) == LET m == n % Modulus IN IF m > MaxDuration THEN m - Modulus ELSE m

ASSUME BackoffAssumption ==
  /\ Width \in Nat \ {0}
  /\ MaxRetries \in Nat
  /\ Second \in 1..MaxDuration
  /\ backoffMax \in 1..MaxDuration /\ backoffBase \in 1..backoffMax
  /\ Headers \subseteq [form : {"absent", "garbage", "seconds", "date"}, n : Int]
  /\ Timeouts \subseteq 0..Modulus - 1

(* When the shift leaves the width it has left the cap far behind: with    *)
(* 500 ms, 30 s and 64 bits it does so at 2^35, and 2^35 ns are over 34 s. *)
ASSUME ShiftAssumption ==
  \A s \in 0..MaxRetries : backoffBase * 2^s > MaxDuration => 2^s > backoffMax

VARIABLES
  attempt,   (* of MakeRequest's loop                                      *)
  limited,   (* the last error is a rateLimitedError                       *)
  header,    (* history: the header it was made from                       *)
  hint,      (* its RetryAfter                                             *)
  delay,     (* what the call waits before this attempt                    *)
  timeout,   (* opts.Timeout                                               *)
  allowed    (* the duration the attempts are given                        *)

backoffVars == <<attempt, limited, header, hint, delay, timeout, allowed>>
-----------------------------------------------------------------------------
(* uint seconds to a duration; ParseInt refuses what does not fit in int64 *)
(* and the longest duration stands for what does not fit in nanoseconds.   *)
OnlyParsed(t) ==     (* a mutant: the error of ParseInt is all it checks   *)
  IF t > MaxDuration THEN MaxDuration ELSE Signed(t * Second)

timeoutDuration(t) ==
  IF t > MaxDuration \div Second THEN MaxDuration ELSE t * Second

(* Atoi fails for what does not fit in an int.                             *)
parseRetryAfter(h) ==
  CASE h.form = "seconds" ->
         IF h.n \notin 0..MaxDuration THEN 0 ELSE Signed(h.n * Second)
    [] h.form = "date" -> IF h.n < 0 THEN 0 ELSE h.n
    [] OTHER -> 0

(* base << (attempt - 1); a wrapped shift shows as zero, a negative or a   *)
(* long delay, and all of them mean backoffMax.                            *)
CappedAbove(d) == IF d > backoffMax THEN backoffMax ELSE d     (* a mutant *)

Capped(d) == IF d <= 0 \/ d > backoffMax THEN backoffMax ELSE d

(* The delays backoffFor may answer: rand.Int may fail, and otherwise adds *)
(* 0 to half of the delay.                                                 *)
backoffFor(k) ==
  LET d == Capped(Signed(backoffBase * 2^(k - 1)))
  IN  {d + j : j \in 0..d \div 2}

(* A hint has the cap and no jitter.                                       *)
HintUncapped(h) == h     (* a mutant *)

HintCapped(h) == IF h > backoffMax THEN backoffMax ELSE h

(* A hint counts when it is positive.                                      *)
HintOfAny(isLimited, h) == isLimited     (* a mutant *)

HasHint(isLimited, h) == isLimited /\ h > 0

delayFor(isLimited, h, k) ==
  IF HasHint(isLimited, h) THEN {HintCapped(h)} ELSE backoffFor(k)
-----------------------------------------------------------------------------
BackoffInit ==
  /\ attempt = 0
  /\ limited = FALSE /\ header = Absent /\ hint = 0
  /\ delay = 0
  /\ timeout \in Timeouts
  /\ allowed = timeoutDuration(timeout)

(* The attempt ends in a retryable error, and the loop comes round to the  *)
(* next one.                                                               *)
Retries(isLimited, h) ==
  /\ attempt < MaxRetries
  /\ attempt' = attempt + 1
  /\ limited' = isLimited /\ header' = h /\ hint' = parseRetryAfter(h)
  /\ delay' \in delayFor(isLimited, hint', attempt')
  /\ UNCHANGED <<timeout, allowed>>

FailsOtherwise == Retries(FALSE, Absent)
RateLimited == \E h \in Headers : Retries(TRUE, h)

(* The loop is over, or an attempt ended it.                               *)
CallEnds == attempt >= MaxRetries /\ UNCHANGED backoffVars

BackoffNext == FailsOtherwise \/ RateLimited \/ CallEnds

BackoffSpec == BackoffInit /\ [][BackoffNext]_backoffVars
-----------------------------------------------------------------------------
(* However many retries there are, each one waits, and never for more than *)
(* the cap and its jitter: the shift of backoffFor wraps to zero or below  *)
(* for a large attempt, a Retry-After in seconds wraps to anything         *)
(* (client.go:125-142, 272).                                               *)
EveryRetryWaits == attempt > 0 => delay \in 1..backoffMax + backoffMax \div 2

(* Without a hint, delay k is base * 2^(k-1) in whole numbers, or the cap, *)
(* plus at most half of that (client.go:122-124).                          *)
Planned(k) == Min({backoffBase * 2^(k - 1), backoffMax})

BackoffGrows ==
  attempt > 0 /\ header \in {Absent, Garbage}
    => delay \in Planned(attempt)..Planned(attempt) + Planned(attempt) \div 2

(* A Retry-After that fits in a duration is waited for, up to the cap; one *)
(* that is zero or in the past gives way to the backoff                    *)
(* (client.go:108-119, 264-282).                                           *)
Asked(h) == CASE h.form = "seconds" -> h.n * Second
              [] h.form = "date" -> h.n
              [] OTHER -> 0

HintsAreWaitedFor ==
  attempt > 0 /\ Asked(header) \in 1..MaxDuration
    => delay = Min({Asked(header), backoffMax})

(* A Timeout of any value allows an attempt that long, or the longest      *)
(* duration there is, and never wraps to a deadline already past           *)
(* (client.go:229-235).                                                    *)
TimeoutNeverShort == allowed = Min({timeout * Second, MaxDuration})
=============================================================================
