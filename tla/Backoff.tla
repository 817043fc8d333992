------------------------------- MODULE Backoff -------------------------------
(***************************************************************************)
(* computeBackoff of internal/runner, over machine integers of Width bits. *)
(* A behaviour follows a run that keeps failing: the delay of attempt 0,   *)
(* of attempt 1, ...                                                       *)
(***************************************************************************)
EXTENDS Integers

CONSTANTS
  Width,        \* bits of time.Duration (64)
  Second,       \* units in a second (10^9)
  MaxBase,      \* bound on retry_backoff_sec
  MaxAttempt    \* bound on the attempt

ASSUME BackoffAssumption ==
  /\ Width \in Nat \ {0, 1} /\ Second \in Nat \ {0}
  /\ MaxBase \in Nat /\ MaxAttempt \in Nat

\* What the power is, which the provers do not know.
ASSUME PowersOfTwo ==
  \A n \in 1..(IF Width > MaxAttempt THEN Width ELSE MaxAttempt) : 2^n = 2 * 2^(n - 1)

VARIABLES baseSec, attempt

backoffVars == <<baseSec, attempt>>

\* Go's conversion to a signed integer of Width bits, and its division.
Wrap(x)   == ((x + 2^(Width - 1)) % 2^Width) - 2^(Width - 1)
Quo(x, y) == IF x >= 0 THEN x \div y ELSE -((-x) \div y)

\* Variants of definitions below, each with one plausible mistake.
HalfOf(backoff)  == Quo(backoff, 2)

\* 1 << attempt
Shift(n) == IF n < Width THEN Wrap(2^n) ELSE 0

AtLeastOne(b) == IF b <= 0 THEN 1 ELSE b

BackoffOf(b, n) == Wrap(Wrap(AtLeastOne(b) * Second) * Shift(n))

JitterRange(backoff) == Quo(backoff, 5)

\* Every delay the random number may lead to.
Delays(b, n) ==
  LET backoff == BackoffOf(b, n)
      jitter  == JitterRange(backoff)
  IN  IF jitter <= 0 THEN {backoff}
      ELSE {Wrap(backoff + d - jitter) : d \in 0..(2 * jitter)}

BackoffInit == baseSec \in 0..MaxBase /\ attempt = 0

\* processOne queues the next attempt.
Retry ==
  /\ attempt < MaxAttempt
  /\ attempt' = attempt + 1
  /\ UNCHANGED baseSec

BackoffSpec == BackoffInit /\ [][Retry]_backoffVars

-----------------------------------------------------------------------------
(* Properties *)

\* The delay a reader of the documentation expects, and whether it fits, with
\* its jitter, in a Duration.
Exact(n) == AtLeastOne(baseSec) * Second * 2^n
Fits(n)  == Exact(n) + Exact(n) \div 5 < 2^(Width - 1)

\* A delay is positive and within a fifth of base * 2^attempt, as long as that
\* fits; nothing in the API keeps retry_max and retry_backoff_sec so small.
WithinAFifth ==
  Fits(attempt) =>
    \A d \in Delays(baseSec, attempt) :
      /\ d > 0
      /\ 5 * d >= 4 * Exact(attempt) /\ 5 * d <= 6 * Exact(attempt)

=============================================================================
