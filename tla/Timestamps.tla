----------------------------- MODULE Timestamps -----------------------------
(***************************************************************************)
(* Instants in job_runs are texts (RFC3339Nano, UTC) and ClaimNextDue      *)
(* compares them as texts.  The format drops the zeros at the end of the   *)
(* fraction, and the point with them, so the order of texts is not the     *)
(* order of instants.  A behaviour follows the clock past a queued run.    *)
(*                                                                         *)
(* What comes before the seconds is of fixed width and left out; digits of *)
(* the fraction are Digits instead of nine.                                *)
(* A run replayed at a whole second waits for the next one, and one with a *)
(* fraction may be claimed before its instant; both within its second.     *)
(***************************************************************************)
EXTENDS Integers, SequencesExt

CONSTANTS
  Digits,   \* digits of the fraction
  MaxSec    \* bound on the seconds (59)

Unit == 10^Digits   \* instants in a second
MaxTime == (MaxSec + 1) * Unit - 1

ASSUME TimestampsAssumption == Digits \in Nat \ {0} /\ MaxSec \in 0..59

\* What the power is, which the provers do not know.
ASSUME PowersOfTen == \A n \in 1..Digits : 10^n = 10 * 10^(n - 1)

VARIABLES at, now   \* scheduled_at of the run, the clock

clockVars == <<at, now>>

\* ASCII
Point == 46
Zero  == 48
Zulu  == 90

Sec(t) == t \div Unit

Seconds(t) == <<Zero + (Sec(t) \div 10), Zero + (Sec(t) % 10)>>

\* The digit at a place after the point.
Digit(t, i) == (t \div 10^(Digits - i)) % 10

Fraction(t) ==
  LET places == {i \in 1..Digits : Digit(t, i) # 0}
  IN  IF places = {} THEN <<>>
      ELSE <<Point>> \o [i \in 1..Max(places) |-> Zero + Digit(t, i)]

\* A variant of Format with one plausible mistake: seconds that are not padded.
FormatUnpadded(t) ==
  (IF Sec(t) < 10 THEN <<Zero + Sec(t)>> ELSE Seconds(t)) \o Fraction(t) \o <<Zulu>>

\* time.Format(time.RFC3339Nano)
Format(t) == Seconds(t) \o Fraction(t) \o <<Zulu>>

\* SQLite's <= on texts.
AtMost(s, t) ==
  \/ IsPrefix(s, t)
  \/ \E i \in 1..Len(s) :
       i <= Len(t) /\ s[i] < t[i] /\ \A k \in 1..(i - 1) : s[k] = t[k]

\* scheduled_at <= ?
Due == AtMost(Format(at), Format(now))

ClockInit == at \in 0..MaxTime /\ now = IF at < Unit THEN 0 ELSE at - Unit

\* The clock is followed from a second before the run to two seconds after it.
Tick ==
  /\ now < MaxTime /\ now < at + 2 * Unit
  /\ now' = now + 1
  /\ UNCHANGED at

ClockSpec == ClockInit /\ [][Tick]_clockVars

-----------------------------------------------------------------------------
(* Properties *)

\* A run is due to the second: never in an earlier second than its own, and
\* always in a later one, whatever digits the two texts have lost.
DueToTheSecond ==
  /\ Due => Sec(at) <= Sec(now)
  /\ Sec(at) < Sec(now) => Due

=============================================================================
