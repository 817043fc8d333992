----------------------------- MODULE MCScheduler -----------------------------
(* Small instances of Scheduler and of License for TLC, which run one after  *)
(* the other: `subject` names the one a behaviour goes through.              *)
EXTENDS Scheduler, License, TLC

\* "every" matches every instant, "late" one of them, and "prefixed" is
\* "CRON_TZ=... * * * * *", which AddFunc refuses behind a second prefix.
AllSpecs  == {"every", "late", "prefixed"}
GoodSpecs == {"every", "late"}
Matches   == [s \in AllSpecs |-> IF s = "late" THEN {MaxNow} ELSE 1..MaxNow]

\* A genuine token for one day, and one that nobody signed.
CONSTANTS Trial, Forged
SomeTokens     == {Trial, Forged}
TrialAndForged == [t \in SomeTokens |-> [genuine |-> t = Trial, from |-> 0, until |-> 0]]

Symmetry == Permutations(Handlers) \cup Permutations(Jobs)

VARIABLE subject

SumInit ==
  /\ subject \in {"scheduler", "license"}
  /\ Init /\ LicenseInit
  /\ subject # "license" => keyed
  /\ subject # "scheduler" => \A j \in Jobs : jobs[j] = NoJob

SumNext ==
  /\ \/ subject = "scheduler" /\ Next /\ UNCHANGED licenseVars
     \/ subject = "license" /\ LicenseNext /\ UNCHANGED vars
  /\ UNCHANGED subject

SumSpec == SumInit /\ [][SumNext]_<<subject, vars, licenseVars>>

=============================================================================
