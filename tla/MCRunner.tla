------------------------------ MODULE MCRunner ------------------------------
(* Small instances of Runner for TLC. *)
EXTENDS Runner, FiniteSets, TLC

Cfg(on, policy, max, kind) == [enabled |-> on, overlap |-> policy, retryMax |-> max, kind |-> kind]

SkipShell   == {Cfg(TRUE, "skip", 1, "shell")}
HttpOrShell == {Cfg(TRUE, "allow", 1, "http"), Cfg(TRUE, "allow", 0, "shell")}

NextSecond == {1}

Symmetry == Permutations(RunIds) \cup Permutations(Workers)

\* Bound: once the first process stops, two of the three runs.
TwoRunsAfterStop ==
  (daemon = "up" /\ boots = 1) \/ Cardinality({r \in RunIds : Status(r) # "none"}) <= 2

=============================================================================
