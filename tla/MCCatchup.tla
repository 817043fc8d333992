------------------------------ MODULE MCCatchup ------------------------------
(* Small instances of Catchup for TLC. *)
EXTENDS Catchup, TLC

CONSTANTS a, b

\* "a" runs at every instant, "b" (such as "0 0 30 2 *") at none.
EveryAndNever == (a :> (Instants \ Readings) \ {0}) @@ (b :> {})

=============================================================================
