------------------------------ MODULE MCOutputs ------------------------------
(* Small instances, for TLC, of Outputs and of the three computations, which *)
(* run one after the other: `subject` names the one a behaviour goes through. *)
EXTENDS Outputs, Backoff, OutputTail, Timestamps

Symmetry == Permutations(Runs)

VARIABLE subject

SumInit ==
  /\ subject \in {"outputs", "backoff", "tail", "timestamps"}
  /\ Init /\ BackoffInit /\ TailInit /\ ClockInit
  /\ subject # "backoff" => baseSec = 0
  /\ subject # "timestamps" => at = 0

SumNext ==
  /\ \/ subject = "outputs" /\ Next /\ UNCHANGED <<backoffVars, tailVars, clockVars>>
     \/ subject = "backoff" /\ Retry /\ UNCHANGED <<vars, tailVars, clockVars>>
     \/ subject = "tail" /\ Output /\ UNCHANGED <<vars, backoffVars, clockVars>>
     \/ subject = "timestamps" /\ Tick /\ UNCHANGED <<vars, backoffVars, tailVars>>
  /\ UNCHANGED subject

SumSpec == SumInit /\ [][SumNext]_<<subject, vars, backoffVars, tailVars, clockVars>>

=============================================================================
