----------------------------- MODULE MCSettings -----------------------------
(* The daemon around its runs, one part after the other in one run: the      *)
(* maintenance cycle, the requests on the settings, the life cycle of the    *)
(* process and the migrations.  `subject` names the one that moves in a      *)
(* behaviour; the others rest.                                               *)
EXTENDS MaintenanceCycle, Settings, Lifecycle, Migrations

\* PUT /settings/retention: one key, two, and two that are refused.
SomeBodies == {[k \in {"max_log_bytes"} |-> 1],
               [k \in {"max_log_bytes", "global_concurrency"} |-> 2],
               [k \in {"retention_days", "global_concurrency"} |-> 0]}

CONSTANTS older, newer, newest
SomeProcs == {older, newer, newest}
Versions  == [p \in SomeProcs |-> IF p = older THEN 1 ELSE 2]

VARIABLE subject

sumVars == <<subject, vars, settingsVars, lifeVars, migrationVars>>

SumInit ==
  /\ subject \in {"maintenance", "retention", "process", "migrations"}
  /\ Init /\ SettingsInit /\ LifeInit /\ MigrationsInit
  /\ subject # "maintenance" => retention = 1
  /\ subject # "process" => portFree

Maintaining(A) == subject = "maintenance" /\ A /\ UNCHANGED <<subject, settingsVars, lifeVars, migrationVars>>
Retaining(A)   == subject = "retention" /\ A /\ UNCHANGED <<subject, vars, lifeVars, migrationVars>>
Living(A)      == subject = "process" /\ A /\ UNCHANGED <<subject, vars, settingsVars, migrationVars>>
Migrating(A)   == subject = "migrations" /\ A /\ UNCHANGED <<subject, vars, settingsVars, lifeVars>>

SumNext == Maintaining(Next) \/ Retaining(SettingsNext) \/ Living(LifeNext) \/ Migrating(MigrationsNext)

\* The fairness of each part, for the behaviours in which it moves.
SumSpec ==
  /\ SumInit /\ [][SumNext]_sumVars
  /\ WF_sumVars(Maintaining(Cycle)) /\ WF_sumVars(Maintaining(Boot))
  /\ WF_sumVars(Retaining(Capping("cycle")))
  /\ \A q \in Puts : WF_sumVars(Retaining(PutStep(q)))
  /\ WF_sumVars(Living(Shutdown)) /\ SF_sumVars(Living(Tell("scheduler")))
  /\ WF_sumVars(Living(TenSeconds))
  /\ WF_sumVars(Living(StartScheduler)) /\ WF_sumVars(Living(ReloadEnds))

=============================================================================
