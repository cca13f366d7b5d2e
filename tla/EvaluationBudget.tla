-------------------------- MODULE EvaluationBudget --------------------------
(***************************************************************************)
(* The budget of the desktop client's automatic TypeSafe evaluations, and  *)
(* what is promised of it.  TypeSafePolicy counts them.                    *)
(***************************************************************************)
EXTENDS Integers

CONSTANT Budget      \* TypeSafeDailyBudget, at least 1

\* Automatic evaluations begun since the counter was last reset (observation).
VARIABLE automatic

\* However goroutines overlap and whatever the operator forces, between two resets of the
\* counter no more automatic evaluations begin than the daily budget allows, although the
\* budget is checked before a call and counted after it (maybeTypeSafeEvaluate).
AutomaticWithinBudget == automatic <= Budget

=============================================================================
