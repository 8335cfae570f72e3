----------------------------- MODULE MCFunding -----------------------------
(* The budgets and schedules on which Funding is model-checked.            *)
EXTENDS Funding, TLC

CONSTANTS task, request

Settings(type, target, amount, due, fund, recur) ==
  [type |-> type, target |-> target, amount |-> amount, due |-> due,
   fund |-> fund, recur |-> recur]

Goal == Settings("goal", 3, 2, 0, 1..3, {})
GoalByDate == Settings("goal", 3, 0, 2, 1..3, {})
Capped == Settings("capped", 3, 2, 0, 1..3, {})
Recurring == Settings("recurring", 2, 0, 0, {1, 2}, {3, 6})
SameDay == Settings("recurring", 3, 0, 0, {2, 3}, {2, 4})

\* Every kind of budget, alone.
Alone == {1 :> p : p \in {Goal, GoalByDate, Capped, Recurring, SameDay}}

\* A recurring budget whose fill-up is full when it is funded and recurs on
\* the same day.
FullOnTheSameDay == {1 :> Settings("recurring", 2, 0, 0, {1, 2}, {2, 4})}
=============================================================================
