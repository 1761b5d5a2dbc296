-------------------------------- MODULE Budgets --------------------------------
(***************************************************************************)
(* How much of each kind of activity one behaviour may hold.  Init takes   *)
(* one of Workloads, so that a run explores several small mixes of         *)
(* activities instead of the product of all of them.                       *)
(***************************************************************************)
EXTENDS Naturals

CONSTANT Workloads      \* bound: the mixes, records from activity to number of times

VARIABLE left           \* what is left of the mix

BudgetInit == left \in Workloads

Spend(activity) ==
    /\ left[activity] > 0
    /\ left' = [left EXCEPT ![activity] = @ - 1]

NoCost == UNCHANGED left
=============================================================================
